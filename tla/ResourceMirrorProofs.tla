------------------------- MODULE ResourceMirrorProofs -------------------------
(***************************************************************************)
(* Type correctness of ResourceMirror, the uniqueness of names and the     *)
(* identity of rows, for every set of names, rows and workers.             *)
(***************************************************************************)
EXTENDS ResourceMirror, TLAPS, WellFoundedInduction

\* The handler holds an event the informer has delivered.
EvOK == ev.pc # "idle" => handled < seen

\* Live rows, and the copies of rows that running tasks hold, have the name
\* of an object.
RowNamed  == \A r \in RowIds : IsLive(r) => rows[r].name \in Names
NamedTask == {t \in TaskState : \/ t.kind = "none" \/ t.step = "post"
                                \/ t.copy.name \in Names}
TaskNamed == task \in [RowIds -> NamedTask]

\* The inductive invariant.
IInv == TypeOK /\ EvOK /\ RowNamed /\ TaskNamed /\ UniqueName

------------------------------------------------------------------------------
(* Objects of the cluster *)

\* A nonempty set of positions has a last one.
LEMMA LastExists ==
  ASSUME NEW k \in Nat, NEW S \in SUBSET (1..k), S # {}
  PROVE  \E m \in S : \A x \in S : x <= m
<1> DEFINE T == {k - m : m \in S}
<1>1. \A m \in S : m \in Nat /\ k - m \in Nat
  OBVIOUS
<1>2. T \subseteq Nat
  BY <1>1
<1>3. PICK m0 \in S : TRUE
  OBVIOUS
<1>4. k - m0 \in T
  OBVIOUS
<1>5. PICK d \in T : \A y \in T : ~(<<y, d>> \in OpToRel(<, Nat))
  BY <1>2, <1>4, NatLessThanWellFounded, WFMin, Zenon
<1>6. \A y \in T : ~(y < d)
  BY <1>2, <1>5 DEF OpToRel
<1>7. PICK m \in S : d = k - m
  OBVIOUS
<1>8. ASSUME NEW x \in S PROVE x <= m
  <2>1. ~(k - x < k - m)
    BY <1>6, <1>7
  <2> QED
    BY <1>1, <2>1
<1> QED
  BY <1>8

\* The object of a name after k changes is typed.
LEMMA ObjAtType ==
  ASSUME log \in Seq(LogEntry), NEW n, NEW k \in 0..Len(log)
  PROVE  ObjAt(n, k) \in Obj
<1> DEFINE mine == {m \in 1..k : log[m].name = n}
           last == CHOOSE m \in mine : \A x \in mine : x <= m
<1>1. CASE mine = {}
  BY <1>1 DEF ObjAt, NoObj, Obj
<1>2. CASE mine # {}
  <2>1. k \in Nat /\ mine \in SUBSET (1..k)
    OBVIOUS
  <2>2. \E m \in mine : \A x \in mine : x <= m
    BY <1>2, <2>1, LastExists
  <2>3. last \in mine
    BY <2>2
  <2>4. last \in 1..Len(log)
    BY <2>3
  <2> HIDE DEF last
  <2>5. log[last] \in LogEntry /\ last \in Nat
    BY <2>4
  <2>6. ObjAt(n, k) = IF log[last].type = "delete" THEN NoObj
                      ELSE [uid |-> log[last].uid, rv |-> last]
    BY <1>2 DEF ObjAt, last
  <2> QED
    BY <2>5, <2>6 DEF NoObj, Obj, LogEntry
<1> QED
  BY <1>1, <1>2

LEMMA ObjTypes ==
  ASSUME TypeOK, NEW n
  PROVE  Remote(n) \in Obj /\ Cached(n) \in Obj
  BY ObjAtType DEF TypeOK, Remote, Cached

\* The change the API server appends is typed.
LEMMA ChangeType ==
  ASSUME TypeOK, NEW type \in {"add", "update", "delete"}, NEW n \in Names,
         Change(type, n)
  PROVE  log' \in Seq(LogEntry) /\ Len(log') = Len(log) + 1
<1>1. Remote(n) \in Obj
  BY ObjTypes
<1>2. Len(log) + 1 \in Nat
  BY DEF TypeOK
<1>3. [type |-> type, name |-> n,
       uid |-> IF type = "add" THEN Len(log) + 1 ELSE Remote(n).uid] \in LogEntry
  BY <1>1, <1>2 DEF Obj, LogEntry
<1> QED
  BY <1>3 DEF Change, TypeOK

------------------------------------------------------------------------------
(* Writes to the rows *)

LEMMA Constants ==
  /\ NoRow \in Row /\ NoObj \in Obj /\ NoTask \in TaskState
  /\ EvIdle \in EvState /\ SyncIdle \in SyncState /\ SyncIdle.pos = 0
<1>1. NoRow \in Row /\ NoObj \in Obj
  BY DEF NoRow, Row, NoObj, Obj, Status
<1>2. NoTask \in TaskState
  BY <1>1 DEF NoTask, TaskState, TaskKinds, TaskSteps
<1>3. EvIdle \in EvState
  BY <1>1 DEF EvIdle, EvState
<1>4. SyncIdle \in SyncState /\ SyncIdle.pos = 0
  BY <1>1 DEF SyncIdle, SyncState
<1> QED
  BY <1>1, <1>2, <1>3, <1>4

\* Every row that is live afterwards was live before, under the same name.
NamesKept ==
  \A r \in RowIds : rows'[r] # NoRow =>
    rows[r] # NoRow /\ rows'[r].name = rows[r].name

\* One row has come to life, under a name no row had.
OneInserted ==
  \E x \in RowIds, n \in Names :
    /\ ~NameTaken(n)
    /\ rows'[x].name = n
    /\ \A r \in RowIds \ {x} : rows'[r] = rows[r]

RowsOK == rows' \in [RowIds -> Row] /\ (NamesKept \/ OneInserted)

LEMMA UniqueKept ==
  ASSUME UniqueName, NamesKept \/ OneInserted
  PROVE  UniqueName'
<1>1. CASE NamesKept
  BY <1>1 DEF NamesKept, UniqueName, IsLive
<1>2. CASE OneInserted
  <2>1. PICK x \in RowIds, n \in Names :
          /\ ~NameTaken(n)
          /\ rows'[x].name = n
          /\ \A r \in RowIds \ {x} : rows'[r] = rows[r]
    BY <1>2 DEF OneInserted
  <2>2. \A r \in RowIds : IsLive(r) => rows[r].name # n
    BY <2>1 DEF NameTaken, RowsNamed
  <2> QED
    BY <2>1, <2>2 DEF UniqueName, IsLive
<1> QED
  BY <1>1, <1>2

LEMMA RowsSame ==
  ASSUME rows \in [RowIds -> Row], rows' = rows
  PROVE  RowsOK
  BY DEF RowsOK, NamesKept

LEMMA UpdateRows ==
  ASSUME rows \in [RowIds -> Row], NEW r, NEW copy, NEW o \in Obj,
         UpdateFromRemoteObject(r, copy, o)
  PROVE  RowsOK
<1>1. CASE rows' = rows
  BY <1>1, RowsSame
<1>2. CASE r \in RowIds /\ IsLive(r) /\ rows' = [rows EXCEPT ![r] = Merge(@, copy, o)]
  <2>1. rows[r] \in Row
    BY <1>2
  <2>2. Merge(rows[r], copy, o) \in Row /\ Merge(rows[r], copy, o).name = rows[r].name
    BY <2>1 DEF Merge, Row, Obj, Status, SetStatusByRemoteObject
  <2>3. rows' \in [RowIds -> Row]
    BY <1>2, <2>2
  <2>4. NamesKept
    BY <1>2, <2>2 DEF NamesKept, IsLive
  <2> QED
    BY <2>3, <2>4 DEF RowsOK
<1>3. rows' = rows \/ (r \in RowIds /\ IsLive(r)
                         /\ rows' = [rows EXCEPT ![r] = Merge(@, copy, o)])
  BY DEF UpdateFromRemoteObject
<1> QED
  BY <1>1, <1>2, <1>3

LEMMA DropRow ==
  ASSUME rows \in [RowIds -> Row], NEW r, rows' = [rows EXCEPT ![r] = NoRow]
  PROVE  RowsOK
<1>1. rows' \in [RowIds -> Row]
  BY Constants
<1>2. NamesKept
  BY DEF NamesKept
<1> QED
  BY <1>1, <1>2 DEF RowsOK

LEMMA RemoveRows ==
  ASSUME rows \in [RowIds -> Row], NEW r, NEW copy,
         SyncRemovedClusterResource(r, copy)
  PROVE  RowsOK
  BY RowsSame, DropRow DEF SyncRemovedClusterResource

LEMMA StatusRows ==
  ASSUME rows \in [RowIds -> Row], NEW r \in RowIds, NEW s \in Status,
         rows' = SetStatus(r, s)
  PROVE  RowsOK
<1>1. CASE IsLive(r)
  <2>1. rows[r] \in Row /\ rows' = [rows EXCEPT ![r] = [rows[r] EXCEPT !.status = s]]
    BY <1>1 DEF SetStatus
  <2>2. /\ [rows[r] EXCEPT !.status = s] \in Row
        /\ [rows[r] EXCEPT !.status = s].name = rows[r].name
    BY <2>1 DEF Row
  <2>3. rows' \in [RowIds -> Row]
    BY <2>1, <2>2
  <2>4. NamesKept
    BY <1>1, <2>1, <2>2 DEF NamesKept, IsLive
  <2> QED
    BY <2>3, <2>4 DEF RowsOK
<1>2. CASE ~IsLive(r)
  BY <1>2, RowsSame DEF SetStatus
<1> QED
  BY <1>1, <1>2

\* An insert under a name that no row has.
LEMMA InsertRow ==
  ASSUME rows \in [RowIds -> Row], NEW x \in RowIds, NEW n \in Names,
         ~NameTaken(n), NEW row \in Row, row.name = n,
         rows' = [rows EXCEPT ![x] = row]
  PROVE  RowsOK
<1>1. rows' \in [RowIds -> Row]
  OBVIOUS
<1>2. OneInserted
  BY DEF OneInserted
<1> QED
  BY <1>1, <1>2 DEF RowsOK

LEMMA NewRowType ==
  ASSUME NEW n \in Names, NEW o \in Obj
  PROVE  NewRow(n, o) \in Row /\ NewRow(n, o).name = n /\ NewRow(n, o).uid = o.uid
<1>1. "init" \in Status
  BY DEF Status, BusyStatus
<1> QED
  BY <1>1 DEF NewRow, Row, Obj

LEMMA NewRows ==
  ASSUME rows \in [RowIds -> Row], NEW n \in Names, NEW o \in Obj,
         NEW r \in RowIds, NewFromRemoteObject(r, n, o)
  PROVE  RowsOK
  BY NewRowType, InsertRow DEF NewFromRemoteObject

------------------------------------------------------------------------------
(* Steps *)

\* What is left to show of a step whose writes to the rows are sound.
LEMMA Combine ==
  ASSUME IInv, RowsOK, EvOK',
         log' \in Seq(LogEntry), Len(log') \in Nat,
         seen' \in 0..Len(log'), handled' \in 0..seen',
         bidir' \in BOOLEAN, ev' \in EvState,
         TaskNamed', sync' \in [Workers -> SyncState],
         \A w \in Workers : sync'[w].pos <= Len(log'),
         ext' \in 0..MaxExternal, ops' \in 0..MaxOps
  PROVE  IInv'
<1>1. TypeOK'
  <2>1. task' \in [RowIds -> TaskState]
    BY DEF TaskNamed, NamedTask
  <2> QED
    BY <2>1 DEF TypeOK, RowsOK
<1>2. UniqueName'
  BY UniqueKept DEF IInv, RowsOK
<1>3. RowNamed'
  BY DEF IInv, RowNamed, RowsOK, NamesKept, OneInserted, IsLive
<1> QED
  BY <1>1, <1>2, <1>3 DEF IInv

LEMMA InitIInv == Init => IInv
<1> SUFFICES ASSUME Init PROVE IInv
  OBVIOUS
<1>1. TypeOK
  <2>1. log \in Seq(LogEntry) /\ Len(log) = 0
    BY DEF Init
  <2>2. rows \in [RowIds -> Row] /\ task \in [RowIds -> TaskState] /\ ev \in EvState
    BY Constants DEF Init
  <2>3. sync \in [Workers -> SyncState] /\ \A w \in Workers : sync[w].pos = 0
    BY Constants DEF Init
  <2>4. seen = 0 /\ handled = 0 /\ bidir \in BOOLEAN
    BY DEF Init
  <2>5. ext \in 0..MaxExternal /\ ops \in 0..MaxOps
    <3>1. ext = 0 /\ ops = 0
      BY DEF Init
    <3> QED
      BY <3>1, BoundsAssumption
  <2> QED
    BY <2>1, <2>2, <2>3, <2>4, <2>5 DEF TypeOK
<1>2. EvOK
  BY DEF Init, EvOK, EvIdle
<1>3. UniqueName /\ RowNamed
  BY DEF Init, UniqueName, RowNamed, IsLive
<1>4. TaskNamed
  BY Constants DEF Init, TaskNamed, NamedTask, NoTask
<1> QED
  BY <1>1, <1>2, <1>3, <1>4 DEF IInv

LEMMA ClusterStep ==
  ASSUME IInv, (\E n \in Names : KubeChange(n)) \/ InformerDeliver
  PROVE  IInv'
<1> USE DEF IInv, TypeOK, TaskNamed
<1>1. RowsOK
  BY RowsSame DEF KubeChange, InformerDeliver
<1>2. CASE InformerDeliver
  BY <1>1, <1>2, Combine DEF InformerDeliver, EvOK
<1>3. ASSUME NEW n \in Names, KubeChange(n) PROVE IInv'
  <2>1. log' \in Seq(LogEntry) /\ Len(log') = Len(log) + 1
    BY <1>3, ChangeType DEF KubeChange
  <2>2. /\ UNCHANGED <<seen, handled, bidir, ev, task, sync, ops>>
        /\ ext' \in 0..MaxExternal
    BY <1>3, BoundsAssumption DEF KubeChange
  <2>3. EvOK' /\ seen' \in 0..Len(log') /\ Len(log') \in Nat
    BY <2>1, <2>2 DEF EvOK
  <2>4. \A w \in Workers : sync'[w].pos <= Len(log')
    <3> TAKE w \in Workers
    <3>1. sync[w] \in SyncState
      OBVIOUS
    <3> QED
      BY <2>1, <2>2, <3>1 DEF SyncState
  <2> QED
    BY <1>1, <2>1, <2>2, <2>3, <2>4, Combine
<1> QED
  BY <1>2, <1>3

LEMMA EventStep == ASSUME IInv, Event PROVE IInv'
<1> USE DEF IInv, TypeOK, TaskNamed
<1>1. CASE EventDrop
  <2>1. RowsOK
    BY <1>1, RowsSame DEF EventDrop
  <2> QED
    BY <1>1, <2>1, Combine DEF EventDrop, EvOK, EvIdle
<1>2. CASE EventStart
  <2>1. RowsOK
    BY <1>2, RowsSame DEF EventStart
  <2>2. ev' \in EvState
    BY <1>2, Constants DEF EventStart, EvState
  <2> QED
    BY <1>2, <2>1, <2>2, Combine DEF EventStart, EvOK
<1>3. CASE EventLookup
  <2>1. RowsOK
    BY <1>3, RowsSame DEF EventLookup
  <2>2. ev' \in EvState
    BY <1>3, Constants DEF EventLookup, EvState, RowsNamed
  <2>3. handled' \in 0..seen /\ EvOK'
    BY <1>3 DEF EventLookup, EvOK, EvIdle
  <2> QED
    BY <1>3, <2>1, <2>2, <2>3, Combine DEF EventLookup
<1>4. CASE EventInsert
  <2>1. handled < seen
    BY <1>4 DEF EventInsert, EvOK
  <2>2. handled + 1 \in 1..Len(log)
    BY <2>1
  <2>3. NextEvent \in LogEntry
    BY <2>2 DEF NextEvent
  <2>4. NextEvent.name \in Names /\ EventObj \in Obj
    BY <2>2, <2>3 DEF LogEntry, EventObj, Obj
  <2>5. PICK r \in RowIds :
          /\ NewFromRemoteObject(r, NextEvent.name, EventObj)
          /\ ev' = [pc |-> "update", row |-> r,
                    copy |-> NewRow(NextEvent.name, EventObj)]
    BY <1>4 DEF EventInsert
  <2>6. RowsOK
    BY <2>4, <2>5, NewRows
  <2>7. ev' \in EvState
    BY <2>4, <2>5, NewRowType DEF EvState
  <2> QED
    BY <1>4, <2>1, <2>6, <2>7, Combine DEF EventInsert, EvOK
<1>5. CASE EventApply
  <2>1. handled < seen
    BY <1>5 DEF EventApply, EvOK
  <2>2. handled + 1 \in 1..Len(log)
    BY <2>1
  <2>3. NextEvent \in LogEntry
    BY <2>2 DEF NextEvent
  <2>4. NextEvent.name \in Names /\ EventObj \in Obj
    BY <2>2, <2>3 DEF LogEntry, EventObj, Obj
  <2>5. RowsOK
    BY <1>5, <2>4, UpdateRows, RemoveRows DEF EventApply
  <2>6. handled' \in 0..seen
    BY <1>5, <2>1 DEF EventApply
  <2>7. ev' \in EvState /\ EvOK'
    BY <1>5, Constants DEF EventApply, EvOK, EvIdle
  <2> QED
    BY <1>5, <2>5, <2>6, <2>7, Combine DEF EventApply
<1> QED
  BY <1>1, <1>2, <1>3, <1>4, <1>5 DEF Event

LEMMA SyncSteps ==
  ASSUME IInv, NEW w \in Workers, SyncSubmit(w) \/ SyncStep(w)
  PROVE  IInv'
<1> USE DEF IInv, TypeOK, TaskNamed
<1>0. sync[w] \in SyncState
  OBVIOUS
<1>1. CASE SyncSubmit(w)
  <2>1. RowsOK
    BY <1>1, RowsSame DEF SyncSubmit
  <2>2. sync' \in [Workers -> SyncState] /\ \A v \in Workers : sync'[v].pos = sync[v].pos
    BY <1>0, <1>1 DEF SyncSubmit, SyncState
  <2>3. /\ bidir' \in BOOLEAN
        /\ UNCHANGED <<log, seen, handled, ev, task, ext, ops>>
    BY <1>1 DEF SyncSubmit
  <2>4. EvOK'
    BY <2>3 DEF EvOK
  <2> QED
    BY <2>1, <2>2, <2>3, <2>4, Combine
<1>2. CASE SyncList(w)
  <2>1. RowsOK
    BY <1>2, RowsSame DEF SyncList
  <2>2. sync' = [sync EXCEPT ![w] = [sync[w] EXCEPT !.pc = "listed", !.pos = seen]]
    BY <1>2 DEF SyncList
  <2>3. /\ [sync[w] EXCEPT !.pc = "listed", !.pos = seen] \in SyncState
        /\ [sync[w] EXCEPT !.pc = "listed", !.pos = seen].pos = seen
    <3>1. seen \in Nat
      OBVIOUS
    <3> HIDE DEF IInv, TypeOK
    <3> QED
      BY <1>0, <3>1 DEF SyncState
  <2>4. /\ sync' \in [Workers -> SyncState]
        /\ \A v \in Workers : sync'[v].pos <= Len(log)
    BY <2>2, <2>3
  <2> QED
    BY <1>2, <2>1, <2>4, Combine DEF SyncList, EvOK
<1>3. CASE SyncQuery(w)
  <2>1. RowsOK
    BY <1>3, RowsSame DEF SyncQuery
  <2>2. CASE sync' = [sync EXCEPT ![w] = SyncIdle]
    BY <1>3, <2>1, <2>2, Constants, Combine DEF SyncQuery, EvOK
  <2>3. CASE \E rem, com \in SUBSET RowIds, add \in SUBSET Names :
               sync' = [sync EXCEPT ![w] =
                 [pc |-> "apply", pos |-> sync[w].pos, copy |-> rows,
                  removed |-> rem, common |-> com, added |-> add, err |-> FALSE]]
    <3>1. /\ sync' \in [Workers -> SyncState]
          /\ \A v \in Workers : sync'[v].pos = sync[v].pos
      BY <1>0, <2>3 DEF SyncState
    <3> QED
      BY <1>3, <2>1, <3>1, Combine DEF SyncQuery, EvOK
  <2> QED
    BY <1>3, <2>2, <2>3 DEF SyncQuery
<1>4. ASSUME NEW r \in RowIds, SyncRemove(w, r) PROVE IInv'
  <2>1. RowsOK
    BY <1>4, RemoveRows DEF SyncRemove
  <2>2. sync' \in [Workers -> SyncState] /\ \A v \in Workers : sync'[v].pos = sync[v].pos
    BY <1>0, <1>4 DEF SyncRemove, SyncState
  <2> QED
    BY <1>4, <2>1, <2>2, Combine DEF SyncRemove, EvOK
<1>5. ASSUME NEW r \in RowIds, SyncUpdate(w, r) PROVE IInv'
  <2>1. sync[w].pos \in 0..Len(log)
    BY <1>0 DEF SyncState
  <2>2. PairedObj(w, r) \in Obj
    BY <2>1, ObjAtType DEF PairedObj
  <2>3. RowsOK
    BY <1>5, <2>2, UpdateRows DEF SyncUpdate
  <2>4. sync' \in [Workers -> SyncState] /\ \A v \in Workers : sync'[v].pos = sync[v].pos
    <3> DEFINE e == sync[w].err \/ ~Accepts(sync[w].copy[r], PairedObj(w, r))
    <3>1. sync' = [sync EXCEPT ![w] = [sync[w] EXCEPT !.pc = "apply",
                     !.common = @ \ {r}, !.err = e]] /\ e \in BOOLEAN
      BY <1>5 DEF SyncUpdate
    <3> HIDE DEF e
    <3> QED
      BY <1>0, <3>1 DEF SyncState
  <2> QED
    BY <1>5, <2>3, <2>4, Combine DEF SyncUpdate, EvOK
<1>6. ASSUME NEW n \in Names, SyncAdd(w, n) PROVE IInv'
  <2>1. sync[w].pos \in 0..Len(log)
    BY <1>0 DEF SyncState
  <2>2. ObjAt(n, sync[w].pos) \in Obj
    BY <2>1, ObjAtType
  <2>0. UNCHANGED <<log, seen, handled, bidir, ev, task, ext, ops>> /\ EvOK'
    BY <1>6 DEF SyncAdd, EvOK
  <2>3. CASE /\ rows' = rows
             /\ sync' = [sync EXCEPT ![w].added = @ \ {n}, ![w].err = TRUE]
    <3>1. RowsOK
      BY <2>3, RowsSame
    <3> DEFINE s == [sync[w] EXCEPT !.added = @ \ {n}, !.err = TRUE]
    <3>a. s \in SyncState /\ s.pos = sync[w].pos
      <4> HIDE DEF IInv, TypeOK
      <4> QED
        BY <1>0 DEF SyncState
    <3>b. sync' = [sync EXCEPT ![w] = s]
      BY <2>3
    <3> HIDE DEF s
    <3>2. sync' \in [Workers -> SyncState] /\ \A v \in Workers : sync'[v].pos = sync[v].pos
      BY <3>a, <3>b
    <3> QED
      BY <2>0, <3>1, <3>2, Combine
  <2>4. ASSUME NEW r \in RowIds, NewFromRemoteObject(r, n, ObjAt(n, sync[w].pos)),
               sync' = [sync EXCEPT ![w].pc = "insert", ![w].added = @ \ {n},
                          ![w].common = {r},
                          ![w].copy = [@ EXCEPT ![r] = NewRow(n, ObjAt(n, sync[w].pos))]]
        PROVE  IInv'
    <3>1. RowsOK
      BY <2>2, <2>4, NewRows
    <3> DEFINE c == [sync[w].copy EXCEPT ![r] = NewRow(n, ObjAt(n, sync[w].pos))]
    <3>2. c \in [RowIds -> Row]
      <4>1. sync[w].copy \in [RowIds -> Row]
        BY <1>0 DEF SyncState
      <4> QED
        BY <2>2, <4>1, NewRowType
    <3> DEFINE s == [sync[w] EXCEPT !.pc = "insert", !.added = @ \ {n},
                                    !.common = {r}, !.copy = c]
    <3>3. sync' = [sync EXCEPT ![w] = s]
      BY <2>4
    <3> HIDE DEF c
    <3>a. s \in SyncState /\ s.pos = sync[w].pos
      <4> HIDE DEF IInv, TypeOK
      <4> QED
        BY <1>0, <3>2 DEF SyncState
    <3> HIDE DEF s
    <3>4. sync' \in [Workers -> SyncState] /\ \A v \in Workers : sync'[v].pos = sync[v].pos
      BY <3>3, <3>a
    <3> QED
      BY <2>0, <3>1, <3>4, Combine
  <2> QED
    BY <1>6, <2>3, <2>4 DEF SyncAdd
<1>7. CASE SyncFinish(w)
  <2>1. RowsOK
    BY <1>7, RowsSame DEF SyncFinish
  <2>2. bidir' \in BOOLEAN
    BY <1>0, <1>7 DEF SyncFinish, Reenable, SyncState
  <2> QED
    BY <1>7, <2>1, <2>2, Constants, Combine DEF SyncFinish, EvOK
<1> QED
  BY <1>1, <1>2, <1>3, <1>4, <1>5, <1>6, <1>7 DEF SyncStep

\* What the tasks write: rows typed and named as before, tasks typed.
LEMMA TaskSteps1 ==
  ASSUME IInv, NEW r \in RowIds,
         \/ CreateStart(r) \/ CreateApply(r) \/ CreateSync(r)
         \/ SyncGet(r) \/ SyncApply(r) \/ UpdateGet(r) \/ UpdateApply(r)
         \/ DeletePurge(r)
  PROVE  IInv'
<1> USE DEF IInv, TypeOK, TaskNamed
<1>1. task[r] \in TaskState /\ task[r].copy \in Row /\ task[r].obj \in Obj
  <2>1. task[r] \in TaskState
    OBVIOUS
  <2> QED
    BY <2>1 DEF TaskState
<1>2. /\ UNCHANGED <<log, seen, handled, bidir, ev, sync, ext, ops>>
      /\ EvOK'
  BY DEF CreateStart, CreateApply, CreateSync, SyncGet, SyncApply, UpdateGet,
         UpdateApply, DeletePurge, EvOK
<1>3. \A s \in {"creating", "syncing", "sync_fail", "update_fail"} : s \in Status
  BY DEF Status, FailStatus, BusyStatus
<1>4. RowsOK
  <2>1. CASE CreateStart(r)
    BY <1>3, <2>1, StatusRows DEF CreateStart
  <2>2. CASE CreateApply(r)
    BY <1>1, <2>2, UpdateRows DEF CreateApply
  <2>3. CASE CreateSync(r)
    BY <1>3, <2>3, StatusRows DEF CreateSync
  <2>4. CASE SyncGet(r)
    BY <1>3, <2>4, StatusRows, RowsSame DEF SyncGet, FailTask
  <2>5. CASE SyncApply(r)
    BY <1>1, <1>3, <2>5, StatusRows, UpdateRows DEF SyncApply, FailTask
  <2>6. CASE UpdateGet(r)
    BY <1>3, <2>6, StatusRows, RowsSame DEF UpdateGet, FailTask
  <2>7. CASE UpdateApply(r)
    BY <1>1, <1>3, <2>7, StatusRows, UpdateRows DEF UpdateApply, FailTask
  <2>8. CASE DeletePurge(r)
    BY <2>8, DropRow DEF DeletePurge
  <2> QED
    BY <2>1, <2>2, <2>3, <2>4, <2>5, <2>6, <2>7, <2>8
<1>5. rows'[r] \in Row
  BY <1>4 DEF RowsOK
<1>6. Cached(task[r].copy.name) \in Obj
  BY ObjTypes
<1>7. ASSUME NEW step \in TaskSteps, NEW copy \in Row, copy.name \in Names
      PROVE  [task[r] EXCEPT !.step = step, !.copy = copy] \in NamedTask
  BY <1>1, <1>7 DEF TaskState, NamedTask
<1>8. ASSUME NEW step \in TaskSteps, NEW obj \in Obj, task[r].copy.name \in Names
      PROVE  /\ [task[r] EXCEPT !.step = step, !.obj = obj] \in NamedTask
             /\ [task[r] EXCEPT !.step = step] \in NamedTask
  BY <1>1, <1>8 DEF TaskState, NamedTask
<1>9. \A s \in {"remote", "sync", "syncget", "syncapply", "put"} : s \in TaskSteps
  BY DEF TaskSteps
<1>10. ASSUME task[r].kind # "none", task[r].step # "post"
       PROVE  task[r].copy.name \in Names
  <2>1. task[r] \in NamedTask
    OBVIOUS
  <2> QED
    BY <1>10, <2>1 DEF NamedTask
<1>11. ASSUME NEW s, IsLive(r), rows' = SetStatus(r, s)
       PROVE  rows'[r].name \in Names
  <2>1. rows[r] \in Row /\ rows[r].name \in Names
    BY <1>11 DEF RowNamed
  <2>2. rows'[r] = [rows[r] EXCEPT !.status = s]
    BY <1>11 DEF SetStatus
  <2> QED
    BY <2>1, <2>2 DEF Row
<1>12. \E t \in NamedTask : task' = [task EXCEPT ![r] = t]
  <2>1. CASE EndTask(r)
    <3>1. NoTask \in NamedTask
      BY Constants DEF NamedTask, NoTask
    <3> QED
      BY <2>1, <3>1 DEF EndTask
  <2>2. CASE CreateStart(r)
    <3>1. \/ /\ task' = [task EXCEPT ![r] = [@ EXCEPT !.step = "remote", !.copy = rows'[r]]]
             /\ rows'[r].name \in Names
          \/ EndTask(r)
      BY <1>11, <2>2 DEF CreateStart
    <3> QED
      BY <1>5, <1>7, <1>9, <2>1, <3>1
  <2>3. CASE CreateApply(r)
    BY <1>1, <1>8, <1>9, <1>10, <2>3 DEF CreateApply
  <2>4. CASE CreateSync(r)
    <3>1. \/ /\ task' = [task EXCEPT ![r] = [@ EXCEPT !.step = "syncget", !.copy = rows'[r]]]
             /\ rows'[r].name \in Names
          \/ EndTask(r)
      BY <1>11, <2>4 DEF CreateSync
    <3> QED
      BY <1>5, <1>7, <1>9, <2>1, <3>1
  <2>5. CASE SyncGet(r)
    <3>1. CASE task[r].copy.name \in Names
      BY <1>6, <1>8, <1>9, <2>1, <2>5, <3>1 DEF SyncGet, FailTask
    <3>2. CASE task[r].kind = "none"
      <4>1. task' = [task EXCEPT ![r] = [@ EXCEPT !.step = "syncapply",
                       !.obj = Cached(task[r].copy.name)]] \/ EndTask(r)
        BY <2>5 DEF SyncGet, FailTask
      <4>2. [task[r] EXCEPT !.step = "syncapply", !.obj = Cached(task[r].copy.name)]
              \in NamedTask
        BY <1>1, <1>6, <1>9, <3>2 DEF TaskState, NamedTask
      <4> QED
        BY <2>1, <4>1, <4>2
    <3> QED
      BY <1>10, <2>5, <3>1, <3>2 DEF SyncGet
  <2>6. CASE UpdateGet(r)
    BY <1>6, <1>8, <1>9, <1>10, <2>1, <2>6 DEF UpdateGet, FailTask
  <2> QED
    BY <2>1, <2>2, <2>3, <2>4, <2>5, <2>6
       DEF SyncApply, UpdateApply, DeletePurge, FailTask
<1>13. TaskNamed'
  BY <1>12
<1> QED
  BY <1>2, <1>4, <1>13, Combine

\* The steps in which a task changes the cluster.
LEMMA TaskSteps2 ==
  ASSUME IInv, NEW r \in RowIds,
         CreateRemote(r) \/ UpdatePut(r) \/ DeleteRemote(r)
  PROVE  IInv'
<1> USE DEF IInv, TypeOK, TaskNamed
<1> DEFINE n == task[r].copy.name
<1>1. task[r] \in TaskState /\ task[r].copy \in Row /\ task[r].obj \in Obj
  <2>1. task[r] \in TaskState
    OBVIOUS
  <2> QED
    BY <2>1 DEF TaskState
<1>0. n \in Names
  <2>1. task[r] \in NamedTask
    OBVIOUS
  <2> QED
    BY <2>1 DEF NamedTask, CreateRemote, UpdatePut, DeleteRemote
<1>2. /\ UNCHANGED <<seen, handled, bidir, ev, sync, ext, ops>>
      /\ EvOK'
  BY DEF CreateRemote, UpdatePut, DeleteRemote, EvOK
<1>3. \A s \in {"create_fail", "update_fail", "delete_fail"} : s \in Status
  BY DEF Status, FailStatus
<1>4. RowsOK
  BY <1>3, StatusRows, RowsSame DEF CreateRemote, UpdatePut, DeleteRemote, FailTask
<1>5. /\ log' \in Seq(LogEntry) /\ Len(log') \in Nat
      /\ log' = log \/ Len(log') = Len(log) + 1
  <2>1. log' = log \/ \E type \in {"add", "update", "delete"} : Change(type, n)
    BY DEF CreateRemote, UpdatePut, DeleteRemote
  <2> QED
    BY <1>0, <2>1, ChangeType
<1>6. seen' \in 0..Len(log')
  BY <1>2, <1>5
<1>7. \A w \in Workers : sync'[w].pos <= Len(log')
  <2> TAKE w \in Workers
  <2>1. sync[w] \in SyncState
    OBVIOUS
  <2> QED
    BY <1>2, <1>5, <2>1 DEF SyncState
<1>8. ASSUME NEW step \in TaskSteps, NEW obj \in Obj
      PROVE  /\ [task[r] EXCEPT !.step = step, !.obj = obj] \in NamedTask
             /\ [task[r] EXCEPT !.step = step] \in NamedTask
  BY <1>0, <1>1 DEF TaskState, NamedTask
<1>9. "apply" \in TaskSteps /\ "purge" \in TaskSteps
  BY DEF TaskSteps
<1>10. \E t \in NamedTask : task' = [task EXCEPT ![r] = t]
  <2>1. CASE EndTask(r)
    <3>1. NoTask \in NamedTask
      BY Constants DEF NamedTask, NoTask
    <3> QED
      BY <2>1, <3>1 DEF EndTask
  <2>2. CASE CreateRemote(r)
    <3>1. [uid |-> Len(log) + 1, rv |-> Len(log) + 1] \in Obj
      BY DEF Obj
    <3> QED
      BY <1>8, <1>9, <2>1, <2>2, <3>1 DEF CreateRemote, FailTask
  <2>3. CASE UpdatePut(r)
    <3>1. Cached(n) \in Obj
      BY ObjTypes
    <3>2. [task[r].obj EXCEPT !.rv = Len(log) + 1] \in Obj
      BY <1>1 DEF Obj
    <3> QED
      BY <1>8, <1>9, <2>1, <2>3, <3>1, <3>2 DEF UpdatePut, FailTask
  <2>4. CASE DeleteRemote(r)
    BY <1>1, <1>8, <1>9, <2>1, <2>4 DEF DeleteRemote, FailTask
  <2> QED
    BY <2>2, <2>3, <2>4
<1>11. TaskNamed'
  BY <1>10
<1> QED
  BY <1>2, <1>4, <1>5, <1>6, <1>7, <1>11, Combine

LEMMA UserSteps == ASSUME IInv, User PROVE IInv'
<1> USE DEF IInv, TypeOK, TaskNamed
<1>1. /\ UNCHANGED <<log, seen, handled, bidir, ev, sync, ext>>
      /\ EvOK'
  BY DEF User, UserCreate, UserUpdate, UserDelete, UserPurge, EvOK
<1>2. ops' \in 0..MaxOps
  BY BoundsAssumption DEF User, UserCreate, UserUpdate, UserDelete, UserPurge
<1>3. ASSUME NEW n \in Names, UserCreate(n) PROVE IInv'
  <2>1. PICK r \in RowIds :
          /\ rows' = [rows EXCEPT ![r] =
                       [name |-> n, uid |-> 0, rv |-> 0, status |-> "init"]]
          /\ task' = [task EXCEPT ![r] =
                       [NoTask EXCEPT !.kind = "create", !.step = "post"]]
    BY <1>3 DEF UserCreate
  <2>2. [name |-> n, uid |-> 0, rv |-> 0, status |-> "init"] \in Row
    BY DEF Row, Status, BusyStatus
  <2>3. RowsOK
    BY <1>3, <2>1, <2>2, InsertRow DEF UserCreate
  <2>4. [NoTask EXCEPT !.kind = "create", !.step = "post"] \in NamedTask
    BY Constants DEF NoTask, TaskState, TaskKinds, TaskSteps, NamedTask
  <2>5. TaskNamed'
    BY <2>1, <2>4
  <2> QED
    BY <1>1, <1>2, <2>3, <2>5, Combine
<1>4. ASSUME NEW r \in RowIds, UserUpdate(r) \/ UserDelete(r) PROVE IInv'
  <2>1. PICK s \in {"updating", "deleting"} :
          /\ rows' = SetStatus(r, s)
          /\ IsLive(r)
    BY <1>4 DEF UserUpdate, UserDelete
  <2>2. s \in Status
    BY DEF Status, BusyStatus
  <2>3. RowsOK
    BY <2>1, <2>2, StatusRows
  <2>4. rows'[r] \in Row
    BY <2>3 DEF RowsOK
  <2>5. rows'[r].name \in Names
    <3>1. rows[r] \in Row /\ rows[r].name \in Names
      BY <2>1 DEF RowNamed
    <3>2. rows'[r] = [rows[r] EXCEPT !.status = s]
      BY <2>1 DEF SetStatus
    <3> QED
      BY <3>1, <3>2 DEF Row
  <2>6. \E kind \in {"update", "delete"}, step \in {"get", "remote"} :
          task' = [task EXCEPT ![r] = [kind |-> kind, step |-> step,
                                       copy |-> rows'[r], obj |-> NoObj]]
    BY <1>4 DEF UserUpdate, UserDelete
  <2>7. \A kind \in {"update", "delete"}, step \in {"get", "remote"} :
          [kind |-> kind, step |-> step, copy |-> rows'[r], obj |-> NoObj] \in NamedTask
    BY <2>4, <2>5, Constants DEF TaskState, TaskKinds, TaskSteps, NamedTask
  <2>8. TaskNamed'
    BY <2>6, <2>7
  <2> QED
    BY <1>1, <1>2, <2>3, <2>8, Combine
<1>5. ASSUME NEW r \in RowIds, UserPurge(r) PROVE IInv'
  <2>1. RowsOK /\ TaskNamed'
    BY <1>5, DropRow DEF UserPurge
  <2> QED
    BY <1>1, <1>2, <2>1, Combine
<1> QED
  BY <1>3, <1>4, <1>5 DEF User

LEMMA Inductive == Spec => []IInv
<1>1. IInv /\ [Next]_vars => IInv'
  <2> SUFFICES ASSUME IInv, [Next]_vars PROVE IInv'
    OBVIOUS
  <2>1. CASE UNCHANGED vars
    BY <2>1 DEF vars, IInv, TypeOK, EvOK, RowNamed, TaskNamed, UniqueName, IsLive
  <2>2. CASE \E r \in RowIds : TaskStep(r)
    BY <2>2, TaskSteps1, TaskSteps2 DEF TaskStep
  <2>3. CASE \E w \in Workers : SyncSubmit(w) \/ SyncStep(w)
    BY <2>3, SyncSteps
  <2> QED
    BY <2>1, <2>2, <2>3, ClusterStep, EventStep, UserSteps DEF Next
<1> QED
  BY InitIInv, <1>1, PTL DEF Spec

\* Statuses, versions and the local state of the handler, the passes and the
\* tasks keep their types, and nobody runs ahead of the informer, for every
\* number of names, rows and overlapping passes.
THEOREM TypeCorrect == Spec => []TypeOK
<1>1. IInv => TypeOK
  BY DEF IInv
<1> QED
  BY Inductive, <1>1, PTL

\* However many sync passes overlap with the event handler and with create
\* requests, no two rows of a cluster have the same name: the check of
\* IsRemoteObjectLocalExist and the insert are one critical section.
THEOREM NamesAreUnique == Spec => []UniqueName
<1>1. IInv => UniqueName
  BY DEF IInv
<1> QED
  BY Inductive, <1>1, PTL
------------------------------------------------------------------------------
(* Whose identity a row has *)

\* The UID and the version of o are those of an object named n, in log L.
GoodObj(L, o, n) ==
  /\ o.uid # 0 => o.uid \in 1..Len(L) /\ L[o.uid].type = "add" /\ L[o.uid].name = n
  /\ o.rv # 0 => o.rv \in 1..Len(L) /\ L[o.rv].type # "delete" /\ L[o.rv].name = n

\* A change carries the UID of an object that had the name.
LogGood(L) ==
  \A k \in 1..Len(L) : L[k].uid # 0 =>
    L[k].uid \in 1..Len(L) /\ L[L[k].uid].type = "add" /\ L[L[k].uid].name = L[k].name

RowsGood(R, L) == \A r \in RowIds : R[r] # NoRow => GoodObj(L, R[r], R[r].name)

\* The handler writes no object that was deleted, and only to a row that has,
\* while it lives, the name of the event.
EvGood ==
  /\ ev.pc \in {"create", "update"} => NextEvent.type # "delete"
  /\ ev.pc = "update" =>
       \A r \in RowIds : ev.row = r /\ IsLive(r) => rows[r].name = NextEvent.name

\* The rows a pass is going to update have the names it saw, and those names
\* are the ones of the objects its copies carry the UIDs of.
SyncGood(s, R, L) ==
  /\ \A r \in s.common :
       /\ R[r] # NoRow => R[r].name = s.copy[r].name
       /\ s.copy[r].uid \in 1..Len(L) /\ L[s.copy[r].uid].name = s.copy[r].name
  /\ s.pc \notin {"apply", "insert"} => s.added = {} /\ s.common = {}

\* The objects a pass is going to add are among those it listed.
AddGood == \A w \in Workers : \A n \in sync[w].added : ObjAt(n, sync[w].pos).uid # 0

\* A task works on a copy with its row's name and an object of that name.
TaskGood(t, row, L) ==
  /\ t.kind = "none" => t.step = "none"
  /\ t.step \in {"none", "post"} => t.obj = NoObj
  /\ t.step \notin {"none", "post"} =>
       /\ row # NoRow => row.name = t.copy.name
       /\ GoodObj(L, t.obj, t.copy.name)

GInv ==
  /\ LogGood(log) /\ RowsGood(rows, log) /\ EvGood
  /\ \A w \in Workers : SyncGood(sync[w], rows, log)
  /\ AddGood
  /\ \A r \in RowIds : TaskGood(task[r], rows[r], log)

\* The log only grows.
Grows == Len(log) <= Len(log') /\ \A k \in 1..Len(log) : log'[k] = log[k]

\* A row that is live afterwards had its name before, or nobody knows it.
Tracks ==
  \A r \in RowIds : rows'[r] # NoRow =>
    \/ rows[r] # NoRow /\ rows'[r].name = rows[r].name
    \/ FreeRow(r)

LEMMA GoodGrows ==
  ASSUME TypeOK, Len(log') \in Nat, Grows, NEW o, NEW n, GoodObj(log, o, n)
  PROVE  GoodObj(log', o, n)
<1>1. Len(log) \in Nat /\ \A k \in 1..Len(log) : k \in 1..Len(log')
  BY DEF TypeOK, Grows
<1> QED
  BY <1>1 DEF GoodObj, Grows

LEMMA NoObjGood == ASSUME NEW L, NEW n PROVE GoodObj(L, NoObj, n)
  BY DEF GoodObj, NoObj

\* What the cluster or the informer's cache holds under a name is an object of
\* that name.
LEMMA ObjAtGood ==
  ASSUME log \in Seq(LogEntry), LogGood(log), NEW n, NEW k \in 0..Len(log)
  PROVE  GoodObj(log, ObjAt(n, k), n)
<1> DEFINE mine == {m \in 1..k : log[m].name = n}
           last == CHOOSE m \in mine : \A x \in mine : x <= m
<1>1. CASE mine = {}
  BY <1>1, NoObjGood DEF ObjAt
<1>2. CASE mine # {}
  <2>1. k \in Nat /\ mine \in SUBSET (1..k)
    OBVIOUS
  <2>2. \E m \in mine : \A x \in mine : x <= m
    BY <1>2, <2>1, LastExists
  <2>3. last \in mine
    BY <2>2
  <2> HIDE DEF last
  <2>4. last \in 1..Len(log) /\ log[last].name = n
    BY <2>3
  <2>5. ObjAt(n, k) = IF log[last].type = "delete" THEN NoObj
                      ELSE [uid |-> log[last].uid, rv |-> last]
    BY <1>2 DEF ObjAt, last
  <2>6. CASE log[last].type = "delete"
    BY <2>5, <2>6, NoObjGood
  <2>7. CASE log[last].type # "delete"
    BY <2>4, <2>5, <2>7 DEF GoodObj, LogGood
  <2> QED
    BY <2>6, <2>7
<1> QED
  BY <1>1, <1>2

\* What a prefix of the log holds under a name does not change.
LEMMA ObjAtGrows ==
  ASSUME log \in Seq(LogEntry), Grows, NEW n, NEW k \in 0..Len(log)
  PROVE  ObjAt(n, k)' = ObjAt(n, k)
<1> DEFINE mine == {m \in 1..k : log[m].name = n}
           last == CHOOSE m \in mine : \A x \in mine : x <= m
<1>1. \A m \in 1..k : m \in 1..Len(log) /\ log'[m] = log[m]
  BY DEF Grows
<1>2. {m \in 1..k : log'[m].name = n} = mine
  BY <1>1
<1>3. CASE mine = {}
  BY <1>2, <1>3 DEF ObjAt
<1>4. CASE mine # {}
  <2>1. k \in Nat /\ mine \in SUBSET (1..k)
    OBVIOUS
  <2>2. \E m \in mine : \A x \in mine : x <= m
    BY <1>4, <2>1, LastExists
  <2>3. last \in mine
    BY <2>2
  <2>4. log'[last] = log[last]
    BY <1>1, <2>3
  <2>5. ObjAt(n, k)' = IF log'[last].type = "delete" THEN NoObj
                       ELSE [uid |-> log'[last].uid, rv |-> last]
    BY <1>2, <1>4 DEF ObjAt, NoObj
  <2>6. ObjAt(n, k) = IF log[last].type = "delete" THEN NoObj
                      ELSE [uid |-> log[last].uid, rv |-> last]
    BY <1>4 DEF ObjAt
  <2> HIDE DEF last
  <2> QED
    BY <2>4, <2>5, <2>6
<1> QED
  BY <1>3, <1>4

\* A change that the API server accepts.
LEMMA ChangeGood ==
  ASSUME TypeOK, GInv, NEW type \in {"add", "update", "delete"}, NEW n \in Names, Change(type, n)
  PROVE  /\ Grows /\ LogGood(log') /\ Len(log') \in Nat /\ Len(log) + 1 \in 1..Len(log')
         /\ log'[Len(log) + 1].type = type /\ log'[Len(log) + 1].name = n
<1> DEFINE e == [type |-> type, name |-> n,
                 uid |-> IF type = "add" THEN Len(log) + 1 ELSE Remote(n).uid]
           N == Len(log) + 1
<1>1. log \in Seq(LogEntry) /\ Len(log) \in Nat /\ LogGood(log)
  BY DEF TypeOK, GInv
<1>2. GoodObj(log, Remote(n), n)
  BY <1>1, ObjAtGood DEF Remote
<1>3. log' = Append(log, e) /\ e.type = type /\ e.name = n
  BY DEF Change
<1>4. e.uid # 0 => \/ e.uid = N /\ type = "add"
                   \/ e.uid \in 1..Len(log) /\ log[e.uid].type = "add" /\ log[e.uid].name = n
  BY <1>2 DEF GoodObj
<1> HIDE DEF e
<1>5. /\ Len(log') = N /\ N \in Nat /\ log'[N] = e /\ N \in 1..N
      /\ \A k \in 1..Len(log) : log'[k] = log[k] /\ k \in 1..N
  BY <1>1, <1>3
<1>6. \A k \in 1..N : k = N \/ k \in 1..Len(log)
  BY <1>1
<1>7. LogGood(log')
  <2> SUFFICES ASSUME NEW k \in 1..N, log'[k].uid # 0
               PROVE  /\ log'[k].uid \in 1..N /\ log'[log'[k].uid].type = "add"
                      /\ log'[log'[k].uid].name = log'[k].name
    BY <1>5 DEF LogGood
  <2>1. CASE k = N
    BY <1>3, <1>4, <1>5, <2>1
  <2>2. CASE k \in 1..Len(log)
    BY <1>1, <1>5, <2>2 DEF LogGood
  <2> QED
    BY <1>6, <2>1, <2>2
<1>8. Grows
  BY <1>1, <1>5 DEF Grows
<1> QED
  BY <1>3, <1>5, <1>7, <1>8

------------------------------------------------------------------------------
(* Writes to the rows *)

LEMMA RowsSameGood ==
  ASSUME rows' = rows, RowsGood(rows, log)
  PROVE  Tracks /\ RowsGood(rows', log)
  BY DEF Tracks

LEMMA UpdateGood ==
  ASSUME TypeOK, RowsGood(rows, log), NEW r, NEW copy, NEW o,
         r \in RowIds /\ IsLive(r) => GoodObj(log, o, rows[r].name),
         UpdateFromRemoteObject(r, copy, o)
  PROVE  Tracks /\ RowsGood(rows', log)
<1>1. CASE rows' = rows
  BY <1>1, RowsSameGood
<1>2. CASE r \in RowIds /\ IsLive(r) /\ rows' = [rows EXCEPT ![r] = Merge(@, copy, o)]
  <2> DEFINE m == Merge(rows[r], copy, o)
  <2>1. rows[r] \in Row /\ rows \in [RowIds -> Row]
    BY <1>2 DEF TypeOK
  <2>2. /\ m.name = rows[r].name /\ m.uid \in {rows[r].uid, o.uid} /\ m.rv \in {rows[r].rv, o.rv}
    BY <2>1 DEF Merge, Row
  <2> HIDE DEF m
  <2>3. GoodObj(log, rows[r], rows[r].name) /\ GoodObj(log, o, rows[r].name)
    BY <1>2 DEF RowsGood, IsLive
  <2>4. GoodObj(log, m, m.name)
    BY <2>2, <2>3 DEF GoodObj
  <2>5. \A x \in RowIds : rows'[x] = IF x = r THEN m ELSE rows[x]
    BY <1>2, <2>1 DEF m
  <2> QED
    BY <1>2, <2>2, <2>4, <2>5 DEF Tracks, RowsGood, IsLive
<1>3. rows' = rows \/ (r \in RowIds /\ IsLive(r)
                         /\ rows' = [rows EXCEPT ![r] = Merge(@, copy, o)])
  BY DEF UpdateFromRemoteObject, TypeOK
<1> QED
  BY <1>1, <1>2, <1>3

LEMMA DropGood ==
  ASSUME TypeOK, RowsGood(rows, log), NEW r, rows' = [rows EXCEPT ![r] = NoRow]
  PROVE  Tracks /\ RowsGood(rows', log)
<1>1. \A x \in RowIds : rows'[x] = IF x = r THEN NoRow ELSE rows[x]
  BY DEF TypeOK
<1> QED
  BY <1>1 DEF Tracks, RowsGood

LEMMA RemoveGood ==
  ASSUME TypeOK, RowsGood(rows, log), NEW r, NEW copy, SyncRemovedClusterResource(r, copy)
  PROVE  Tracks /\ RowsGood(rows', log)
  BY RowsSameGood, DropGood DEF SyncRemovedClusterResource

LEMMA StatusGood ==
  ASSUME TypeOK, RowsGood(rows, log), NEW r \in RowIds, NEW s, rows' = SetStatus(r, s)
  PROVE  /\ Tracks /\ RowsGood(rows', log)
         /\ IsLive(r) => rows'[r].name = rows[r].name
<1>1. CASE IsLive(r)
  <2> DEFINE m == [rows[r] EXCEPT !.status = s]
  <2>1. rows[r] \in Row /\ rows \in [RowIds -> Row] /\ rows' = [rows EXCEPT ![r] = m]
    BY <1>1 DEF SetStatus, TypeOK
  <2>2. m.name = rows[r].name /\ m.uid = rows[r].uid /\ m.rv = rows[r].rv
    BY <2>1 DEF Row
  <2> HIDE DEF m
  <2>3. \A x \in RowIds : rows'[x] = IF x = r THEN m ELSE rows[x]
    BY <2>1
  <2>4. GoodObj(log, m, m.name)
    BY <1>1, <2>2 DEF GoodObj, RowsGood, IsLive
  <2> QED
    BY <1>1, <2>2, <2>3, <2>4 DEF Tracks, RowsGood, IsLive
<1>2. CASE ~IsLive(r)
  BY <1>2, RowsSameGood DEF SetStatus
<1> QED
  BY <1>1, <1>2

LEMMA InsertGood ==
  ASSUME TypeOK, RowsGood(rows, log), NEW x \in RowIds, FreeRow(x), NEW row,
         GoodObj(log, row, row.name), rows' = [rows EXCEPT ![x] = row]
  PROVE  Tracks /\ RowsGood(rows', log)
<1>1. \A r \in RowIds : rows'[r] = IF r = x THEN row ELSE rows[r]
  BY DEF TypeOK
<1> QED
  BY <1>1 DEF Tracks, RowsGood

LEMMA NewGood ==
  ASSUME TypeOK, RowsGood(rows, log), NEW n \in Names, NEW o \in Obj, GoodObj(log, o, n),
         NEW r \in RowIds, NewFromRemoteObject(r, n, o)
  PROVE  Tracks /\ RowsGood(rows', log) /\ rows'[r] = NewRow(n, o)
<1> DEFINE row == NewRow(n, o)
<1>1. row.name = n /\ row.uid = o.uid /\ row.rv = 0
  BY DEF NewRow
<1>2. FreeRow(r) /\ rows' = [rows EXCEPT ![r] = row] /\ rows'[r] = row
  BY DEF NewFromRemoteObject, TypeOK
<1> HIDE DEF row
<1>3. GoodObj(log, row, row.name)
  BY <1>1 DEF GoodObj
<1>4. Tracks /\ RowsGood(rows', log)
  BY <1>2, <1>3, InsertGood
<1> QED
  BY <1>2, <1>4 DEF row

------------------------------------------------------------------------------
(* Steps *)

\* An actor that does not move keeps what it knows.
LEMMA SyncStays ==
  ASSUME TypeOK, GInv, Tracks, Len(log') \in Nat, Grows, NEW w \in Workers, NEW s,
         s.common \subseteq sync[w].common, s.common \subseteq RowIds, s.copy = sync[w].copy,
         s.pc \notin {"apply", "insert"} => s.added = {} /\ s.common = {}
  PROVE  SyncGood(s, rows', log')
<1>1. \A r \in s.common : ~FreeRow(r)
  BY DEF FreeRow
<1>2. SyncGood(sync[w], rows, log)
  BY DEF GInv
<1>3. ASSUME NEW r \in s.common
      PROVE  s.copy[r].uid \in 1..Len(log') /\ log'[s.copy[r].uid].name = s.copy[r].name
  <2>1. s.copy[r].uid \in 1..Len(log) /\ log[s.copy[r].uid].name = s.copy[r].name
    BY <1>2 DEF SyncGood
  <2>2. Len(log) \in Nat
    BY DEF TypeOK
  <2> QED
    BY <2>1, <2>2 DEF Grows
<1>4. ASSUME NEW r \in s.common, rows'[r] # NoRow PROVE rows'[r].name = s.copy[r].name
  BY <1>1, <1>2, <1>4 DEF SyncGood, Tracks
<1> QED
  BY <1>3, <1>4 DEF SyncGood

LEMMA TaskStays ==
  ASSUME TypeOK, GInv, Tracks, Len(log') \in Nat, Grows, NEW r \in RowIds
  PROVE  TaskGood(task[r], rows'[r], log')
<1>1. TaskGood(task[r], rows[r], log)
  BY DEF GInv
<1>2. FreeRow(r) => task[r].step = "none"
  BY <1>1 DEF FreeRow, TaskGood
<1>3. GoodObj(log, task[r].obj, task[r].copy.name) => GoodObj(log', task[r].obj, task[r].copy.name)
  BY GoodGrows
<1> QED
  BY <1>1, <1>2, <1>3 DEF TaskGood, Tracks

LEMMA EvStays ==
  ASSUME IInv, GInv, Tracks, Grows, ev' = ev, handled' = handled
  PROVE  EvGood'
<1>1. CASE ev.pc = "idle"
  BY <1>1 DEF EvGood
<1>2. CASE ev.pc # "idle"
  <2>1. handled + 1 \in 1..Len(log)
    BY <1>2 DEF IInv, EvOK, TypeOK
  <2>2. NextEvent' = NextEvent
    BY <2>1 DEF NextEvent, Grows
  <2>3. \A r \in RowIds : ev.row = r => ~FreeRow(r)
    BY DEF FreeRow
  <2> QED
    BY <2>2, <2>3 DEF EvGood, GInv, Tracks, IsLive
<1> QED
  BY <1>1, <1>2

LEMMA LogSame ==
  ASSUME TypeOK, log' = log PROVE Grows /\ Len(log') \in Nat
  BY DEF TypeOK, Grows

LEMMA AddStays ==
  ASSUME TypeOK, Grows, NEW w \in Workers, NEW n, ObjAt(n, sync[w].pos).uid # 0,
         sync'[w].pos = sync[w].pos
  PROVE  (ObjAt(n, sync[w].pos).uid)' # 0
<1>1. PICK k \in 0..Len(log) : k = sync[w].pos
  <2>1. sync[w] \in SyncState /\ sync[w].pos <= Len(log) /\ Len(log) \in Nat
    BY DEF TypeOK
  <2> QED
    BY <2>1 DEF SyncState
<1>2. ObjAt(n, k)' = ObjAt(n, k)
  BY ObjAtGrows DEF TypeOK
<1>3. (ObjAt(n, k).uid)' = ObjAt(n, k).uid
  BY <1>2
<1> QED
  BY <1>1, <1>3

LEMMA SyncSame ==
  ASSUME TypeOK, GInv, Tracks, Len(log') \in Nat, Grows, sync' = sync
  PROVE  (\A w \in Workers : SyncGood(sync'[w], rows', log')) /\ AddGood'
<1>1. ASSUME NEW w \in Workers PROVE SyncGood(sync'[w], rows', log')
  <2>1. sync[w].common \subseteq RowIds
    BY DEF TypeOK, SyncState
  <2>2. sync[w].pc \notin {"apply", "insert"} => sync[w].added = {} /\ sync[w].common = {}
    BY DEF GInv, SyncGood
  <2> QED
    BY <2>1, <2>2, SyncStays
<1>2. AddGood'
  BY AddStays DEF AddGood, GInv
<1> QED
  BY <1>1, <1>2

LEMMA TasksSame ==
  ASSUME TypeOK, GInv, Tracks, Len(log') \in Nat, Grows, task' = task
  PROVE  \A r \in RowIds : TaskGood(task'[r], rows'[r], log')
  BY TaskStays

\* One task moves.
LEMMA TaskMoves ==
  ASSUME TypeOK, GInv, Tracks, Len(log') \in Nat, Grows, NEW x \in RowIds, NEW t,
         task' = [task EXCEPT ![x] = t], TaskGood(t, rows'[x], log')
  PROVE  \A r \in RowIds : TaskGood(task'[r], rows'[r], log')
<1>1. \A r \in RowIds : task'[r] = IF r = x THEN t ELSE task[r]
  BY DEF TypeOK
<1> QED
  BY <1>1, TaskStays

LEMMA RowsGrow ==
  ASSUME TypeOK, Len(log') \in Nat, Grows, RowsGood(rows', log)
  PROVE  RowsGood(rows', log')
  BY GoodGrows DEF RowsGood

LEMMA Assemble ==
  ASSUME LogGood(log'), RowsGood(rows', log'), EvGood',
         \A w \in Workers : SyncGood(sync'[w], rows', log'), AddGood',
         \A r \in RowIds : TaskGood(task'[r], rows'[r], log')
  PROVE  GInv'
  BY DEF GInv

LEMMA ClusterGood ==
  ASSUME IInv, GInv, (\E n \in Names : KubeChange(n)) \/ InformerDeliver
  PROVE  GInv'
<1>0. TypeOK /\ LogGood(log) /\ RowsGood(rows, log)
  BY DEF IInv, GInv
<1>1. UNCHANGED <<handled, ev, rows, task, sync>>
  BY DEF KubeChange, InformerDeliver
<1>2. Tracks /\ RowsGood(rows', log)
  BY <1>0, <1>1, RowsSameGood
<1>3. Grows /\ Len(log') \in Nat /\ LogGood(log')
  <2>1. CASE InformerDeliver
    BY <1>0, <2>1, LogSame DEF InformerDeliver
  <2>2. ASSUME NEW n \in Names, KubeChange(n) PROVE Grows /\ Len(log') \in Nat /\ LogGood(log')
    <3>1. \E type \in {"add", "update", "delete"} : Change(type, n)
      BY <2>2 DEF KubeChange
    <3> QED
      BY <1>0, <3>1, ChangeGood
  <2> QED
    BY <2>1, <2>2
<1> QED
  BY <1>0, <1>1, <1>2, <1>3, RowsGrow, EvStays, SyncSame, TasksSame, Assemble

LEMMA EventGood == ASSUME IInv, GInv, Event PROVE GInv'
<1>0. TypeOK /\ LogGood(log) /\ RowsGood(rows, log)
  BY DEF IInv, GInv
<1>1. UNCHANGED <<log, task, sync>>
  BY DEF Event, EventDrop, EventStart, EventLookup, EventInsert, EventApply
<1>2. Grows /\ Len(log') \in Nat
  BY <1>0, <1>1, LogSame
<1>3. ASSUME Tracks, RowsGood(rows', log), EvGood' PROVE GInv'
  BY <1>0, <1>1, <1>2, <1>3, SyncSame, TasksSame, Assemble
<1>4. ev' = EvIdle => EvGood'
  BY DEF EvGood, EvIdle
<1>5. CASE EventDrop
  BY <1>0, <1>3, <1>4, <1>5, RowsSameGood DEF EventDrop
<1>6. CASE EventStart
  <2>1. ev'.pc = "start" /\ rows' = rows
    BY <1>6 DEF EventStart, EvIdle
  <2>2. EvGood'
    BY <2>1 DEF EvGood
  <2> QED
    BY <1>0, <1>3, <2>1, <2>2, RowsSameGood
<1>7. CASE EventLookup
  <2>1. rows' = rows
    BY <1>7 DEF EventLookup
  <2>2. CASE RowsNamed(NextEvent.name) = {} /\ NextEvent.type # "delete" /\ handled' = handled
             /\ ev' = [EvIdle EXCEPT !.pc = "create"]
    <3>1. ev'.pc = "create" /\ NextEvent' = NextEvent
      BY <1>1, <2>2 DEF EvIdle, NextEvent
    <3>2. EvGood'
      BY <2>2, <3>1 DEF EvGood
    <3> QED
      BY <1>0, <1>3, <2>1, <3>2, RowsSameGood
  <2>3. ASSUME NEW r \in RowsNamed(NextEvent.name), handled' = handled,
               ev' = [pc |-> IF NextEvent.type = "delete" THEN "delete" ELSE "update",
                      row |-> r, copy |-> rows[r]]
        PROVE  GInv'
    <3>1. /\ NextEvent' = NextEvent /\ rows[r].name = NextEvent.name /\ ev'.row = r
          /\ ev'.pc = IF NextEvent.type = "delete" THEN "delete" ELSE "update"
      BY <1>1, <2>3 DEF NextEvent, RowsNamed
    <3>2. EvGood'
      BY <2>1, <3>1 DEF EvGood
    <3> QED
      BY <1>0, <1>3, <2>1, <3>2, RowsSameGood
  <2>4. CASE ev' = EvIdle
    BY <1>0, <1>3, <1>4, <2>1, <2>4, RowsSameGood
  <2> QED
    BY <1>7, <2>2, <2>3, <2>4 DEF EventLookup
<1>8. CASE EventInsert
  <2>1. handled + 1 \in 1..Len(log)
    BY <1>8 DEF EventInsert, IInv, EvOK, TypeOK
  <2>2. GoodObj(log, EventObj, NextEvent.name) /\ NextEvent.type # "delete"
    BY <1>0, <1>8, <2>1 DEF EventInsert, GInv, EvGood, GoodObj, LogGood, EventObj, NextEvent
  <2>3. NextEvent.name \in Names /\ EventObj \in Obj
    <3>1. NextEvent \in LogEntry
      BY <1>0, <2>1 DEF NextEvent, TypeOK
    <3> QED
      BY <1>0, <2>1, <3>1 DEF LogEntry, EventObj, Obj
  <2>4. PICK r \in RowIds :
          /\ NewFromRemoteObject(r, NextEvent.name, EventObj)
          /\ ev' = [pc |-> "update", row |-> r, copy |-> NewRow(NextEvent.name, EventObj)]
    BY <1>8 DEF EventInsert
  <2>5. Tracks /\ RowsGood(rows', log) /\ rows'[r] = NewRow(NextEvent.name, EventObj)
    BY <1>0, <2>2, <2>3, <2>4, NewGood
  <2>6. rows'[r].name = NextEvent.name /\ ev'.pc = "update" /\ ev'.row = r /\ NextEvent' = NextEvent
    BY <1>1, <1>8, <2>4, <2>5 DEF NewRow, EventInsert, NextEvent
  <2>7. EvGood'
    BY <2>2, <2>6 DEF EvGood
  <2> QED
    BY <1>3, <2>5, <2>7
<1>9. CASE EventApply
  <2>1. handled + 1 \in 1..Len(log)
    BY <1>9 DEF EventApply, IInv, EvOK, TypeOK
  <2>2. ev.pc \in {"create", "update"} => GoodObj(log, EventObj, NextEvent.name)
    BY <1>0, <2>1 DEF GInv, EvGood, GoodObj, LogGood, EventObj, NextEvent
  <2>4. CASE ev.pc = "update" /\ UpdateFromRemoteObject(ev.row, ev.copy, EventObj)
    <3>1. ev.row \in RowIds /\ IsLive(ev.row) => GoodObj(log, EventObj, rows[ev.row].name)
      BY <2>2, <2>4 DEF GInv, EvGood
    <3> QED
      BY <1>0, <1>3, <1>4, <1>9, <2>4, <3>1, UpdateGood DEF EventApply
  <2>5. CASE ev.pc = "delete" /\ SyncRemovedClusterResource(ev.row, ev.copy)
    BY <1>0, <1>3, <1>4, <1>9, <2>5, RemoveGood DEF EventApply
  <2> QED
    BY <1>9, <2>4, <2>5 DEF EventApply
<1> QED
  BY <1>5, <1>6, <1>7, <1>8, <1>9 DEF Event

LEMMA SyncStepGood ==
  ASSUME IInv, GInv, NEW w \in Workers, SyncSubmit(w) \/ SyncStep(w)
  PROVE  GInv'
<1>0. /\ TypeOK /\ LogGood(log) /\ RowsGood(rows, log)
      /\ sync[w] \in SyncState /\ sync[w].common \subseteq RowIds /\ sync[w].pos \in 0..Len(log)
  <2>1. sync[w] \in SyncState /\ sync[w].pos <= Len(log) /\ Len(log) \in Nat
    BY DEF IInv, TypeOK
  <2> QED
    BY <2>1 DEF IInv, GInv, SyncState
<1>1. UNCHANGED <<log, handled, ev, task>>
  BY DEF SyncSubmit, SyncStep, SyncList, SyncQuery, SyncFinish, SyncRemove, SyncUpdate, SyncAdd
<1>2. Grows /\ Len(log') \in Nat
  BY <1>0, <1>1, LogSame
<1>a. sync[w].pc \notin {"apply", "insert"} => sync[w].added = {} /\ sync[w].common = {}
  BY DEF GInv, SyncGood
<1>3. ASSUME NEW s, sync' = [sync EXCEPT ![w] = s], SyncGood(s, rows', log'), Tracks,
             RowsGood(rows', log), \A n \in s.added : ObjAt(n, s.pos).uid # 0,
             s.added # {} => s.pos = sync[w].pos
      PROVE  GInv'
  <2>0. \A v \in Workers : sync'[v] = IF v = w THEN s ELSE sync[v]
    BY <1>0, <1>3 DEF TypeOK
  <2>1. ASSUME NEW v \in Workers PROVE SyncGood(sync'[v], rows', log')
    <3>1. CASE v = w
      BY <1>3, <2>0, <3>1
    <3>2. CASE v # w
      <4>1. sync[v].common \subseteq RowIds
        BY <1>0 DEF TypeOK, SyncState
      <4>2. sync[v].pc \notin {"apply", "insert"} => sync[v].added = {} /\ sync[v].common = {}
        BY DEF GInv, SyncGood
      <4>3. SyncGood(sync[v], rows', log')
        BY <1>0, <1>2, <1>3, <4>1, <4>2, SyncStays
      <4> QED
        BY <2>0, <3>2, <4>3
    <3> QED
      BY <3>1, <3>2
  <2>2. ASSUME NEW v \in Workers, NEW n \in sync'[v].added PROVE (ObjAt(n, sync[v].pos).uid)' # 0
    <3>1. sync'[v].pos = sync[v].pos /\ ObjAt(n, sync[v].pos).uid # 0
      <4>1. CASE v = w
        BY <1>3, <2>0, <2>2, <4>1
      <4>2. CASE v # w
        BY <2>0, <2>2, <4>2 DEF GInv, AddGood
      <4> QED
        BY <4>1, <4>2
    <3> QED
      BY <1>0, <1>2, <3>1, AddStays
  <2>3. AddGood'
    BY <2>2 DEF AddGood
  <2> QED
    BY <1>0, <1>1, <1>2, <1>3, <2>1, <2>3, EvStays, TasksSame, Assemble
<1>4. ASSUME NEW s, sync' = [sync EXCEPT ![w] = s], Tracks, RowsGood(rows', log),
             s.common \subseteq sync[w].common, s.copy = sync[w].copy,
             s.added \subseteq sync[w].added, s.added # {} => s.pos = sync[w].pos,
             s.pc \notin {"apply", "insert"} => s.added = {} /\ s.common = {}
      PROVE  GInv'
  <2>1. SyncGood(s, rows', log')
    BY <1>0, <1>2, <1>4, SyncStays
  <2>2. \A n \in s.added : ObjAt(n, s.pos).uid # 0
    BY <1>4 DEF GInv, AddGood
  <2> QED
    BY <1>3, <1>4, <2>1, <2>2
<1>5. CASE SyncSubmit(w) \/ SyncList(w)
  <2>1. Tracks /\ RowsGood(rows', log)
    BY <1>0, <1>5, RowsSameGood DEF SyncSubmit, SyncList
  <2>2. CASE SyncSubmit(w)
    <3> DEFINE s == [sync[w] EXCEPT !.pc = "queued"]
    <3>1. /\ s.common = sync[w].common /\ s.copy = sync[w].copy
          /\ s.added = {} /\ sync[w].added = {} /\ s.common = {}
      BY <1>0, <1>a, <2>2 DEF SyncState, SyncSubmit
    <3>2. sync' = [sync EXCEPT ![w] = s]
      BY <2>2 DEF SyncSubmit
    <3> HIDE DEF s
    <3> QED
      BY <1>4, <2>1, <3>1, <3>2
  <2>3. CASE SyncList(w)
    <3> DEFINE s == [sync[w] EXCEPT !.pc = "listed", !.pos = seen]
    <3>1. /\ s.common = sync[w].common /\ s.copy = sync[w].copy
          /\ s.added = {} /\ sync[w].added = {} /\ s.common = {}
      BY <1>0, <1>a, <2>3 DEF SyncState, SyncList
    <3>2. sync' = [sync EXCEPT ![w] = s]
      BY <2>3 DEF SyncList
    <3> HIDE DEF s
    <3> QED
      BY <1>4, <2>1, <3>1, <3>2
  <2> QED
    BY <1>5, <2>2, <2>3
<1>6. CASE SyncQuery(w) \/ SyncFinish(w)
  <2>1. Tracks /\ RowsGood(rows', log) /\ rows' = rows
    BY <1>0, <1>6, RowsSameGood DEF SyncQuery, SyncFinish
  <2>2. CASE sync' = [sync EXCEPT ![w] = SyncIdle]
    <3>1. SyncGood(SyncIdle, rows', log') /\ SyncIdle.added = {}
      BY DEF SyncGood, SyncIdle
    <3> QED
      BY <1>3, <2>1, <2>2, <3>1
  <2> DEFINE com == {r \in RowIds : IsLive(r) /\ rows[r].uid \in ListedUids(sync[w].pos)}
             add == {n \in Names : Exists(ObjAt(n, sync[w].pos))
                                    /\ ObjAt(n, sync[w].pos).uid \notin RowUids}
  <2>3. CASE \E rem :
               sync' = [sync EXCEPT ![w] =
                 [pc |-> "apply", pos |-> sync[w].pos, copy |-> rows,
                  removed |-> rem, common |-> com, added |-> add, err |-> FALSE]]
    <3>1. PICK rem :
               sync' = [sync EXCEPT ![w] =
                 [pc |-> "apply", pos |-> sync[w].pos, copy |-> rows,
                  removed |-> rem, common |-> com, added |-> add, err |-> FALSE]]
      BY <2>3
    <3> DEFINE s == [pc |-> "apply", pos |-> sync[w].pos, copy |-> rows, removed |-> rem,
                     common |-> com, added |-> add, err |-> FALSE]
    <3>2. /\ s.pc = "apply" /\ s.copy = rows /\ s.common = com /\ s.added = add
          /\ s.pos = sync[w].pos
      OBVIOUS
    <3>3. \A n \in add : ObjAt(n, sync[w].pos).uid # 0
      BY DEF Exists
    <3>4. ASSUME NEW r \in com
          PROVE  rows[r].uid \in 1..Len(log) /\ log[rows[r].uid].name = rows[r].name
      <4>1. rows[r] # NoRow /\ rows[r].uid # 0 /\ r \in RowIds
        BY <3>4 DEF IsLive, ListedUids
      <4> QED
        BY <1>0, <4>1 DEF RowsGood, GoodObj
    <3> HIDE DEF s, com, add
    <3>5. SyncGood(s, rows', log')
      BY <1>1, <2>1, <3>2, <3>4 DEF SyncGood
    <3>6. sync' = [sync EXCEPT ![w] = s]
      BY <3>1 DEF s
    <3> QED
      BY <1>3, <2>1, <3>2, <3>3, <3>5, <3>6
  <2>4. CASE SyncQuery(w)
    <3>1. \/ sync' = [sync EXCEPT ![w] = SyncIdle]
          \/ sync' = [sync EXCEPT ![w] =
               [pc |-> "apply", pos |-> sync[w].pos, copy |-> rows,
                removed |-> {r \in {x \in RowIds : IsLive(x)} :
                               rows[r].uid \notin ListedUids(sync[w].pos)},
                common |-> {r \in {x \in RowIds : IsLive(x)} :
                              rows[r].uid \in ListedUids(sync[w].pos)},
                added |-> add, err |-> FALSE]]
      BY <2>4 DEF SyncQuery
    <3>2. {r \in {x \in RowIds : IsLive(x)} : rows[r].uid \in ListedUids(sync[w].pos)} = com
      OBVIOUS
    <3> HIDE DEF com, add
    <3> QED
      BY <2>2, <2>3, <3>1, <3>2
  <2> QED
    BY <1>6, <2>2, <2>4 DEF SyncFinish
<1>7. ASSUME NEW r \in RowIds, SyncRemove(w, r) PROVE GInv'
  <2>1. Tracks /\ RowsGood(rows', log)
    BY <1>0, <1>7, RemoveGood DEF SyncRemove
  <2> DEFINE s == [sync[w] EXCEPT !.removed = @ \ {r}]
  <2>2. /\ s.common = sync[w].common /\ s.copy = sync[w].copy /\ s.pc = "apply"
        /\ s.added = sync[w].added /\ s.pos = sync[w].pos
    BY <1>0, <1>7 DEF SyncState, SyncRemove
  <2>3. sync' = [sync EXCEPT ![w] = s]
    BY <1>7 DEF SyncRemove
  <2> HIDE DEF s
  <2> QED
    BY <1>4, <2>1, <2>2, <2>3
<1>8. ASSUME NEW r \in RowIds, SyncUpdate(w, r) PROVE GInv'
  <2>0. NameOf(sync[w].copy[r].uid) = sync[w].copy[r].name
    BY <1>8 DEF SyncUpdate, GInv, SyncGood, NameOf
  <2>1. GoodObj(log, PairedObj(w, r), sync[w].copy[r].name)
    BY <1>0, <2>0, ObjAtGood DEF PairedObj, TypeOK
  <2>2. IsLive(r) => rows[r].name = sync[w].copy[r].name
    BY <1>8 DEF SyncUpdate, GInv, SyncGood, IsLive
  <2>3. Tracks /\ RowsGood(rows', log)
    BY <1>0, <1>8, <2>1, <2>2, UpdateGood DEF SyncUpdate
  <2> DEFINE e == sync[w].err \/ ~Accepts(sync[w].copy[r], PairedObj(w, r))
             s == [sync[w] EXCEPT !.pc = "apply", !.common = @ \ {r}, !.err = e]
  <2>4. /\ s.common = sync[w].common \ {r} /\ s.copy = sync[w].copy /\ s.pc = "apply"
        /\ s.added = sync[w].added /\ s.pos = sync[w].pos
    BY <1>0 DEF SyncState
  <2>5. sync' = [sync EXCEPT ![w] = s]
    BY <1>8 DEF SyncUpdate
  <2> HIDE DEF s, e
  <2> QED
    BY <1>4, <2>3, <2>4, <2>5
<1>9. ASSUME NEW n \in Names, SyncAdd(w, n) PROVE GInv'
  <2>1. GoodObj(log, ObjAt(n, sync[w].pos), n)
    BY <1>0, ObjAtGood DEF TypeOK
  <2> DEFINE o == ObjAt(n, sync[w].pos)
  <2>2. o \in Obj
    BY <1>0, ObjAtType DEF TypeOK
  <2>3. CASE rows' = rows /\ sync' = [sync EXCEPT ![w].added = @ \ {n}, ![w].err = TRUE]
    <3> DEFINE s == [sync[w] EXCEPT !.added = @ \ {n}, !.err = TRUE]
    <3>1. /\ s.common = sync[w].common /\ s.copy = sync[w].copy /\ s.pc = "apply"
          /\ s.added = sync[w].added \ {n} /\ s.pos = sync[w].pos
      BY <1>0, <1>9 DEF SyncState, SyncAdd
    <3>2. sync' = [sync EXCEPT ![w] = s]
      BY <2>3
    <3>3. Tracks /\ RowsGood(rows', log)
      BY <1>0, <2>3, RowsSameGood
    <3> HIDE DEF s
    <3> QED
      BY <1>4, <3>1, <3>2, <3>3
  <2>4. ASSUME NEW r \in RowIds, NewFromRemoteObject(r, n, o),
               sync' = [sync EXCEPT ![w].pc = "insert", ![w].added = @ \ {n},
                          ![w].common = {r}, ![w].copy = [@ EXCEPT ![r] = NewRow(n, o)]]
        PROVE  GInv'
    <3>1. Tracks /\ RowsGood(rows', log) /\ rows'[r] = NewRow(n, o)
      BY <1>0, <2>1, <2>2, <2>4, NewGood
    <3> DEFINE c == [sync[w].copy EXCEPT ![r] = NewRow(n, o)]
               s == [sync[w] EXCEPT !.pc = "insert", !.added = @ \ {n},
                                    !.common = {r}, !.copy = c]
    <3>2. /\ s.pc = "insert" /\ s.added = sync[w].added \ {n} /\ s.common = {r}
          /\ s.copy = c /\ s.pos = sync[w].pos
      BY <1>0 DEF SyncState
    <3>3. sync' = [sync EXCEPT ![w] = s]
      BY <2>4
    <3>4. c[r] = NewRow(n, o)
      BY <1>0 DEF SyncState
    <3>5. NewRow(n, o).name = n /\ NewRow(n, o).uid = o.uid
      BY DEF NewRow
    <3>6. o.uid # 0
      BY <1>9 DEF SyncAdd, GInv, AddGood
    <3>7. o.uid \in 1..Len(log) /\ log[o.uid].name = n
      BY <2>1, <3>6 DEF GoodObj
    <3> HIDE DEF s, c, o
    <3>8. SyncGood(s, rows', log')
      BY <1>1, <3>1, <3>2, <3>4, <3>5, <3>7 DEF SyncGood
    <3>9. \A x \in s.added : ObjAt(x, s.pos).uid # 0
      BY <3>2 DEF GInv, AddGood
    <3> QED
      BY <1>3, <3>1, <3>2, <3>3, <3>8, <3>9
  <2> QED
    BY <1>9, <2>3, <2>4 DEF SyncAdd
<1> QED
  BY <1>5, <1>6, <1>7, <1>8, <1>9 DEF SyncStep

\* The steps of a task that leave the cluster alone.
LEMMA LocalTaskGood ==
  ASSUME IInv, GInv, NEW r \in RowIds,
         \/ CreateStart(r) \/ CreateApply(r) \/ CreateSync(r)
         \/ SyncGet(r) \/ SyncApply(r) \/ UpdateGet(r) \/ UpdateApply(r)
         \/ DeletePurge(r)
  PROVE  GInv'
<1>0. /\ TypeOK /\ LogGood(log) /\ RowsGood(rows, log) /\ TaskGood(task[r], rows[r], log)
      /\ task[r] \in TaskState
  BY DEF IInv, GInv, TypeOK
<1>1. UNCHANGED <<log, handled, ev, sync>>
  BY DEF CreateStart, CreateApply, CreateSync, SyncGet, SyncApply, UpdateGet, UpdateApply, DeletePurge
<1>2. Grows /\ Len(log') \in Nat
  BY <1>0, <1>1, LogSame
<1>3. ASSUME NEW t, task' = [task EXCEPT ![r] = t], TaskGood(t, rows'[r], log),
             Tracks, RowsGood(rows', log)
      PROVE  GInv'
  BY <1>0, <1>1, <1>2, <1>3, TaskMoves, SyncSame, EvStays, Assemble
<1>4. TaskGood(NoTask, rows'[r], log)
  BY DEF TaskGood, NoTask
<1>5. ASSUME EndTask(r), Tracks, RowsGood(rows', log) PROVE GInv'
  BY <1>3, <1>4, <1>5 DEF EndTask
<1>6. task[r].step \notin {"none", "post"} =>
        /\ GoodObj(log, task[r].obj, task[r].copy.name)
        /\ IsLive(r) => GoodObj(log, task[r].obj, rows[r].name)
  BY <1>0 DEF TaskGood, IsLive
<1>7. GoodObj(log, Cached(task[r].copy.name), task[r].copy.name)
  BY <1>0, ObjAtGood DEF Cached, TypeOK
<1>8. ASSUME NEW s, FailTask(r, s) PROVE GInv'
  BY <1>0, <1>5, <1>8, StatusGood DEF FailTask
<1>9. ASSUME NEW s, NEW step \in {"remote", "syncget"}, rows' = SetStatus(r, s), IsLive(r),
             task[r].kind = "create", task[r].step \in {"post", "sync"},
             task' = [task EXCEPT ![r] = [task[r] EXCEPT !.step = step, !.copy = rows'[r]]]
      PROVE  GInv'
  <2> DEFINE t == [task[r] EXCEPT !.step = step, !.copy = rows'[r]]
  <2>1. t.kind = "create" /\ t.step = step /\ t.copy = rows'[r] /\ t.obj = task[r].obj
    BY <1>0, <1>9 DEF TaskState
  <2>2. Tracks /\ RowsGood(rows', log) /\ rows'[r].name = rows[r].name
    BY <1>0, <1>9, StatusGood
  <2>3. GoodObj(log, task[r].obj, rows[r].name)
    <3>1. CASE task[r].step = "post"
      BY <1>0, <3>1, NoObjGood DEF TaskGood
    <3>2. CASE task[r].step = "sync"
      BY <1>6, <1>9, <3>2
    <3> QED
      BY <1>9, <3>1, <3>2
  <2> HIDE DEF t
  <2>4. TaskGood(t, rows'[r], log)
    BY <2>1, <2>2, <2>3 DEF TaskGood
  <2> QED
    BY <1>3, <1>9, <2>2, <2>4 DEF t
<1>10. ASSUME NEW step \in {"syncapply", "put"}, rows' = rows, task[r].step \notin {"none", "post"},
              task' = [task EXCEPT ![r] = [task[r] EXCEPT !.step = step, !.obj = Cached(task[r].copy.name)]]
       PROVE  GInv'
  <2> DEFINE t == [task[r] EXCEPT !.step = step, !.obj = Cached(task[r].copy.name)]
  <2>1. /\ t.kind = task[r].kind /\ t.step = step /\ t.copy = task[r].copy
        /\ t.obj = Cached(task[r].copy.name)
    BY <1>0 DEF TaskState
  <2> HIDE DEF t
  <2>2. TaskGood(t, rows'[r], log)
    BY <1>0, <1>7, <1>10, <2>1 DEF TaskGood
  <2> QED
    BY <1>0, <1>3, <1>10, <2>2, RowsSameGood DEF t
<1>11. ASSUME task[r].step \notin {"none", "post"}, UpdateFromRemoteObject(r, task[r].copy, task[r].obj)
       PROVE  Tracks /\ RowsGood(rows', log)
  BY <1>0, <1>6, <1>11, UpdateGood
<1>12. CASE CreateStart(r) \/ CreateSync(r)
  <2>1. CASE IsLive(r)
    BY <1>9, <1>12, <2>1 DEF CreateStart, CreateSync
  <2>2. CASE ~IsLive(r)
    BY <1>0, <1>5, <1>12, <2>2, StatusGood DEF CreateStart, CreateSync
  <2> QED
    BY <2>1, <2>2
<1>13. CASE CreateApply(r)
  <2> DEFINE t == [task[r] EXCEPT !.step = "sync"]
  <2>1. t.kind = "create" /\ t.step = "sync" /\ t.copy = task[r].copy /\ t.obj = task[r].obj
    BY <1>0, <1>13 DEF TaskState, CreateApply
  <2>2. Tracks /\ RowsGood(rows', log) /\ task' = [task EXCEPT ![r] = t]
    BY <1>11, <1>13 DEF CreateApply
  <2> HIDE DEF t
  <2>3. TaskGood(task[r], rows'[r], log')
    BY <1>0, <1>2, <2>2, TaskStays
  <2>4. TaskGood(t, rows'[r], log)
    BY <1>1, <1>13, <2>1, <2>3 DEF TaskGood, CreateApply
  <2> QED
    BY <1>3, <2>2, <2>4
<1>14. CASE SyncGet(r) \/ UpdateGet(r)
  BY <1>8, <1>10, <1>14 DEF SyncGet, UpdateGet
<1>15. CASE SyncApply(r) \/ UpdateApply(r)
  BY <1>5, <1>8, <1>11, <1>15 DEF SyncApply, UpdateApply
<1>16. CASE DeletePurge(r)
  BY <1>0, <1>5, <1>16, DropGood DEF DeletePurge
<1> QED
  BY <1>12, <1>13, <1>14, <1>15, <1>16

\* The steps of a task that change the cluster.
LEMMA RemoteTaskGood ==
  ASSUME IInv, GInv, NEW r \in RowIds, CreateRemote(r) \/ UpdatePut(r) \/ DeleteRemote(r)
  PROVE  GInv'
<1> DEFINE n == task[r].copy.name
<1>0. /\ TypeOK /\ LogGood(log) /\ RowsGood(rows, log) /\ TaskGood(task[r], rows[r], log)
      /\ task[r] \in TaskState /\ task[r] \in NamedTask
  BY DEF IInv, GInv, TypeOK, TaskNamed
<1>1. /\ UNCHANGED <<handled, ev, sync>> /\ task[r].kind # "none" /\ n \in Names
      /\ task[r].step \notin {"none", "post"}
  BY <1>0 DEF CreateRemote, UpdatePut, DeleteRemote, NamedTask
<1>2. ASSUME NEW s, FailTask(r, s), log' = log PROVE GInv'
  <2>1. Tracks /\ RowsGood(rows', log) /\ Grows /\ Len(log') \in Nat
    BY <1>0, <1>2, StatusGood, LogSame DEF FailTask
  <2>2. TaskGood(NoTask, rows'[r], log')
    BY DEF TaskGood, NoTask
  <2>3. \A x \in RowIds : TaskGood(task'[x], rows'[x], log')
    BY <1>0, <1>2, <2>1, <2>2, TaskMoves DEF FailTask, EndTask
  <2> QED
    BY <1>0, <1>1, <1>2, <2>1, <2>3, SyncSame, EvStays, Assemble
<1>3. ASSUME NEW step \in {"apply", "purge"}, NEW obj \in Obj, rows' = rows,
             Grows, Len(log') \in Nat, LogGood(log'), GoodObj(log', obj, n),
             task' = [task EXCEPT ![r] = [task[r] EXCEPT !.step = step, !.obj = obj]]
      PROVE  GInv'
  <2> DEFINE t == [task[r] EXCEPT !.step = step, !.obj = obj]
  <2>1. t.kind = task[r].kind /\ t.step = step /\ t.copy = task[r].copy /\ t.obj = obj
    BY <1>0 DEF TaskState
  <2> HIDE DEF t
  <2>2. TaskGood(t, rows'[r], log')
    BY <1>0, <1>1, <1>3, <2>1 DEF TaskGood
  <2>3. Tracks /\ RowsGood(rows', log)
    BY <1>0, <1>3, RowsSameGood
  <2>4. \A x \in RowIds : TaskGood(task'[x], rows'[x], log')
    BY <1>0, <1>3, <2>2, <2>3, TaskMoves DEF t
  <2> QED
    BY <1>0, <1>1, <1>3, <2>3, <2>4, RowsGrow, SyncSame, EvStays, Assemble
<1>4. ASSUME NEW type \in {"add", "update", "delete"}, Change(type, n)
      PROVE  /\ Grows /\ LogGood(log') /\ Len(log') \in Nat /\ Len(log) + 1 \in 1..Len(log')
             /\ log'[Len(log) + 1].type = type /\ log'[Len(log) + 1].name = n
  BY <1>0, <1>1, <1>4, ChangeGood
<1>5. task[r].obj \in Obj /\ GoodObj(log, task[r].obj, n)
  BY <1>0, <1>1 DEF TaskState, TaskGood
<1>6. CASE CreateRemote(r)
  <2> DEFINE o == [uid |-> Len(log) + 1, rv |-> Len(log) + 1]
  <2>1. o \in Obj
    BY <1>0 DEF Obj, TypeOK
  <2>2. ASSUME Change("add", n), rows' = rows,
               task' = [task EXCEPT ![r] = [task[r] EXCEPT !.step = "apply", !.obj = o]]
        PROVE  GInv'
    <3>1. GoodObj(log', o, n)
      BY <1>4, <2>2 DEF GoodObj
    <3> HIDE DEF o
    <3> QED
      BY <1>3, <1>4, <2>1, <2>2, <3>1
  <2> QED
    BY <1>2, <1>6, <2>2 DEF CreateRemote
<1>7. CASE UpdatePut(r)
  <2>1. ASSUME Change("update", n), rows' = rows,
               NEW o \in {Cached(n), [task[r].obj EXCEPT !.rv = Len(log) + 1]},
               task' = [task EXCEPT ![r] = [task[r] EXCEPT !.step = "apply", !.obj = o]]
        PROVE  GInv'
    <3>1. Grows /\ LogGood(log') /\ Len(log') \in Nat
      BY <1>4, <2>1
    <3>2. CASE o = Cached(n)
      <4>1. o \in Obj /\ GoodObj(log, o, n)
        BY <1>0, <3>2, ObjTypes, ObjAtGood DEF Cached, TypeOK
      <4>2. GoodObj(log', o, n)
        BY <1>0, <3>1, <4>1, GoodGrows
      <4> QED
        BY <1>3, <2>1, <3>1, <4>1, <4>2
    <3>3. CASE o = [task[r].obj EXCEPT !.rv = Len(log) + 1]
      <4>1. o \in Obj /\ o.uid = task[r].obj.uid /\ o.rv = Len(log) + 1
        BY <1>0, <1>5, <3>3 DEF Obj, TypeOK
      <4>2. GoodObj(log', task[r].obj, n)
        BY <1>0, <1>5, <3>1, GoodGrows
      <4>3. GoodObj(log', o, n)
        BY <1>4, <2>1, <4>1, <4>2 DEF GoodObj
      <4> QED
        BY <1>3, <2>1, <3>1, <4>1, <4>3
    <3> QED
      BY <2>1, <3>2, <3>3
  <2> QED
    BY <1>2, <1>7, <2>1 DEF UpdatePut
<1>8. CASE DeleteRemote(r)
  <2>1. ASSUME Grows, LogGood(log'), Len(log') \in Nat, rows' = rows,
               task' = [task EXCEPT ![r].step = "purge"]
        PROVE  GInv'
    <3>1. [task[r] EXCEPT !.step = "purge"] = [task[r] EXCEPT !.step = "purge", !.obj = task[r].obj]
      BY <1>0 DEF TaskState
    <3>2. task' = [task EXCEPT ![r] = [task[r] EXCEPT !.step = "purge", !.obj = task[r].obj]]
      BY <2>1, <3>1
    <3>3. GoodObj(log', task[r].obj, n)
      BY <1>0, <1>5, <2>1, GoodGrows
    <3> QED
      BY <1>3, <1>5, <2>1, <3>2, <3>3
  <2>2. CASE FailTask(r, "delete_fail") /\ log' = log
    BY <1>2, <2>2
  <2>3. CASE Change("delete", n) \/ Change("update", n) \/ log' = log
    <3>1. Grows /\ LogGood(log') /\ Len(log') \in Nat
      BY <1>0, <1>4, <2>3, LogSame
    <3> QED
      BY <1>2, <1>8, <2>1, <3>1 DEF DeleteRemote
  <2> QED
    BY <1>8, <2>2, <2>3 DEF DeleteRemote
<1> QED
  BY <1>6, <1>7, <1>8

LEMMA UserGood == ASSUME IInv, GInv, User PROVE GInv'
<1>0. TypeOK /\ LogGood(log) /\ RowsGood(rows, log)
  BY DEF IInv, GInv
<1>1. UNCHANGED <<log, handled, ev, sync>>
  BY DEF User, UserCreate, UserUpdate, UserDelete, UserPurge
<1>2. Grows /\ Len(log') \in Nat
  BY <1>0, <1>1, LogSame
<1>3. ASSUME NEW r \in RowIds, NEW t, task' = [task EXCEPT ![r] = t], TaskGood(t, rows'[r], log),
             Tracks, RowsGood(rows', log)
      PROVE  GInv'
  BY <1>0, <1>1, <1>2, <1>3, TaskMoves, SyncSame, EvStays, Assemble
<1>4. ASSUME NEW n \in Names, UserCreate(n) PROVE GInv'
  <2> DEFINE row == [name |-> n, uid |-> 0, rv |-> 0, status |-> "init"]
             t   == [NoTask EXCEPT !.kind = "create", !.step = "post"]
  <2>1. PICK r \in RowIds : FreeRow(r) /\ rows' = [rows EXCEPT ![r] = row] /\ task' = [task EXCEPT ![r] = t]
    BY <1>4 DEF UserCreate
  <2>2. GoodObj(log, row, row.name)
    BY DEF GoodObj
  <2>3. t.kind = "create" /\ t.step = "post" /\ t.obj = NoObj
    BY DEF NoTask
  <2> HIDE DEF row, t
  <2>4. Tracks /\ RowsGood(rows', log)
    BY <1>0, <2>1, <2>2, InsertGood
  <2>5. TaskGood(t, rows'[r], log)
    BY <2>3 DEF TaskGood
  <2> QED
    BY <1>3, <2>1, <2>4, <2>5
<1>5. ASSUME NEW r \in RowIds, UserUpdate(r) \/ UserDelete(r) PROVE GInv'
  <2>1. PICK s \in {"updating", "deleting"}, kind \in {"update", "delete"}, step \in {"get", "remote"} :
          /\ rows' = SetStatus(r, s)
          /\ task' = [task EXCEPT ![r] = [kind |-> kind, step |-> step, copy |-> rows'[r], obj |-> NoObj]]
    BY <1>5 DEF UserUpdate, UserDelete
  <2>2. Tracks /\ RowsGood(rows', log)
    BY <1>0, <2>1, StatusGood
  <2> DEFINE t == [kind |-> kind, step |-> step, copy |-> rows'[r], obj |-> NoObj]
  <2>3. t.kind = kind /\ t.step = step /\ t.copy = rows'[r] /\ t.obj = NoObj
    OBVIOUS
  <2> HIDE DEF t
  <2>4. TaskGood(t, rows'[r], log)
    BY <2>3, NoObjGood DEF TaskGood
  <2> QED
    BY <1>3, <2>1, <2>2, <2>4 DEF t
<1>6. ASSUME NEW r \in RowIds, UserPurge(r) PROVE GInv'
  <2>1. Tracks /\ RowsGood(rows', log) /\ task' = task
    BY <1>0, <1>6, DropGood DEF UserPurge
  <2> QED
    BY <1>0, <1>1, <1>2, <2>1, TasksSame, SyncSame, EvStays, Assemble
<1> QED
  BY <1>4, <1>5, <1>6 DEF User

LEMMA GenuineInductive == Spec => []GInv
<1>1. Init => GInv
  <2> SUFFICES ASSUME Init PROVE GInv
    OBVIOUS
  <2>1. LogGood(log) /\ RowsGood(rows, log)
    BY DEF Init, LogGood, RowsGood
  <2>2. EvGood
    BY DEF Init, EvGood, EvIdle
  <2>3. (\A w \in Workers : SyncGood(sync[w], rows, log)) /\ AddGood
    BY DEF Init, SyncGood, AddGood, SyncIdle
  <2>4. \A r \in RowIds : TaskGood(task[r], rows[r], log)
    BY DEF Init, TaskGood, NoTask
  <2> QED
    BY <2>1, <2>2, <2>3, <2>4 DEF GInv
<1>2. IInv /\ GInv /\ [Next]_vars => GInv'
  <2> SUFFICES ASSUME IInv, GInv, [Next]_vars PROVE GInv'
    OBVIOUS
  <2>1. CASE UNCHANGED vars
    BY <2>1 DEF vars, GInv, EvGood, AddGood, ObjAt, NextEvent, IsLive
  <2>2. CASE \E r \in RowIds : TaskStep(r)
    BY <2>2, LocalTaskGood, RemoteTaskGood DEF TaskStep
  <2>3. CASE \E w \in Workers : SyncSubmit(w) \/ SyncStep(w)
    BY <2>3, SyncStepGood
  <2> QED
    BY <2>1, <2>2, <2>3, ClusterGood, EventGood, UserGood DEF Next
<1> QED
  BY Inductive, <1>1, <1>2, PTL DEF Spec

\* A row never carries the identity or the version of another object, though
\* the handler, the passes and the tasks write column by column from copies and
\* objects of different age: whatever they hold belongs to the name of the row.
THEOREM RowsAreGenuine == Spec => []Genuine
<1>1. GInv => Genuine
  BY DEF GInv, RowsGood, GoodObj, Genuine, IsLive
<1> QED
  BY GenuineInductive, <1>1, PTL
=============================================================================
