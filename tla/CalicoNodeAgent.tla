--------------------------- MODULE CalicoNodeAgent ---------------------------
(***************************************************************************)
(* calico-node-agent: the IP pools of one node, kept equal to a config     *)
(* file.  Two goroutines run syncIPPools without a lock: the ticker of     *)
(* server.start, every five minutes, and the file watcher, after it has    *)
(* replaced server.nodeConfig.  A pass reads nodeConfig again at every     *)
(* step, so the other goroutine may replace it in between.                 *)
(*                                                                         *)
(* A CIDR is a model value, as spelled in the config; Norm gives the form  *)
(* that the Calico datastore stores.  The name of a pool is derived from   *)
(* the spelling.  A config is the sequence of its CIDRs.                   *)
(***************************************************************************)
EXTENDS Naturals, Sequences, Functions

CONSTANTS Cidrs,         \* CIDRs, as spelled or as normalised
          Norm,          \* the normalised form of each
          Overlap,       \* pairs of normalised CIDRs that overlap
          Configs,       \* valid contents of the config file
          Invalid,       \* contents that GetNodeConfigByFile refuses
          BadARP,        \* contents whose interface setConfig cannot set
          ForeignPools,  \* pools an operator may create
          MaxEdits,      \* bound on changes of the file
          MaxFaults,     \* bound on failed requests to the datastore
          MaxOperator    \* bound on changes of pools by an operator

\* server.nodeConfig before a config has been loaded: nil.
NoConfig == <<>>

ASSUME NormAssumption ==
  /\ Norm \in [Cidrs -> Cidrs]
  /\ \A c \in Cidrs : Norm[Norm[c]] = Norm[c] /\ <<Norm[c], Norm[c]>> \in Overlap
ASSUME ConfigsAssumption ==
  /\ Configs \subseteq Seq(Cidrs) \ {NoConfig}
  /\ Invalid \notin Configs /\ BadARP \notin Configs /\ Invalid # BadARP
\* Nobody else uses the names that getIPPoolName derives from a CIDR.
ASSUME ForeignAssumption ==
  ForeignPools \subseteq [name : STRING \ Cidrs, cidr : Cidrs, own : {FALSE}]
ASSUME BoundsAssumption ==
  MaxEdits \in Nat /\ MaxFaults \in Nat /\ MaxOperator \in Nat

VARIABLES pools,     \* the datastore: records of name, CIDR and ownership
          file,      \* content of the config file
          cfg,       \* server.nodeConfig, shared by the goroutines
          up,        \* whether the process runs
          watching,  \* whether watcher.Add has been called
          events,    \* fsnotify events not yet handled
          th,        \* the local state of each goroutine
          edits, faults, acts,   \* counters for the bounds
          missed     \* history: an edit happened before watcher.Add

vars == <<pools, file, cfg, up, watching, events, th, edits, faults, acts, missed>>
bounds == <<edits, faults, acts>>
agent  == <<cfg, up, watching>>

Threads == {"ticker", "watcher"}

\* todo: listed pools not looked at; kept: CIDRs of tmpPools; pool and want:
\* what the pass is about to delete or create; idx and n: the second loop;
\* clean: history, no one else has changed pools or cfg since the list.
ThIdle == [pc |-> "idle", todo |-> {}, kept |-> {}, pool |-> {}, want |-> {},
           idx |-> 1, n |-> 0, clean |-> FALSE]

OwnPools  == {p \in pools : p.own}
CfgCidrs  == Range(cfg)
\* The pool that createIPPool makes of a CIDR of the config.
PoolOf(c) == [name |-> c, cidr |-> Norm[c], own |-> TRUE]

\* The state of the goroutines when t moves to r and has changed something
\* the other one relies on.
Disturb(t, r) ==
  [u \in Threads |-> IF u = t THEN r ELSE [th[u] EXCEPT !.clean = FALSE]]
Spoil == [u \in Threads |-> [th[u] EXCEPT !.clean = FALSE]]

Init ==
  /\ pools \in SUBSET {PoolOf(c) : c \in Cidrs}
  /\ \A p, q \in pools : p # q => <<p.cidr, q.cidr>> \notin Overlap
  /\ file \in Configs \cup {Invalid}
  /\ cfg = NoConfig
  /\ up = FALSE
  /\ watching = FALSE
  /\ events = <<>>
  /\ th = [t \in Threads |-> ThIdle]
  /\ edits = 0 /\ faults = 0 /\ acts = 0
  /\ missed = FALSE

------------------------------------------------------------------------------
(* The process and its environment *)

\* Mutant: Validate is not called on the parsed content.
LoadsUnchecked(c) == c # BadARP

\* GetNodeConfigByFile followed by setConfig succeeds.
Loads(c) == c \in Configs

\* Run: an unreadable file is only logged, a config whose interface cannot be
\* set is fatal.
Run ==
  /\ ~up
  /\ file # BadARP
  /\ up' = TRUE
  /\ cfg' = IF Loads(file) THEN file ELSE NoConfig
  /\ watching' = FALSE
  /\ events' = <<>>
  /\ missed' = FALSE
  /\ th' = [t \in Threads |-> ThIdle]
  /\ UNCHANGED <<pools, file, bounds>>

\* watcher.Add, in a goroutine of its own: earlier edits cause no event.
WatchDir ==
  /\ up /\ ~watching
  /\ watching' = TRUE
  /\ UNCHANGED <<pools, file, cfg, up, events, th, bounds, missed>>

\* The file is written or created (content c), or removed.
EditFile(c, op) ==
  /\ edits < MaxEdits
  /\ edits' = edits + 1
  /\ file' = c
  /\ events' = IF up /\ watching THEN Append(events, op) ELSE events
  /\ missed' = (missed \/ (up /\ ~watching))
  /\ UNCHANGED <<pools, agent, th, faults, acts>>

\* An operator deletes any pool, or creates one of another owner.
OperatorDelete(p) ==
  /\ acts < MaxOperator
  /\ acts' = acts + 1
  /\ pools' = pools \ {p}
  /\ th' = Spoil
  /\ UNCHANGED <<file, agent, events, edits, faults, missed>>

OperatorCreate(p) ==
  /\ acts < MaxOperator
  /\ \A q \in pools : q.name # p.name /\ <<p.cidr, q.cidr>> \notin Overlap
  /\ acts' = acts + 1
  /\ pools' = pools \cup {p}
  /\ th' = Spoil
  /\ UNCHANGED <<file, agent, events, edits, faults, missed>>

------------------------------------------------------------------------------
(* The watcher's event loop *)

\* The watcher goroutine is between two events.
WatcherFree == up /\ th["watcher"].pc = "idle" /\ events # <<>>

\* OnDelete does nothing.
OnDelete ==
  /\ WatcherFree
  /\ Head(events) = "remove"
  /\ events' = Tail(events)
  /\ UNCHANGED <<pools, file, agent, th, bounds, missed>>

\* Mutant: the config is replaced only when none was held.
KeepFirst(old, new) == IF old = NoConfig THEN new ELSE old

\* setConfig
SetConfig(old, new) == new

\* OnCreate and OnUpdate: doSync reads the file as it is now; an error of
\* reloadConfig ends the handler, otherwise a pass begins.
OnUpdate ==
  /\ WatcherFree
  /\ Head(events) # "remove"
  /\ events' = Tail(events)
  /\ IF Loads(file)
     THEN /\ cfg' = SetConfig(cfg, file)
          /\ th' = Disturb("watcher", [ThIdle EXCEPT !.pc = "list"])
          /\ missed' = FALSE
     ELSE UNCHANGED <<cfg, th, missed>>
  /\ UNCHANGED <<pools, file, up, watching, bounds>>

\* server.start wakes up; it skips the pass while there is no config.
Tick ==
  /\ up
  /\ th["ticker"].pc = "idle"
  /\ cfg # NoConfig
  /\ th' = [th EXCEPT !["ticker"] = [ThIdle EXCEPT !.pc = "list"]]
  /\ UNCHANGED <<pools, file, agent, events, bounds, missed>>

------------------------------------------------------------------------------
(* syncIPPools *)

\* A request to the datastore fails: every error ends the pass.
ApiFails(t) ==
  /\ th[t].pc \in {"list", "delete", "post"}
  /\ faults < MaxFaults
  /\ faults' = faults + 1
  /\ th' = [th EXCEPT ![t] = ThIdle]
  /\ UNCHANGED <<pools, file, agent, events, edits, acts, missed>>

\* Mutant: the label of the agent is not compared.
AllPools == pools

\* listIPPools keeps the pools with the node's selector and the agent's label.
listIPPools == OwnPools

List(t) ==
  /\ th[t].pc = "list"
  /\ th' = [th EXCEPT ![t].pc = "scan", ![t].todo = listIPPools,
                      ![t].clean = TRUE]
  /\ UNCHANGED <<pools, file, agent, events, bounds, missed>>

\* Mutant: the first CIDR of the config is skipped.
ContainsFromSecond(p) == \E k \in 2..Len(cfg) : cfg[k] = p.cidr

isContainIPPool(p) == \E k \in 1..Len(cfg) : cfg[k] = p.cidr

Scan(t) ==
  /\ th[t].pc = "scan"
  /\ \E p \in th[t].todo :
       th' = [th EXCEPT ![t] =
         IF isContainIPPool(p)
         THEN [th[t] EXCEPT !.todo = @ \ {p}, !.kept = @ \cup {p.cidr}]
         ELSE [th[t] EXCEPT !.todo = @ \ {p}, !.pool = {p}, !.pc = "delete"]]
  /\ UNCHANGED <<pools, file, agent, events, bounds, missed>>

\* deleteIPPool deletes by name; a pool that is gone is an error.
Delete(t) ==
  LET named == {q \in pools : \E p \in th[t].pool : q.name = p.name} IN
  /\ th[t].pc = "delete"
  /\ pools' = pools \ named
  /\ IF named = {}
     THEN th' = [th EXCEPT ![t] = ThIdle]
     ELSE th' = Disturb(t, [th[t] EXCEPT !.pc = "scan", !.pool = {}])
  /\ UNCHANGED <<file, agent, events, bounds, missed>>

\* Mutant: the last CIDR of the config is left out.
RangeShort == Len(cfg) - 1

\* The range clause evaluates the length of the config once.
RangeLen == Len(cfg)

BeginCreate(t) ==
  /\ th[t].pc = "scan"
  /\ th[t].todo = {}
  /\ th' = [th EXCEPT ![t].pc = "create", ![t].idx = 1, ![t].n = RangeLen]
  /\ UNCHANGED <<pools, file, agent, events, bounds, missed>>

isRemoteExistLocalPool(t, c) == c \in th[t].kept

\* The next CIDR is taken from the config held now, which may have become
\* shorter: the index is then out of range and the process dies.
CheckLocal(t) ==
  /\ th[t].pc = "create"
  /\ th[t].idx <= th[t].n
  /\ th[t].idx <= Len(cfg)
  /\ th' = [th EXCEPT ![t] =
       IF isRemoteExistLocalPool(t, cfg[th[t].idx])
       THEN [th[t] EXCEPT !.idx = @ + 1]
       ELSE [th[t] EXCEPT !.want = {cfg[th[t].idx]}, !.pc = "post"]]
  /\ UNCHANGED <<pools, file, agent, events, bounds, missed>>

Panic(t) ==
  /\ th[t].pc = "create"
  /\ th[t].idx <= th[t].n
  /\ th[t].idx > Len(cfg)
  /\ up' = FALSE
  /\ cfg' = NoConfig
  /\ watching' = FALSE
  /\ events' = <<>>
  /\ th' = [u \in Threads |-> ThIdle]
  /\ UNCHANGED <<pools, file, bounds, missed>>

\* createIPPool: the datastore refuses a name or a range already in use.
Create(t) ==
  \E c \in th[t].want :
    LET refused == \E q \in pools : q.name = c \/ <<Norm[c], q.cidr>> \in Overlap
    IN
    /\ th[t].pc = "post"
    /\ IF refused
       THEN th' = [th EXCEPT ![t] = ThIdle] /\ pools' = pools
       ELSE /\ pools' = pools \cup {PoolOf(c)}
            /\ th' = Disturb(t, [th[t] EXCEPT
                 !.pc = "create", !.want = {}, !.idx = @ + 1,
                 !.kept = @ \cup {Norm[c]}])
    /\ UNCHANGED <<file, agent, events, bounds, missed>>

\* Both loops are done.
AtEnd(t) == th[t].pc = "create" /\ th[t].idx > th[t].n

Finish(t) ==
  /\ AtEnd(t)
  /\ th' = [th EXCEPT ![t] = ThIdle]
  /\ UNCHANGED <<pools, file, agent, events, bounds, missed>>

Pass(t) ==
  \/ List(t) \/ Scan(t) \/ Delete(t) \/ BeginCreate(t)
  \/ CheckLocal(t) \/ Panic(t) \/ Create(t) \/ Finish(t)

Next ==
  \/ Run \/ WatchDir \/ OnDelete \/ OnUpdate \/ Tick
  \/ \E c \in Configs \cup {Invalid, BadARP} : EditFile(c, "write")
  \/ EditFile(Invalid, "remove")
  \/ \E p \in pools : OperatorDelete(p)
  \/ \E p \in ForeignPools : OperatorCreate(p)
  \/ \E t \in Threads : Pass(t) \/ ApiFails(t)

\* The daemon set restarts the agent, the goroutines are scheduled and the
\* ticker fires every five minutes; edits, faults and operators may cease.
Fairness ==
  /\ WF_vars(Run) /\ WF_vars(WatchDir)
  /\ WF_vars(OnDelete \/ OnUpdate) /\ WF_vars(Tick)
  /\ \A t \in Threads : WF_vars(Pass(t))

Spec == Init /\ [][Next]_vars /\ Fairness

------------------------------------------------------------------------------
(* Properties *)

Pools == [name : Cidrs \cup {p.name : p \in ForeignPools}, cidr : Cidrs,
          own : BOOLEAN]

ThState == [pc : {"idle", "list", "scan", "delete", "create", "post"},
            todo : SUBSET Pools, kept : SUBSET Cidrs, pool : SUBSET Pools,
            want : SUBSET Cidrs, idx : Nat \ {0}, n : Nat, clean : BOOLEAN]

\* Type invariant of the datastore, the shared config and the goroutines.
TypeOK ==
  /\ pools \subseteq Pools
  /\ file \in Configs \cup {Invalid, BadARP}
  /\ cfg \in Configs \cup {NoConfig}
  /\ up \in BOOLEAN /\ watching \in BOOLEAN /\ missed \in BOOLEAN
  /\ events \in Seq({"write", "remove"})
  /\ th \in [Threads -> ThState]
  /\ edits \in 0..MaxEdits
  /\ faults \in 0..MaxFaults
  /\ acts \in 0..MaxOperator

\* Spelled as the datastore stores them.
Normalised == \A c \in CfgCidrs : Norm[c] = c

\* What syncIPPools is for: a pass that reaches its end and that nobody
\* disturbed since its list leaves exactly the pools of the config.
PassCorrect ==
  \A t \in Threads :
    AtEnd(t) /\ th[t].clean /\ Normalised
      => {p.cidr : p \in OwnPools} = CfgCidrs

\* No step of the agent deletes a pool of another owner, though it deletes by
\* name from a list that may be old.
ForeignUntouched ==
  [][acts' = acts => \A p \in pools : ~p.own => p \in pools']_vars

\* When edits, faults and operators have ceased, the pools of the node are
\* those of the config held, for good, whatever the two goroutines undid of
\* each other's work and however often an index out of range restarted the
\* agent - provided no pool of another owner is in the way.
Blocked == \E p \in pools : ~p.own /\ \E c \in CfgCidrs : <<c, p.cidr>> \in Overlap

Converges ==
  <>[](up /\ cfg # NoConfig /\ Normalised /\ ~Blocked
         => {p.cidr : p \in OwnPools} = CfgCidrs)

\* The config held follows the file: the last valid content is loaded, unless
\* it was written before the directory was watched.
FollowsFile == <>[](up /\ file \in Configs => missed \/ cfg = file)

\* "delete remote IPPool not in local configured" (serve.go): while the config
\* stays, the pool made for one of its CIDRs is not deleted by the agent.
DeletesOnlyUnconfigured ==
  [][acts' = acts /\ edits = 0
       => \A p \in OwnPools : p.name \in CfgCidrs => p \in pools']_vars
=============================================================================
