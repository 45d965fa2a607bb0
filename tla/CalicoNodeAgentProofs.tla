----------------------- MODULE CalicoNodeAgentProofs -----------------------
(***************************************************************************)
(* Proofs about CalicoNodeAgent: the types, and that an undisturbed pass   *)
(* of syncIPPools leaves the pools of the config, for any configs, CIDRs   *)
(* and pools of other owners.                                              *)
(***************************************************************************)
EXTENDS CalicoNodeAgent, TLAPS

Own(P)   == {p \in P : p.own}
InCfg(C) == {C[k] : k \in 1..Len(C)}

\* Deleting by name deletes one pool.
Unique(P) == \A p, q \in P : p.name = q.name => p = q

\* What a goroutine with state s knows, when the pools are P, the config is C
\* and nobody has changed either since the list: every own pool is still to be
\* looked at, about to be deleted or kept; kept CIDRs are configured and have
\* a pool; the CIDRs before the index are kept.
Knows(s, P, C) ==
  /\ s.todo \subseteq Own(P) /\ s.pool \subseteq Own(P)
  /\ \A p \in Own(P) : p \in s.todo \/ p \in s.pool \/ p.cidr \in s.kept
  /\ \A c \in s.kept : c \in InCfg(C) /\ \E p \in Own(P) : p.cidr = c
  /\ \A p \in s.pool : p \notin s.todo /\ p.cidr \notin InCfg(C)
  /\ s.pc # "delete" => s.pool = {}
  /\ s.pc \in {"create", "post"} =>
       s.todo = {} /\ s.n = Len(C) /\ \A k \in 1..Len(C) : k < s.idx => C[k] \in s.kept
  /\ s.pc = "post" => s.idx \in 1..Len(C) /\ s.want = {C[s.idx]}

Sound(s, P, C) ==
  /\ s.pc = "list" => s.kept = {} /\ s.pool = {}
  /\ s.pc \in {"idle", "list"} => ~s.clean
  /\ s.clean /\ (\A c \in InCfg(C) : Norm[c] = c) => Knows(s, P, C)

IInv == /\ TypeOK
        /\ Unique(pools)
        /\ \A t \in Threads : Sound(th[t], pools, cfg)

------------------------------------------------------------------------------
(* The state of a goroutine *)

LEMMA IdleState ==
  /\ ThIdle \in ThState /\ [ThIdle EXCEPT !.pc = "list"] \in ThState
  /\ \A P, C : Sound(ThIdle, P, C) /\ Sound([ThIdle EXCEPT !.pc = "list"], P, C)
<1>1. ThIdle \in ThState /\ [ThIdle EXCEPT !.pc = "list"] \in ThState
  <2>1. 1 \in Nat \ {0} /\ 0 \in Nat
    OBVIOUS
  <2> QED
    BY <2>1 DEF ThIdle, ThState
<1>2. /\ ThIdle.pc = "idle" /\ ~ThIdle.clean
      /\ [ThIdle EXCEPT !.pc = "list"].pc = "list" /\ ~[ThIdle EXCEPT !.pc = "list"].clean
      /\ [ThIdle EXCEPT !.pc = "list"].kept = {} /\ [ThIdle EXCEPT !.pc = "list"].pool = {}
  BY DEF ThIdle
<1> QED
  BY <1>1, <1>2 DEF Sound

LEMMA ThFields ==
  ASSUME TypeOK, NEW t \in Threads
  PROVE  /\ th[t] \in ThState /\ th[t].todo \subseteq Pools /\ th[t].kept \subseteq Cidrs
         /\ th[t].pool \subseteq Pools /\ th[t].want \subseteq Cidrs /\ th[t].idx \in Nat \ {0}
         /\ th[t].n \in Nat /\ th[t].clean \in BOOLEAN
  BY DEF TypeOK, ThState

LEMMA SpoiltState ==
  ASSUME NEW s \in ThState, NEW P, NEW C, NEW Q, NEW D, Sound(s, P, C)
  PROVE  [s EXCEPT !.clean = FALSE] \in ThState /\ Sound([s EXCEPT !.clean = FALSE], Q, D)
<1> DEFINE r == [s EXCEPT !.clean = FALSE]
<1>1. r \in ThState /\ ~r.clean /\ r.pc = s.pc /\ r.kept = s.kept /\ r.pool = s.pool
  BY DEF ThState
<1> HIDE DEF r
<1>2. Sound(r, Q, D)
  BY <1>1 DEF Sound
<1> QED
  BY <1>1, <1>2 DEF r

LEMMA ConfigSeq ==
  ASSUME TypeOK
  PROVE  cfg \in Seq(Cidrs) /\ Len(cfg) \in Nat /\ InCfg(cfg) = CfgCidrs /\ InCfg(cfg) \subseteq Cidrs
<1>1. cfg \in Seq(Cidrs)
  <2>1. NoConfig \in Seq(Cidrs)
    BY DEF NoConfig
  <2>2. Configs \subseteq Seq(Cidrs)
    BY ConfigsAssumption
  <2> QED
    BY <2>1, <2>2 DEF TypeOK
<1>2. Len(cfg) \in Nat /\ DOMAIN cfg = 1..Len(cfg) /\ \A k \in 1..Len(cfg) : cfg[k] \in Cidrs
  BY <1>1
<1> QED
  BY <1>1, <1>2 DEF InCfg, CfgCidrs, Range

\* One goroutine moves and changes nothing that the other one relies on.
LEMMA AloneStep ==
  ASSUME IInv, NEW t \in Threads, NEW s \in ThState, th' = [th EXCEPT ![t] = s],
         pools' = pools, cfg' = cfg, Sound(s, pools, cfg)
  PROVE  th' \in [Threads -> ThState] /\ Unique(pools') /\ \A u \in Threads : Sound(th'[u], pools', cfg')
<1>1. th \in [Threads -> ThState]
  BY DEF IInv, TypeOK
<1>2. \A u \in Threads : th'[u] = IF u = t THEN s ELSE th[u]
  BY <1>1
<1> QED
  BY <1>1, <1>2 DEF IInv

\* One goroutine moves and the other one is disturbed.
LEMMA DisturbStep ==
  ASSUME IInv, NEW t \in Threads, NEW s \in ThState, th' = Disturb(t, s),
         Unique(pools'), Sound(s, pools', cfg')
  PROVE  th' \in [Threads -> ThState] /\ Unique(pools') /\ \A u \in Threads : Sound(th'[u], pools', cfg')
<1>1. \A u \in Threads : th[u] \in ThState /\ Sound(th[u], pools, cfg)
  BY ThFields DEF IInv
<1>2. \A u \in Threads : /\ [th[u] EXCEPT !.clean = FALSE] \in ThState
                         /\ Sound([th[u] EXCEPT !.clean = FALSE], pools', cfg')
  BY <1>1, SpoiltState
<1>3. \A u \in Threads : th'[u] = IF u = t THEN s ELSE [th[u] EXCEPT !.clean = FALSE]
  BY DEF Disturb
<1>4. th' \in [Threads -> ThState]
  BY <1>2 DEF Disturb
<1> QED
  BY <1>2, <1>3, <1>4

\* Both are disturbed.
LEMMA SpoilStep ==
  ASSUME IInv, th' = Spoil, Unique(pools')
  PROVE  th' \in [Threads -> ThState] /\ Unique(pools') /\ \A u \in Threads : Sound(th'[u], pools', cfg')
<1>1. \A u \in Threads : th[u] \in ThState /\ Sound(th[u], pools, cfg)
  BY ThFields DEF IInv
<1>2. \A u \in Threads : /\ [th[u] EXCEPT !.clean = FALSE] \in ThState
                         /\ Sound([th[u] EXCEPT !.clean = FALSE], pools', cfg')
  BY <1>1, SpoiltState
<1> QED
  BY <1>2 DEF Spoil

\* Both are reset.
LEMMA ResetStep ==
  ASSUME th' = [u \in Threads |-> ThIdle], pools' = pools, IInv
  PROVE  th' \in [Threads -> ThState] /\ Unique(pools') /\ \A u \in Threads : Sound(th'[u], pools', cfg')
  BY IdleState DEF IInv

LEMMA SameStep ==
  ASSUME IInv, th' = th, pools' = pools, cfg' = cfg
  PROVE  th' \in [Threads -> ThState] /\ Unique(pools') /\ \A u \in Threads : Sound(th'[u], pools', cfg')
  BY DEF IInv, TypeOK

------------------------------------------------------------------------------
(* The steps of a pass *)

\* What remains of TypeOK when the goroutines are known to be fit.
LEMMA Together ==
  ASSUME /\ th' \in [Threads -> ThState] /\ Unique(pools')
         /\ \A u \in Threads : Sound(th'[u], pools', cfg'),
         pools' \subseteq Pools, cfg' \in Configs \cup {NoConfig},
         file' \in Configs \cup {Invalid, BadARP},
         up' \in BOOLEAN /\ watching' \in BOOLEAN /\ missed' \in BOOLEAN,
         events' \in Seq({"write", "remove"}),
         edits' \in 0..MaxEdits, faults' \in 0..MaxFaults, acts' \in 0..MaxOperator
  PROVE  IInv'
  BY DEF IInv, TypeOK

LEMMA ListStep == ASSUME IInv, NEW t \in Threads, List(t) PROVE IInv'
<1> DEFINE s == [th[t] EXCEPT !.pc = "scan", !.todo = listIPPools, !.clean = TRUE]
<1>1. th[t] \in ThState /\ th[t].kept = {} /\ th[t].pool = {} /\ listIPPools = Own(pools)
  BY ThFields DEF IInv, List, Sound, listIPPools, OwnPools, Own
<1>2. /\ s \in ThState /\ s.pc = "scan" /\ s.todo = Own(pools) /\ s.kept = {} /\ s.pool = {}
  BY <1>1 DEF ThState, IInv, TypeOK, Own
<1>3. th' = [th EXCEPT ![t] = s] /\ UNCHANGED <<pools, file, agent, events, bounds, missed>>
  BY DEF List, IInv, TypeOK
<1> HIDE DEF s
<1>4. Knows(s, pools, cfg)
  BY <1>2 DEF Knows
<1>5. Sound(s, pools, cfg)
  BY <1>2, <1>4 DEF Sound
<1>6. th' \in [Threads -> ThState] /\ Unique(pools') /\ \A u \in Threads : Sound(th'[u], pools', cfg')
  BY <1>2, <1>3, <1>5, AloneStep DEF agent
<1> QED
  BY <1>3, <1>6, Together DEF IInv, TypeOK, agent, bounds

\* When the config is in normal form and the pass is undisturbed.
Quiet(t) == th[t].clean /\ \A c \in InCfg(cfg) : Norm[c] = c

LEMMA ScanStep == ASSUME IInv, NEW t \in Threads, Scan(t) PROVE IInv'
<1>1. PICK p \in th[t].todo :
        \/ /\ isContainIPPool(p)
           /\ th' = [th EXCEPT ![t] = [th[t] EXCEPT !.todo = @ \ {p}, !.kept = @ \cup {p.cidr}]]
        \/ /\ ~isContainIPPool(p)
           /\ th' = [th EXCEPT ![t] = [th[t] EXCEPT !.todo = @ \ {p}, !.pool = {p}, !.pc = "delete"]]
  BY DEF Scan
<1>2. /\ th[t] \in ThState /\ th[t].pc = "scan" /\ p \in Pools /\ p.cidr \in Cidrs
      /\ UNCHANGED <<pools, file, agent, events, bounds, missed>>
  BY ThFields DEF IInv, Scan, Pools
<1>3. isContainIPPool(p) <=> p.cidr \in InCfg(cfg)
  BY DEF isContainIPPool, InCfg
<1>4. Quiet(t) => Knows(th[t], pools, cfg)
  BY DEF IInv, Sound, Quiet
<1> DEFINE a == [th[t] EXCEPT !.todo = @ \ {p}, !.kept = @ \cup {p.cidr}]
           b == [th[t] EXCEPT !.todo = @ \ {p}, !.pool = {p}, !.pc = "delete"]
<1>5. CASE isContainIPPool(p)
  <2>1. /\ a \in ThState /\ a.pc = "scan" /\ a.todo = th[t].todo \ {p} /\ a.kept = th[t].kept \cup {p.cidr}
        /\ a.pool = th[t].pool /\ a.clean = th[t].clean
    BY <1>2 DEF ThState
  <2>2. th' = [th EXCEPT ![t] = a]
    BY <1>1, <1>5
  <2> HIDE DEF a
  <2>3. Quiet(t) => Knows(a, pools, cfg)
    BY <1>2, <1>3, <1>4, <1>5, <2>1 DEF Knows
  <2>4. Sound(a, pools, cfg)
    BY <2>1, <2>3 DEF Sound, Quiet
  <2>5. th' \in [Threads -> ThState] /\ Unique(pools') /\ \A u \in Threads : Sound(th'[u], pools', cfg')
    BY <1>2, <2>1, <2>2, <2>4, AloneStep DEF agent
  <2> QED
    BY <1>2, <2>5, Together DEF IInv, TypeOK, agent, bounds
<1>6. CASE ~isContainIPPool(p)
  <2>1. /\ b \in ThState /\ b.pc = "delete" /\ b.todo = th[t].todo \ {p} /\ b.kept = th[t].kept
        /\ b.pool = {p} /\ b.clean = th[t].clean
    BY <1>2 DEF ThState
  <2>2. th' = [th EXCEPT ![t] = b]
    BY <1>1, <1>6
  <2> HIDE DEF b
  <2>3. Quiet(t) => Knows(b, pools, cfg)
    BY <1>2, <1>3, <1>4, <1>6, <2>1 DEF Knows
  <2>4. Sound(b, pools, cfg)
    BY <2>1, <2>3 DEF Sound, Quiet
  <2>5. th' \in [Threads -> ThState] /\ Unique(pools') /\ \A u \in Threads : Sound(th'[u], pools', cfg')
    BY <1>2, <2>1, <2>2, <2>4, AloneStep DEF agent
  <2> QED
    BY <1>2, <2>5, Together DEF IInv, TypeOK, agent, bounds
<1> QED
  BY <1>5, <1>6

LEMMA DeleteStep == ASSUME IInv, NEW t \in Threads, Delete(t) PROVE IInv'
<1> DEFINE named == {q \in pools : \E p \in th[t].pool : q.name = p.name}
<1>1. /\ th[t] \in ThState /\ th[t].pc = "delete" /\ pools' = pools \ named
      /\ UNCHANGED <<file, agent, events, bounds, missed>>
  BY ThFields DEF IInv, Delete
<1>2. CASE named = {}
  <2>1. th' = [th EXCEPT ![t] = ThIdle] /\ pools' = pools
    BY <1>1, <1>2 DEF Delete
  <2>2. th' \in [Threads -> ThState] /\ Unique(pools') /\ \A u \in Threads : Sound(th'[u], pools', cfg')
    BY <1>1, <2>1, IdleState, AloneStep DEF agent
  <2> QED
    BY <1>1, <2>1, <2>2, Together DEF IInv, TypeOK, agent, bounds
<1>3. CASE named # {}
  <2> DEFINE s == [th[t] EXCEPT !.pc = "scan", !.pool = {}]
  <2>1. th' = Disturb(t, s)
    BY <1>3 DEF Delete
  <2>2. /\ s \in ThState /\ s.pc = "scan" /\ s.pool = {} /\ s.todo = th[t].todo /\ s.kept = th[t].kept
        /\ s.clean = th[t].clean
    BY <1>1 DEF ThState
  <2> HIDE DEF s
  <2>3. Unique(pools') /\ pools' \subseteq Pools
    BY <1>1 DEF IInv, TypeOK, Unique
  <2>4. Quiet(t) => Knows(s, pools', cfg)
    <3> SUFFICES ASSUME Quiet(t) PROVE Knows(s, pools', cfg)
      OBVIOUS
    <3>1. Knows(th[t], pools, cfg)
      BY DEF IInv, Sound, Quiet
    <3>2. named = th[t].pool
      BY <3>1 DEF Knows, Own, IInv, Unique
    <3>3. Own(pools') = Own(pools) \ th[t].pool
      BY <1>1, <3>2 DEF Own
    <3>4. \A c \in s.kept : c \in InCfg(cfg) /\ \E p \in Own(pools') : p.cidr = c
      BY <2>2, <3>1, <3>3 DEF Knows
    <3>5. s.todo \subseteq Own(pools') /\ \A p \in Own(pools') : p \in s.todo \/ p.cidr \in s.kept
      BY <2>2, <3>1, <3>3 DEF Knows
    <3> QED
      BY <2>2, <3>4, <3>5 DEF Knows
  <2>5. Sound(s, pools', cfg')
    BY <1>1, <2>2, <2>4 DEF Sound, Quiet, agent
  <2>6. th' \in [Threads -> ThState] /\ \A u \in Threads : Sound(th'[u], pools', cfg')
    BY <2>1, <2>2, <2>3, <2>5, DisturbStep
  <2> QED
    BY <1>1, <2>3, <2>6, Together DEF IInv, TypeOK, agent, bounds
<1> QED
  BY <1>2, <1>3

LEMMA BeginCreateStep == ASSUME IInv, NEW t \in Threads, BeginCreate(t) PROVE IInv'
<1> DEFINE s == [th[t] EXCEPT !.pc = "create", !.idx = 1, !.n = RangeLen]
<1>1. th[t] \in ThState /\ th[t].pc = "scan" /\ th[t].todo = {} /\ RangeLen = Len(cfg) /\ Len(cfg) \in Nat
  BY ThFields, ConfigSeq DEF IInv, BeginCreate, RangeLen
<1>2. /\ s \in ThState /\ s.pc = "create" /\ s.todo = {} /\ s.kept = th[t].kept /\ s.pool = th[t].pool
      /\ s.idx = 1 /\ s.n = Len(cfg) /\ s.clean = th[t].clean
  <2>1. 1 \in Nat \ {0}
    OBVIOUS
  <2> QED
    BY <1>1, <2>1 DEF ThState
<1>3. th' = [th EXCEPT ![t] = s] /\ UNCHANGED <<pools, file, agent, events, bounds, missed>>
  BY DEF BeginCreate, IInv, TypeOK
<1> HIDE DEF s
<1>4. Quiet(t) => Knows(s, pools, cfg)
  <2>1. Quiet(t) => Knows(th[t], pools, cfg)
    BY DEF IInv, Sound, Quiet
  <2>2. \A k \in 1..Len(cfg) : ~(k < s.idx)
    BY <1>1, <1>2
  <2> QED
    BY <1>1, <1>2, <2>1, <2>2 DEF Knows
<1>5. Sound(s, pools, cfg)
  BY <1>2, <1>4 DEF Sound, Quiet
<1>6. th' \in [Threads -> ThState] /\ Unique(pools') /\ \A u \in Threads : Sound(th'[u], pools', cfg')
  BY <1>2, <1>3, <1>5, AloneStep DEF agent
<1> QED
  BY <1>3, <1>6, Together DEF IInv, TypeOK, agent, bounds

LEMMA CheckLocalStep == ASSUME IInv, NEW t \in Threads, CheckLocal(t) PROVE IInv'
<1> DEFINE c == cfg[th[t].idx]
           a == [th[t] EXCEPT !.idx = @ + 1]
           b == [th[t] EXCEPT !.want = {c}, !.pc = "post"]
<1>1. /\ th[t] \in ThState /\ th[t].pc = "create" /\ th[t].idx \in Nat \ {0} /\ th[t].idx <= Len(cfg)
      /\ Len(cfg) \in Nat /\ UNCHANGED <<pools, file, agent, events, bounds, missed>>
  BY ThFields, ConfigSeq DEF IInv, CheckLocal
<1>2. \/ c \in th[t].kept /\ th' = [th EXCEPT ![t] = a]
      \/ c \notin th[t].kept /\ th' = [th EXCEPT ![t] = b]
  BY DEF CheckLocal, isRemoteExistLocalPool
<1>3. Quiet(t) => Knows(th[t], pools, cfg)
  BY DEF IInv, Sound, Quiet
<1>4. CASE c \in th[t].kept
  <2>1. /\ a \in ThState /\ a.pc = "create" /\ a.todo = th[t].todo /\ a.kept = th[t].kept
        /\ a.pool = th[t].pool /\ a.idx = th[t].idx + 1 /\ a.n = th[t].n /\ a.clean = th[t].clean
    BY <1>1 DEF ThState
  <2>2. th' = [th EXCEPT ![t] = a]
    BY <1>2, <1>4
  <2> HIDE DEF a
  <2>3. Quiet(t) => Knows(a, pools, cfg)
    <3> SUFFICES ASSUME Quiet(t) PROVE Knows(a, pools, cfg)
      OBVIOUS
    <3>1. \A k \in 1..Len(cfg) : k < a.idx => k < th[t].idx \/ k = th[t].idx
      BY <1>1, <2>1
    <3>2. \A k \in 1..Len(cfg) : k < a.idx => cfg[k] \in a.kept
      BY <1>1, <1>3, <1>4, <2>1, <3>1 DEF Knows
    <3> QED
      BY <1>1, <1>3, <2>1, <3>2 DEF Knows
  <2>4. Sound(a, pools, cfg)
    BY <2>1, <2>3 DEF Sound, Quiet
  <2>5. th' \in [Threads -> ThState] /\ Unique(pools') /\ \A u \in Threads : Sound(th'[u], pools', cfg')
    BY <1>1, <2>1, <2>2, <2>4, AloneStep DEF agent
  <2> QED
    BY <1>1, <2>5, Together DEF IInv, TypeOK, agent, bounds
<1>5. CASE c \notin th[t].kept
  <2>0. th[t].idx \in 1..Len(cfg) /\ c \in Cidrs
    BY <1>1, ConfigSeq DEF IInv, InCfg
  <2>1. b.pc = "post" /\ b.todo = th[t].todo /\ b.kept = th[t].kept /\ b.want = {c}
        /\ b.pool = th[t].pool /\ b.idx = th[t].idx /\ b.n = th[t].n /\ b.clean = th[t].clean
    BY <1>1 DEF ThState
  <2>2. th' = [th EXCEPT ![t] = b]
    BY <1>2, <1>5
  <2>3. b \in ThState
    BY <1>1, <2>0 DEF ThState
  <2> HIDE DEF b
  <2>4. Quiet(t) => Knows(b, pools, cfg)
    BY <1>1, <1>3, <2>0, <2>1 DEF Knows
  <2>5. Sound(b, pools, cfg)
    BY <2>1, <2>4 DEF Sound, Quiet
  <2>6. th' \in [Threads -> ThState] /\ Unique(pools') /\ \A u \in Threads : Sound(th'[u], pools', cfg')
    BY <1>1, <2>2, <2>3, <2>5, AloneStep DEF agent
  <2> QED
    BY <1>1, <2>6, Together DEF IInv, TypeOK, agent, bounds
<1> QED
  BY <1>4, <1>5

LEMMA PanicStep == ASSUME IInv, NEW t \in Threads, Panic(t) PROVE IInv'
<1>1. th' \in [Threads -> ThState] /\ Unique(pools') /\ \A u \in Threads : Sound(th'[u], pools', cfg')
  BY ResetStep DEF Panic
<1>2. events' \in Seq({"write", "remove"})
  BY DEF Panic
<1> QED
  BY <1>1, <1>2, Together DEF Panic, IInv, TypeOK, bounds

LEMMA CreateStep == ASSUME IInv, NEW t \in Threads, Create(t) PROVE IInv'
<1>1. PICK c \in th[t].want :
        /\ th[t].pc = "post"
        /\ IF \E q \in pools : q.name = c \/ <<Norm[c], q.cidr>> \in Overlap
           THEN th' = [th EXCEPT ![t] = ThIdle] /\ pools' = pools
           ELSE /\ pools' = pools \cup {PoolOf(c)}
                /\ th' = Disturb(t, [th[t] EXCEPT !.pc = "create", !.want = {}, !.idx = @ + 1,
                                                  !.kept = @ \cup {Norm[c]}])
        /\ UNCHANGED <<file, agent, events, bounds, missed>>
  BY DEF Create
<1>2. th[t] \in ThState /\ c \in Cidrs /\ Norm[c] \in Cidrs /\ th[t].idx \in Nat \ {0}
  BY <1>1, ThFields, NormAssumption DEF IInv
<1>3. CASE \E q \in pools : q.name = c \/ <<Norm[c], q.cidr>> \in Overlap
  <2>1. th' \in [Threads -> ThState] /\ Unique(pools') /\ \A u \in Threads : Sound(th'[u], pools', cfg')
    BY <1>1, <1>3, IdleState, AloneStep DEF agent
  <2> QED
    BY <1>1, <1>3, <2>1, Together DEF IInv, TypeOK, agent, bounds
<1>4. CASE ~\E q \in pools : q.name = c \/ <<Norm[c], q.cidr>> \in Overlap
  <2> DEFINE s == [th[t] EXCEPT !.pc = "create", !.want = {}, !.idx = @ + 1, !.kept = @ \cup {Norm[c]}]
             p == PoolOf(c)
  <2>1. th' = Disturb(t, s) /\ pools' = pools \cup {p}
    BY <1>1, <1>4
  <2>2. /\ s \in ThState /\ s.pc = "create" /\ s.todo = th[t].todo /\ s.kept = th[t].kept \cup {Norm[c]}
        /\ s.pool = th[t].pool /\ s.idx = th[t].idx + 1 /\ s.n = th[t].n /\ s.clean = th[t].clean
    <3>1. th[t].idx + 1 \in Nat \ {0}
      BY <1>2
    <3> QED
      BY <1>2, <3>1 DEF ThState
  <2>3. p \in Pools /\ p.own /\ p.name = c /\ p.cidr = Norm[c]
    BY <1>2 DEF PoolOf, Pools
  <2> HIDE DEF s, p
  <2>4. Unique(pools') /\ pools' \subseteq Pools
    BY <1>4, <2>1, <2>3 DEF Unique, IInv, TypeOK
  <2>5. Quiet(t) => Knows(s, pools', cfg)
    <3> SUFFICES ASSUME Quiet(t) PROVE Knows(s, pools', cfg)
      OBVIOUS
    <3>1. Knows(th[t], pools, cfg)
      BY DEF IInv, Sound, Quiet
    <3>2. Own(pools') = Own(pools) \cup {p}
      BY <2>1, <2>3 DEF Own
    <3>3. th[t].idx \in 1..Len(cfg) /\ c = cfg[th[t].idx] /\ c \in InCfg(cfg) /\ Norm[c] = c
      BY <1>1, <3>1 DEF Knows, InCfg, Quiet
    <3>4. \A k \in 1..Len(cfg) : k < s.idx => k < th[t].idx \/ k = th[t].idx
      BY <1>2, <2>2
    <3>5. \A k \in 1..Len(cfg) : k < s.idx => cfg[k] \in s.kept
      BY <1>1, <2>2, <3>1, <3>3, <3>4 DEF Knows
    <3>6. \A d \in s.kept : d \in InCfg(cfg) /\ \E q \in Own(pools') : q.cidr = d
      BY <2>2, <2>3, <3>1, <3>2, <3>3 DEF Knows
    <3>7. /\ s.todo = {} /\ s.pool = {} /\ s.n = Len(cfg)
          /\ \A q \in Own(pools') : q.cidr \in s.kept
      BY <1>1, <2>2, <2>3, <3>1, <3>2 DEF Knows
    <3> QED
      BY <2>2, <3>5, <3>6, <3>7 DEF Knows
  <2>6. Sound(s, pools', cfg')
    BY <1>1, <2>2, <2>5 DEF Sound, Quiet, agent
  <2>7. th' \in [Threads -> ThState] /\ \A u \in Threads : Sound(th'[u], pools', cfg')
    BY <2>1, <2>2, <2>4, <2>6, DisturbStep
  <2> QED
    BY <1>1, <2>4, <2>7, Together DEF IInv, TypeOK, agent, bounds
<1> QED
  BY <1>3, <1>4

\* A pass ends, because it is done or because a request failed.
LEMMA EndStep == ASSUME IInv, NEW t \in Threads, Finish(t) \/ ApiFails(t) PROVE IInv'
<1>1. th' = [th EXCEPT ![t] = ThIdle] /\ pools' = pools /\ cfg' = cfg
  BY DEF Finish, ApiFails, agent
<1>2. th' \in [Threads -> ThState] /\ Unique(pools') /\ \A u \in Threads : Sound(th'[u], pools', cfg')
  BY <1>1, IdleState, AloneStep
<1>3. faults' \in 0..MaxFaults
  BY BoundsAssumption DEF Finish, ApiFails, IInv, TypeOK, bounds
<1> QED
  BY <1>1, <1>2, <1>3, Together DEF Finish, ApiFails, IInv, TypeOK, agent, bounds

------------------------------------------------------------------------------
(* The process and its environment *)

LEMMA ProcessStep == ASSUME IInv, Run \/ WatchDir PROVE IInv'
<1>1. CASE Run
  <2>1. th' \in [Threads -> ThState] /\ Unique(pools') /\ \A u \in Threads : Sound(th'[u], pools', cfg')
    BY <1>1, ResetStep DEF Run
  <2>2. cfg' \in Configs \cup {NoConfig} /\ events' \in Seq({"write", "remove"})
    BY <1>1 DEF Run, Loads
  <2> QED
    BY <1>1, <2>1, <2>2, Together DEF Run, IInv, TypeOK, bounds
<1>2. CASE WatchDir
  <2>1. th' \in [Threads -> ThState] /\ Unique(pools') /\ \A u \in Threads : Sound(th'[u], pools', cfg')
    BY <1>2, SameStep DEF WatchDir
  <2> QED
    BY <1>2, <2>1, Together DEF WatchDir, IInv, TypeOK, bounds
<1> QED
  BY <1>1, <1>2

LEMMA EditStep ==
  ASSUME IInv, NEW c \in Configs \cup {Invalid, BadARP}, NEW op \in {"write", "remove"}, EditFile(c, op)
  PROVE  IInv'
<1>1. th' \in [Threads -> ThState] /\ Unique(pools') /\ \A u \in Threads : Sound(th'[u], pools', cfg')
  BY SameStep DEF EditFile, agent
<1>2. events' \in Seq({"write", "remove"}) /\ edits' \in 0..MaxEdits /\ missed' \in BOOLEAN
  BY BoundsAssumption DEF EditFile, IInv, TypeOK
<1> QED
  BY <1>1, <1>2, Together DEF EditFile, IInv, TypeOK, agent

LEMMA OperatorStep ==
  ASSUME IInv, \/ \E p \in pools : OperatorDelete(p)
               \/ \E p \in ForeignPools : OperatorCreate(p)
  PROVE  IInv'
<1>1. th' = Spoil /\ UNCHANGED <<file, agent, events, edits, faults, missed>>
  BY DEF OperatorDelete, OperatorCreate
<1>2. acts' \in 0..MaxOperator
  BY BoundsAssumption DEF OperatorDelete, OperatorCreate, IInv, TypeOK
<1>3. Unique(pools') /\ pools' \subseteq Pools
  <2>1. CASE \E p \in pools : OperatorDelete(p)
    BY <2>1 DEF OperatorDelete, Unique, IInv, TypeOK
  <2>2. CASE \E p \in ForeignPools : OperatorCreate(p)
    <3>1. PICK p \in ForeignPools : pools' = pools \cup {p} /\ \A q \in pools : q.name # p.name
      BY <2>2 DEF OperatorCreate
    <3>2. p \in Pools
      BY ForeignAssumption DEF Pools
    <3> QED
      BY <3>1, <3>2 DEF Unique, IInv, TypeOK
  <2> QED
    BY <2>1, <2>2
<1>4. th' \in [Threads -> ThState] /\ \A u \in Threads : Sound(th'[u], pools', cfg')
  BY <1>1, <1>3, SpoilStep
<1> QED
  BY <1>1, <1>2, <1>3, <1>4, Together DEF IInv, TypeOK, agent

LEMMA EventStep == ASSUME IInv, OnDelete \/ OnUpdate PROVE IInv'
<1>1. events' \in Seq({"write", "remove"}) /\ UNCHANGED <<pools, file, up, watching, bounds>>
  <2>1. events \in Seq({"write", "remove"}) /\ events # <<>> /\ events' = Tail(events)
    BY DEF OnDelete, OnUpdate, WatcherFree, IInv, TypeOK
  <2>2. UNCHANGED <<pools, file, up, watching, bounds>>
    BY DEF OnDelete, OnUpdate, agent
  <2> QED
    BY <2>1, <2>2
<1>2. CASE UNCHANGED <<cfg, th, missed>>
  <2>1. th' \in [Threads -> ThState] /\ Unique(pools') /\ \A u \in Threads : Sound(th'[u], pools', cfg')
    BY <1>1, <1>2, SameStep
  <2> QED
    BY <1>1, <1>2, <2>1, Together DEF IInv, TypeOK, bounds
<1>3. CASE /\ th' = Disturb("watcher", [ThIdle EXCEPT !.pc = "list"])
           /\ cfg' = file /\ file \in Configs /\ missed' = FALSE
  <2>1. "watcher" \in Threads /\ Unique(pools')
    BY <1>1 DEF Threads, IInv, Unique
  <2>2. th' \in [Threads -> ThState] /\ Unique(pools') /\ \A u \in Threads : Sound(th'[u], pools', cfg')
    BY <1>3, <2>1, IdleState, DisturbStep
  <2> QED
    BY <1>1, <1>3, <2>2, Together DEF IInv, TypeOK, bounds
<1> QED
  BY <1>2, <1>3 DEF OnDelete, OnUpdate, Loads, SetConfig, agent

LEMMA TickStep == ASSUME IInv, Tick PROVE IInv'
<1>1. /\ th' = [th EXCEPT !["ticker"] = [ThIdle EXCEPT !.pc = "list"]] /\ "ticker" \in Threads
      /\ pools' = pools /\ cfg' = cfg
  BY DEF Tick, Threads, agent
<1>2. th' \in [Threads -> ThState] /\ Unique(pools') /\ \A u \in Threads : Sound(th'[u], pools', cfg')
  BY <1>1, IdleState, AloneStep
<1> QED
  BY <1>1, <1>2, Together DEF Tick, IInv, TypeOK, agent, bounds

------------------------------------------------------------------------------
(* The theorems *)

LEMMA InitIInv == Init => IInv
<1> SUFFICES ASSUME Init PROVE IInv
  OBVIOUS
<1>1. pools \subseteq Pools /\ Unique(pools)
  <2>1. \A p \in pools : \E c \in Cidrs : p = PoolOf(c)
    BY DEF Init
  <2>2. \A c \in Cidrs : PoolOf(c) \in Pools /\ PoolOf(c).name = c
    BY NormAssumption DEF PoolOf, Pools
  <2> QED
    BY <2>1, <2>2 DEF Unique
<1>2. th \in [Threads -> ThState] /\ \A u \in Threads : Sound(th[u], pools, cfg)
  BY IdleState DEF Init
<1>3. /\ edits \in 0..MaxEdits /\ faults \in 0..MaxFaults /\ acts \in 0..MaxOperator
      /\ events \in Seq({"write", "remove"})
  BY BoundsAssumption DEF Init
<1> QED
  BY <1>1, <1>2, <1>3 DEF Init, IInv, TypeOK

LEMMA StepIInv == IInv /\ [Next]_vars => IInv'
<1> SUFFICES ASSUME IInv, [Next]_vars PROVE IInv'
  OBVIOUS
<1>1. CASE Run \/ WatchDir
  BY <1>1, ProcessStep
<1>2. CASE OnDelete \/ OnUpdate
  BY <1>2, EventStep
<1>3. CASE Tick
  BY <1>3, TickStep
<1>4. CASE \E c \in Configs \cup {Invalid, BadARP} : EditFile(c, "write")
  BY <1>4, EditStep
<1>5. CASE EditFile(Invalid, "remove")
  BY <1>5, EditStep
<1>6. CASE \/ \E p \in pools : OperatorDelete(p)
           \/ \E p \in ForeignPools : OperatorCreate(p)
  BY <1>6, OperatorStep
<1>7. CASE \E t \in Threads : Pass(t) \/ ApiFails(t)
  <2>1. PICK t \in Threads : Pass(t) \/ ApiFails(t)
    BY <1>7
  <2> QED
    BY <2>1, ListStep, ScanStep, DeleteStep, BeginCreateStep, CheckLocalStep,
       PanicStep, CreateStep, EndStep DEF Pass
<1>8. CASE UNCHANGED vars
  <2>1. th' \in [Threads -> ThState] /\ Unique(pools') /\ \A u \in Threads : Sound(th'[u], pools', cfg')
    BY <1>8, SameStep DEF vars
  <2> QED
    BY <1>8, <2>1, Together DEF vars, IInv, TypeOK
<1> QED
  BY <1>1, <1>2, <1>3, <1>4, <1>5, <1>6, <1>7, <1>8 DEF Next

LEMMA Invariance == Spec => []IInv
<1> QED
  BY InitIInv, StepIInv, PTL DEF Spec

\* The datastore, the shared config and the goroutines have their types.
THEOREM TypeCorrect == Spec => []TypeOK
<1>1. IInv => TypeOK
  BY DEF IInv
<1> QED
  BY <1>1, Invariance, PTL

\* A pass of syncIPPools that reaches its end, and that nobody disturbed since
\* it listed the pools, leaves exactly the pools of the config, whatever the
\* config, the pools that it found and the failures of earlier passes.
THEOREM PassesCorrect == Spec => []PassCorrect
<1>1. IInv => PassCorrect
  <2> SUFFICES ASSUME IInv, NEW t \in Threads, AtEnd(t), th[t].clean, Normalised
               PROVE  {p.cidr : p \in OwnPools} = CfgCidrs
    BY DEF PassCorrect
  <2>1. InCfg(cfg) = CfgCidrs /\ Len(cfg) \in Nat /\ th[t].idx \in Nat /\ OwnPools = Own(pools)
    BY ConfigSeq, ThFields DEF IInv, OwnPools, Own
  <2>2. Knows(th[t], pools, cfg)
    BY <2>1 DEF IInv, Sound, Normalised
  <2>3. /\ th[t].todo = {} /\ th[t].pool = {}
        /\ \A k \in 1..Len(cfg) : cfg[k] \in th[t].kept
    BY <2>1, <2>2 DEF Knows, AtEnd
  <2>4. \A c \in InCfg(cfg) : c \in th[t].kept
    BY <2>3 DEF InCfg
  <2>5. /\ \A p \in Own(pools) : p.cidr \in InCfg(cfg)
        /\ \A c \in InCfg(cfg) : \E p \in Own(pools) : p.cidr = c
    BY <2>2, <2>3, <2>4 DEF Knows
  <2> QED
    BY <2>1, <2>5
<1> QED
  BY <1>1, Invariance, PTL

------------------------------------------------------------------------------
(* Pools of other owners *)

\* A pass deletes by name, and the names in its list, however old, are the
\* agent's.
Ours(S)   == \A p \in S : p.name \in Cidrs
Labels(P) == \A p \in P : p.own <=> p.name \in Cidrs
Aims(s)   == Ours(s.todo) /\ Ours(s.pool)
FInv == Labels(pools) /\ \A t \in Threads : Aims(th[t])

LEMMA IdleAims == Aims(ThIdle) /\ Aims([ThIdle EXCEPT !.pc = "list"])
<1>1. /\ ThIdle.todo = {} /\ ThIdle.pool = {}
      /\ [ThIdle EXCEPT !.pc = "list"].todo = {} /\ [ThIdle EXCEPT !.pc = "list"].pool = {}
  BY DEF ThIdle
<1> QED
  BY <1>1 DEF Aims, Ours

\* A goroutine t moves to s; the other one is at most disturbed.
LEMMA MoveAims ==
  ASSUME TypeOK, FInv, NEW t \in Threads, NEW s, Aims(s),
         th' = [th EXCEPT ![t] = s] \/ th' = Disturb(t, s)
  PROVE  \A u \in Threads : Aims(th'[u])
<1> TAKE u \in Threads
<1>1. th[u] \in ThState /\ th \in [Threads -> ThState] /\ Aims(th[u])
  BY DEF TypeOK, FInv
<1>2. /\ [th[u] EXCEPT !.clean = FALSE].todo = th[u].todo
      /\ [th[u] EXCEPT !.clean = FALSE].pool = th[u].pool
  BY <1>1 DEF ThState
<1>3. th'[u] \in {s, th[u], [th[u] EXCEPT !.clean = FALSE]}
  BY <1>1 DEF Disturb
<1> QED
  BY <1>1, <1>2, <1>3 DEF Aims

LEMMA SpoilAims ==
  ASSUME TypeOK, FInv, th' = Spoil
  PROVE  \A u \in Threads : Aims(th'[u])
<1> TAKE u \in Threads
<1>1. th[u] \in ThState /\ Aims(th[u])
  BY DEF TypeOK, FInv
<1>2. /\ [th[u] EXCEPT !.clean = FALSE].todo = th[u].todo
      /\ [th[u] EXCEPT !.clean = FALSE].pool = th[u].pool
  BY <1>1 DEF ThState
<1>3. th'[u] = [th[u] EXCEPT !.clean = FALSE]
  BY DEF Spoil
<1> QED
  BY <1>2, <1>1, <1>3 DEF Aims

\* The steps of a pass keep the list the agent's, and delete only from it.
LEMMA PassAims ==
  ASSUME TypeOK, FInv, NEW t \in Threads, Pass(t) \/ ApiFails(t)
  PROVE  FInv' /\ \A p \in pools : ~p.own => p \in pools'
<1>0. th[t] \in ThState /\ th \in [Threads -> ThState] /\ Aims(th[t]) /\ Labels(pools)
  BY DEF TypeOK, FInv
<1>1. ASSUME NEW s, Aims(s), th' = [th EXCEPT ![t] = s] \/ th' = Disturb(t, s), Labels(pools')
      PROVE  FInv'
  BY <1>1, MoveAims DEF FInv
<1>2. ASSUME NEW s, Aims(s), th' = [th EXCEPT ![t] = s], pools' = pools
      PROVE  FInv' /\ \A p \in pools : ~p.own => p \in pools'
  BY <1>0, <1>1, <1>2 DEF Labels
<1>3. CASE List(t)
  <2> DEFINE s == [th[t] EXCEPT !.pc = "scan", !.todo = listIPPools, !.clean = TRUE]
  <2>1. s.todo = listIPPools /\ s.pool = th[t].pool
    BY <1>0 DEF ThState
  <2>2. Aims(s)
    BY <1>0, <2>1 DEF Aims, Ours, listIPPools, OwnPools, Labels
  <2>3. th' = [th EXCEPT ![t] = s] /\ pools' = pools
    BY <1>3 DEF List
  <2> QED
    BY <1>2, <2>2, <2>3
<1>4. CASE Scan(t)
  <2>1. PICK p \in th[t].todo :
          \/ th' = [th EXCEPT ![t] = [th[t] EXCEPT !.todo = @ \ {p}, !.kept = @ \cup {p.cidr}]]
          \/ th' = [th EXCEPT ![t] = [th[t] EXCEPT !.todo = @ \ {p}, !.pool = {p}, !.pc = "delete"]]
    BY <1>4 DEF Scan
  <2> DEFINE a == [th[t] EXCEPT !.todo = @ \ {p}, !.kept = @ \cup {p.cidr}]
             b == [th[t] EXCEPT !.todo = @ \ {p}, !.pool = {p}, !.pc = "delete"]
  <2>2. /\ a.todo = th[t].todo \ {p} /\ a.pool = th[t].pool
        /\ b.todo = th[t].todo \ {p} /\ b.pool = {p}
    BY <1>0 DEF ThState
  <2>3. Aims(a) /\ Aims(b)
    BY <1>0, <2>2 DEF Aims, Ours
  <2>4. pools' = pools
    BY <1>4 DEF Scan
  <2> QED
    BY <1>2, <2>1, <2>3, <2>4
<1>5. CASE Delete(t)
  <2> DEFINE s == [th[t] EXCEPT !.pc = "scan", !.pool = {}]
  <2>1. s.todo = th[t].todo /\ s.pool = {}
    BY <1>0 DEF ThState
  <2>2. Aims(s)
    BY <1>0, <2>1 DEF Aims, Ours
  <2>3. /\ pools' = pools \ {q \in pools : \E p \in th[t].pool : q.name = p.name}
        /\ th' = [th EXCEPT ![t] = ThIdle] \/ th' = Disturb(t, s)
    BY <1>5 DEF Delete
  <2>4. Labels(pools') /\ \A p \in pools : ~p.own => p \in pools'
    BY <1>0, <2>3 DEF Labels, Aims, Ours
  <2> QED
    BY <1>1, <2>2, <2>3, <2>4, IdleAims
<1>6. CASE BeginCreate(t)
  <2> DEFINE s == [th[t] EXCEPT !.pc = "create", !.idx = 1, !.n = RangeLen]
  <2>1. s.todo = th[t].todo /\ s.pool = th[t].pool
    BY <1>0 DEF ThState
  <2>2. th' = [th EXCEPT ![t] = s] /\ pools' = pools /\ Aims(s)
    BY <1>0, <1>6, <2>1 DEF BeginCreate, Aims
  <2> QED
    BY <1>2, <2>2
<1>7. CASE CheckLocal(t)
  <2> DEFINE a == [th[t] EXCEPT !.idx = @ + 1]
             b == [th[t] EXCEPT !.want = {cfg[th[t].idx]}, !.pc = "post"]
  <2>1. a.todo = th[t].todo /\ a.pool = th[t].pool /\ b.todo = th[t].todo /\ b.pool = th[t].pool
    BY <1>0 DEF ThState
  <2>2. Aims(a) /\ Aims(b)
    BY <1>0, <2>1 DEF Aims
  <2>3. (th' = [th EXCEPT ![t] = a] \/ th' = [th EXCEPT ![t] = b]) /\ pools' = pools
    BY <1>7 DEF CheckLocal
  <2> QED
    BY <1>2, <2>2, <2>3
<1>8. CASE Panic(t)
  BY <1>0, <1>8, IdleAims DEF Panic, FInv, Labels
<1>9. CASE Create(t)
  <2>1. PICK c \in th[t].want :
          \/ th' = [th EXCEPT ![t] = ThIdle] /\ pools' = pools
          \/ /\ pools' = pools \cup {PoolOf(c)}
             /\ th' = Disturb(t, [th[t] EXCEPT !.pc = "create", !.want = {}, !.idx = @ + 1,
                                               !.kept = @ \cup {Norm[c]}])
    BY <1>9 DEF Create
  <2> DEFINE s == [th[t] EXCEPT !.pc = "create", !.want = {}, !.idx = @ + 1, !.kept = @ \cup {Norm[c]}]
  <2>2. s.todo = th[t].todo /\ s.pool = th[t].pool
    BY <1>0 DEF ThState
  <2>3. Aims(s)
    BY <1>0, <2>2 DEF Aims
  <2>4. c \in Cidrs
    BY ThFields
  <2>5. PoolOf(c).own /\ PoolOf(c).name \in Cidrs
    BY <2>4 DEF PoolOf
  <2>6. Labels(pools \cup {PoolOf(c)})
    BY <1>0, <2>5 DEF Labels
  <2> HIDE DEF s
  <2> QED
    BY <1>1, <1>2, <2>1, <2>3, <2>6, IdleAims DEF s
<1>10. CASE Finish(t) \/ ApiFails(t)
  BY <1>2, <1>10, IdleAims DEF Finish, ApiFails
<1> QED
  BY <1>3, <1>4, <1>5, <1>6, <1>7, <1>8, <1>9, <1>10 DEF Pass

LEMMA OtherAims ==
  ASSUME TypeOK, FInv,
         \/ Run \/ WatchDir \/ OnDelete \/ OnUpdate \/ Tick
         \/ \E c \in Configs \cup {Invalid, BadARP} : EditFile(c, "write")
         \/ EditFile(Invalid, "remove")
  PROVE  FInv' /\ pools' = pools
<1>0. pools' = pools /\ Labels(pools')
  BY DEF Run, WatchDir, OnDelete, OnUpdate, Tick, EditFile, FInv, Labels
<1>1. CASE th' = th
  BY <1>0, <1>1 DEF FInv
<1>2. CASE Run
  BY <1>0, <1>2, IdleAims DEF Run, FInv
<1>3. CASE \E t \in Threads : \/ th' = [th EXCEPT ![t] = [ThIdle EXCEPT !.pc = "list"]]
                              \/ th' = Disturb(t, [ThIdle EXCEPT !.pc = "list"])
  BY <1>0, <1>3, IdleAims, MoveAims DEF FInv
<1>4. "ticker" \in Threads /\ "watcher" \in Threads
  BY DEF Threads
<1> QED
  BY <1>0, <1>1, <1>2, <1>3, <1>4 DEF WatchDir, OnDelete, OnUpdate, Tick, EditFile

LEMMA OperatorAims ==
  ASSUME TypeOK, FInv, \/ \E p \in pools : OperatorDelete(p)
                       \/ \E p \in ForeignPools : OperatorCreate(p)
  PROVE  FInv' /\ acts' # acts
<1>1. th' = Spoil /\ acts' # acts
  BY DEF OperatorDelete, OperatorCreate, TypeOK
<1>2. Labels(pools')
  <2>1. \A p \in ForeignPools : ~p.own /\ p.name \notin Cidrs
    BY ForeignAssumption
  <2> QED
    BY <2>1 DEF OperatorDelete, OperatorCreate, FInv, Labels
<1> QED
  BY <1>1, <1>2, SpoilAims DEF FInv

LEMMA StepFInv ==
  ASSUME TypeOK, FInv, [Next]_vars
  PROVE  FInv' /\ (acts' = acts => \A p \in pools : ~p.own => p \in pools')
<1>1. CASE UNCHANGED vars
  BY <1>1 DEF vars, FInv, Labels
<1> QED
  BY <1>1, PassAims, OtherAims, OperatorAims DEF Next

\* No step of the agent deletes a pool of another owner, though deleteIPPool
\* deletes by name from a list that may be old, as long as nobody else uses the
\* names that getIPPoolName derives.
THEOREM OthersUntouched == Spec => ForeignUntouched
<1>1. Init => FInv
  <2> SUFFICES ASSUME Init PROVE FInv
    OBVIOUS
  <2>1. \A p \in pools : \E c \in Cidrs : p = PoolOf(c)
    BY DEF Init
  <2>2. \A c \in Cidrs : PoolOf(c).own /\ PoolOf(c).name \in Cidrs
    BY DEF PoolOf
  <2>3. Labels(pools)
    BY <2>1, <2>2 DEF Labels
  <2> QED
    BY <2>3, IdleAims DEF Init, FInv
<1>2. TypeOK /\ FInv /\ [Next]_vars => FInv'
  BY StepFInv
<1>3. TypeOK /\ FInv /\ [Next]_vars
        => [acts' = acts => \A p \in pools : ~p.own => p \in pools']_vars
  BY StepFInv
<1> QED
  BY <1>1, <1>2, <1>3, TypeCorrect, PTL DEF Spec, ForeignUntouched
=============================================================================
