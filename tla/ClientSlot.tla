----------------------------- MODULE ClientSlot -----------------------------
(***************************************************************************)
(* What the client manager (client/manager.go) promises for one cluster,   *)
(* whoever adds, updates and removes its client: the events of at most one *)
(* client are passed on at a time.  A client starts silent, is switched on *)
(* and off while it is in the slot, is taken out of the slot first and     *)
(* closed then; the next one is put in only after that.                    *)
(***************************************************************************)
CONSTANT Clients   \* identities of clients

VARIABLES slot,    \* the client that GetManager returns, or 0
          live     \* clients whose informers pass events on

vars == <<slot, live>>

Init == slot = 0 /\ live = {}

Install(c) == slot = 0 /\ live = {} /\ slot' = c /\ live' = {}

Enable == slot # 0 /\ live \subseteq {slot} /\ live' = {slot} /\ slot' = slot

Disable == slot # 0 /\ live \subseteq {slot} /\ live' = {} /\ slot' = slot

Withdraw == slot # 0 /\ live \subseteq {slot} /\ slot' = 0 /\ live' = live

Close == slot = 0 /\ live' = {} /\ slot' = slot

\* The process ends, and all its informers with it.
Lose == slot' = 0 /\ live' = {}

Next ==
  \/ \E c \in Clients : Install(c)
  \/ Enable \/ Disable \/ Withdraw \/ Close \/ Lose

Spec == Init /\ [][Next]_vars
=============================================================================
