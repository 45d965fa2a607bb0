-------------------------- MODULE MCCalicoNodeAgent --------------------------
(***************************************************************************)
(* Instances of CalicoNodeAgent: two CIDRs that overlap neither each other *)
(* nor themselves in another spelling, a third inside the second, and a    *)
(* bare address whose stored form is spelled otherwise.                    *)
(***************************************************************************)
EXTENDS CalicoNodeAgent

\* "a" and "b" are disjoint; "b1" is a range inside "b".
MCCidrs   == {"a", "b", "b1"}
MCNorm    == [c \in MCCidrs |-> c]
MCOverlap == {<<c, c>> : c \in MCCidrs} \cup {<<"b", "b1">>, <<"b1", "b">>}
MCConfigs == {<<"a", "b">>, <<"b1">>}
MCForeign == {[name |-> "other", cidr |-> "b1", own |-> FALSE]}

\* An address written without its mask is stored as "ip/32".
IPCidrs   == {"ip", "ip/32"}
IPNorm    == [c \in IPCidrs |-> "ip/32"]
IPOverlap == {<<"ip/32", "ip/32">>}
IPConfigs == {<<"ip">>}
=============================================================================
