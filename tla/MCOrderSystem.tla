----------------------------- MODULE MCOrderSystem -----------------------------
(***************************************************************************)
(* OrderSystem with the small instances the .cfg files choose.  Several    *)
(* orders, bypass requests and crashes together are more than TLC          *)
(* explores: under OneOrTheOther a behaviour has one of them.              *)
(***************************************************************************)
EXTENDS OrderSystem, TLC

Symmetry == Permutations(Orders) \cup Permutations(Drivers) \cup Permutations(GatewayTxs)
              \cup Permutations(BypassIds) \cup Permutations(BypassWorkers)

Several(S) == Cardinality(S) > 1

\* Orders and drivers compete.
ManyOrders ==
  \/ Several({o \in Orders : orderStatus[o] # "none"})
  \/ Several(claims)
  \/ Several(({taskDriver[o][t] : o \in Orders, t \in TaskTypes} \cup {c.driver : c \in claims})
               \ {NULL})

\* Bypass requests are filed.
Bypasses == filings # {} \/ \E b \in BypassIds : bypass[b] # NoBypass

\* The server crashes (a filing that just ends is FilingEnds).
Crashes == crashes > 0

OneOrTheOther ==
  ~ (\/ ManyOrders /\ (Bypasses \/ Crashes)
     \/ Bypasses /\ Crashes
     \/ filings # {} /\ payCalls # {})'
=============================================================================
