---------------------------- MODULE StickyBalancer ----------------------------
(***************************************************************************)
(* What the load balancer promises, without tables, directors, hops or     *)
(* packets: a new connection is given to a proxy that is in service, and   *)
(* belongs to that proxy until it is closed; no other proxy ever takes a   *)
(* part of it.                                                              *)
(***************************************************************************)
CONSTANTS Flows, Proxies, NoProxy

VARIABLES
  owner,      \* flow -> the proxy it belongs to
  inService,  \* the proxies that may be given a new connection
  broken      \* the connections that another proxy took a part of

vars == <<owner, inService, broken>>

Init ==
  /\ owner = [f \in Flows |-> NoProxy]
  /\ inService \in SUBSET Proxies
  /\ broken = {}

Open(f) ==
  /\ owner[f] = NoProxy
  /\ \E p \in inService : owner' = [owner EXCEPT ![f] = p]

Close(f) ==
  /\ owner[f] # NoProxy
  /\ owner' = [owner EXCEPT ![f] = NoProxy]

(* Which proxies are in service may change at any time. *)
Next ==
  /\ (\E f \in Flows : Open(f) \/ Close(f)) \/ UNCHANGED owner
  /\ inService' \in SUBSET Proxies
  /\ UNCHANGED broken

Spec == Init /\ [][Next]_vars
===============================================================================
