----------------------------- MODULE SecondChance -----------------------------
(***************************************************************************)
(* The promise of the load balancer: an established connection stays with  *)
(* the proxy that accepted it, while proxies are drained, removed, filled  *)
(* and fail health checks, and while its packets move between directors.   *)
(* Composed here are the table builder (ForwardingTable), the directors'   *)
(* routing and encapsulation, the network between directors and proxies,   *)
(* and the proxies' GLBREDIRECT target, which gives a packet of a          *)
(* connection it does not know a second chance at the next hop.            *)
(***************************************************************************)
EXTENDS ForwardingTable, Sequences, FiniteSets

CONSTANTS
  Directors,
  Flows,        \* TCP 5-tuples
  NoProxy,      \* owner of a flow that is not established
  RowOf,        \* RowOf[f][h]: row of flow f under the hash fields h
  Operations,   \* what the operator and the proxies' health may do
  MaxEpoch,     \* bound: configurations published after the first
  MaxPackets    \* bound: packets under way

HashFields == {"old", "new"}

ASSUME SecondChanceConstants ==
  /\ NoProxy \notin Proxies
  /\ RowOf \in [Flows -> [HashFields -> Rows]]
  /\ Operations \subseteq {"lifecycle", "health", "migrate"}
  /\ MaxEpoch \in Nat /\ MaxPackets \in Nat

(* The table builder needs two available proxies, also while one is out. *)
ASSUME ThreeProxies ==
  Proxies # {} /\ \A p, q \in Proxies : \E x \in Proxies : x \notin {p, q}

VARIABLES
  config,    \* what the operator published last: proxy states, hash fields
  epoch,     \* its number
  loaded,    \* director -> the configuration it uses
  version,   \* director -> the number of that configuration
  health,    \* director -> its own view of the proxies' health
  conn,      \* flow -> the proxy that has its established socket
  since,     \* flow -> number of the configuration that routed its SYN
  net,       \* encapsulated packets under way
  strayed    \* history: live flows a packet of which another proxy took

operVars == <<config, epoch>>
dirVars == <<loaded, version, health>>
flowVars == <<conn, since>>
vars == <<operVars, dirVars, flowVars, net, strayed>>

(* "old": hash_fields only; "both": new hash_fields, old alt_hash_fields;   *)
(* "new": alt_hash_fields removed again.                                    *)
Hashings == {"old", "both", "new"}
Configs == [state : [Proxies -> States], hashing : Hashings]

AllActive == [p \in Proxies |-> "active"]

Init ==
  /\ config = [state |-> AllActive, hashing |-> "old"]
  /\ epoch = 0
  /\ loaded = [d \in Directors |-> config]
  /\ version = [d \in Directors |-> 0]
  /\ health = [d \in Directors |-> [p \in Proxies |-> "up"]]
  /\ conn = [f \in Flows |-> NoProxy]
  /\ since = [f \in Flows |-> 0]
  /\ net = {}
  /\ strayed = {}

------------------------------------------------------------------------------
(* The operator follows the documented procedure: one change at a time,     *)
(* the next one only when every director has the last and no packet older   *)
(* than it is under way; at most one proxy is not active.                   *)

RolledOut ==
  /\ \A d \in Directors : version[d] = epoch
  /\ \A m \in net : m.epoch = epoch

Publish(c) ==
  /\ epoch < MaxEpoch /\ RolledOut
  /\ config' = c
  /\ epoch' = epoch + 1
  /\ UNCHANGED <<dirVars, flowVars, net, strayed>>

SetState(p, s) == Publish([config EXCEPT !.state[p] = s])

Lifecycle(p) ==
  /\ "lifecycle" \in Operations
  /\ \A q \in Proxies \ {p} : config.state[q] = "active"

Drain(p) == Lifecycle(p) /\ config.state[p] = "active" /\ SetState(p, "draining")

(* A drained proxy has no connection left; the others are in service. *)
Remove(p) ==
  /\ Lifecycle(p) /\ config.state[p] = "draining"
  /\ \A f \in Flows : conn[f] # p
  /\ \A d \in Directors, q \in Proxies : health[d][q] = "up"
  /\ SetState(p, "inactive")

Fill(p) ==
  /\ Lifecycle(p) /\ config.state[p] \in {"draining", "inactive"}
  /\ SetState(p, "filling")

Ready(p) == Lifecycle(p) /\ config.state[p] = "filling" /\ SetState(p, "active")

(* New hash_fields, the previous ones as alt_hash_fields ... *)
StartMigration ==
  /\ "migrate" \in Operations /\ config.hashing = "old"
  /\ Publish([config EXCEPT !.hashing = "both"])

(* ... and, when the connections from before are gone, without them. *)
EndMigration ==
  /\ config.hashing = "both"
  /\ \A f \in Flows : conn[f] # NoProxy => since[f] = epoch
  /\ Publish([config EXCEPT !.hashing = "new"])

------------------------------------------------------------------------------
(* A director takes the configuration up on its own time, and hears of      *)
(* the proxies' health on its own.  Health changes while no proxy is out.   *)

LoadConfig(d) ==
  /\ version[d] < epoch
  /\ loaded' = [loaded EXCEPT ![d] = config]
  /\ version' = [version EXCEPT ![d] = epoch]
  /\ UNCHANGED <<operVars, health, flowVars, net, strayed>>

HealthChange(d, p, h) ==
  /\ "health" \in Operations /\ health[d][p] # h
  /\ \A q \in Proxies : "inactive" \notin {config.state[q], loaded[d].state[q]}
  /\ health' = [health EXCEPT ![d][p] = h]
  /\ UNCHANGED <<operVars, loaded, version, flowVars, net, strayed>>

------------------------------------------------------------------------------
(* Directors: route and encapsulate.                                        *)

glb_add_packet_route(d, f, h) == Entry(RowOf[f][h], loaded[d].state, health[d])

(* The hops of the hash fields, then those of the alternative hash fields.  *)
glb_calculate_packet_route(d, f) ==
  CASE loaded[d].hashing = "old" -> glb_add_packet_route(d, f, "old")
    [] loaded[d].hashing = "new" -> glb_add_packet_route(d, f, "new")
    [] OTHER -> glb_add_packet_route(d, f, "new")
                \o glb_add_packet_route(d, f, "old")

(* The first hop is the outer destination, the others are the GUE list.     *)
(* Mutant: the first hop stays in the list.                                 *)
glb_encapsulate_packet_AllHops(d, f, k) ==
  LET route == glb_calculate_packet_route(d, f)
  IN [flow |-> f, kind |-> k, epoch |-> version[d], daddr |-> route[1],
      hops |-> route, next_hop |-> 0]
glb_encapsulate_packet(d, f, k) ==
  LET route == glb_calculate_packet_route(d, f)
  IN [flow |-> f, kind |-> k, epoch |-> version[d], daddr |-> route[1],
      hops |-> Tail(route), next_hop |-> 0]

Send(d, f, k) ==
  /\ Cardinality(net) < MaxPackets
  /\ net' = net \cup {glb_encapsulate_packet(d, f, k)}
  /\ UNCHANGED <<operVars, dirVars, flowVars, strayed>>

(* A client opens a connection with a port it has no packets left for. *)
SendSyn(d, f) ==
  /\ conn[f] = NoProxy /\ \A m \in net : m.flow # f
  /\ Send(d, f, "syn")

(* Once it is open, the routers may hand its packets to any director that   *)
(* is not behind the one that routed the SYN.  A Packet Too Big message     *)
(* about the flow is hashed and redirected as one of its packets.           *)
SendTcp(d, f) ==
  /\ conn[f] # NoProxy /\ version[d] >= since[f]
  /\ Send(d, f, "tcp")

------------------------------------------------------------------------------
(* Proxies: handle_inner_tcp_generic.                                       *)

(* is_valid_locally: a socket for the flow, or a good SYN cookie for it. *)
is_valid_locally(m) == conn[m.flow] = m.daddr

(* A hop is left, and it is another host: it is not forwarded to self.      *)
(* Mutant: only one alternate hop is ever tried.                             *)
alt(m) == m.hops[m.next_hop + 1]
HasAlternate_One(m) == m.next_hop < 1 /\ alt(m) # m.daddr
HasAlternate(m) == m.next_hop < Len(m.hops) /\ alt(m) # m.daddr

AcceptSyn(m) ==
  /\ m.kind = "syn"
  /\ conn' = [conn EXCEPT ![m.flow] = m.daddr]
  /\ since' = [since EXCEPT ![m.flow] = m.epoch]
  /\ net' = net \ {m}
  /\ UNCHANGED <<operVars, dirVars, strayed>>

(* Known here, last resort, or its own next hop: the local stack takes it,  *)
(* and resets a connection it does not know.                                *)
AcceptLocally(m) ==
  /\ m.kind # "syn"
  /\ is_valid_locally(m) \/ ~HasAlternate(m)
  /\ strayed' = IF conn[m.flow] \in {NoProxy, m.daddr} THEN strayed
                ELSE strayed \cup {m.flow}
  /\ net' = net \ {m}
  /\ UNCHANGED <<operVars, dirVars, flowVars>>

ForwardToAlternate(m) ==
  /\ m.kind # "syn"
  /\ ~is_valid_locally(m) /\ HasAlternate(m)
  /\ net' = (net \ {m})
            \cup {[m EXCEPT !.next_hop = @ + 1, !.daddr = alt(m)]}
  /\ UNCHANGED <<operVars, dirVars, flowVars, strayed>>

(* External: the connection ends; the network loses a packet. *)
Close(f) ==
  /\ conn[f] # NoProxy
  /\ conn' = [conn EXCEPT ![f] = NoProxy]
  /\ UNCHANGED <<operVars, dirVars, since, net, strayed>>

Lose(m) ==
  /\ net' = net \ {m}
  /\ UNCHANGED <<operVars, dirVars, flowVars, strayed>>

Operator ==
  \/ \E p \in Proxies : Drain(p) \/ Remove(p) \/ Fill(p) \/ Ready(p)
  \/ StartMigration \/ EndMigration

Director(d) ==
  \/ LoadConfig(d)
  \/ \E p \in Proxies, h \in Healths : HealthChange(d, p, h)
  \/ \E f \in Flows : SendSyn(d, f) \/ SendTcp(d, f)

Proxy(m) == AcceptSyn(m) \/ AcceptLocally(m) \/ ForwardToAlternate(m)

Next ==
  \/ Operator
  \/ \E d \in Directors : Director(d)
  \/ \E m \in net : Proxy(m) \/ Lose(m)
  \/ \E f \in Flows : Close(f)

Spec == Init /\ [][Next]_vars

------------------------------------------------------------------------------
Packets == [flow : Flows, kind : {"syn", "tcp"}, epoch : 0..MaxEpoch,
            daddr : Proxies, hops : Seq(Proxies), next_hop : 0..3]

(* Types; a packet carries one alternate hop, or three while the hash       *)
(* fields are being changed, and its index stays within the list.           *)
TypeOK ==
  /\ config \in Configs /\ epoch \in 0..MaxEpoch
  /\ loaded \in [Directors -> Configs]
  /\ version \in [Directors -> 0..MaxEpoch]
  /\ health \in [Directors -> [Proxies -> Healths]]
  /\ conn \in [Flows -> Proxies \cup {NoProxy}]
  /\ since \in [Flows -> 0..MaxEpoch]
  /\ \A m \in net : m \in Packets /\ Len(m.hops) \in {1, 3}
                                  /\ m.next_hop <= Len(m.hops)
  /\ strayed \subseteq Flows

(* Second chance: whatever is drained, removed, filled or thought unhealthy *)
(* while a connection is open, and whichever directors route its packets,   *)
(* no proxy but the one that accepted it ever takes one of them.            *)
NoConnectionBroken == strayed = {}

(* The table entries of every director up to date with a connection name    *)
(* its proxy, so that the redirect chain can reach it.                      *)
OwnerInRoute ==
  \A f \in Flows, d \in Directors :
    conn[f] # NoProxy /\ version[d] >= since[f] =>
      \E i \in 1..Len(glb_calculate_packet_route(d, f)) :
        glb_calculate_packet_route(d, f)[i] = conn[f]

(* Draining: once a drained or removed proxy is so in every director and    *)
(* older packets are gone, it is given no new connection.                   *)
DrainedGetsNoNewFlow ==
  [][\A f \in Flows : conn'[f] \notin {NoProxy, conn[f]} /\ RolledOut =>
       config.state[conn'[f]] \notin {"draining", "inactive"}]_vars

(* The documentation of alt_hash_fields: migration to other hash fields     *)
(* goes on "without breaking running connections".                          *)
MigrationKeepsConnections ==
  (\E d \in Directors : loaded[d].hashing = "both") => strayed = {}

(* A proxy that every director knows to be drained or removed is out of     *)
(* service.                                                                 *)
InService ==
  IF RolledOut THEN {p \in Proxies : config.state[p] \notin {"draining", "inactive"}}
  ELSE Proxies

SB == INSTANCE StickyBalancer
        WITH owner <- conn, inService <- InService, broken <- strayed

(* Builder, directors, network and redirecting proxies together implement   *)
(* the abstract balancer: a SYN never reaches a connection that is open, a  *)
(* proxy out of service gets none, and no packet is taken by another proxy. *)
Balances == SB!Spec

=============================================================================
