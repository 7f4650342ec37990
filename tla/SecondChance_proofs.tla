-------------------------- MODULE SecondChance_proofs --------------------------
(***************************************************************************)
(* Proofs for SecondChance, for any number of proxies, directors and flows *)
(* and any order of the proxies in the rows: first about the rows of the   *)
(* forwarding table, then as long as the hash fields are not being         *)
(* changed, then while they are and all proxies stay active.               *)
(***************************************************************************)
EXTENDS SecondChance, TLAPS

(* Two proxies can be chosen: what the table builder needs in every row. *)
TwoAvailable(state) ==
  \E p, q \in Available(state) : p # q

(* The sort has a first element.  Proved at the end (LowestIs), where the   *)
(* library of well-founded relations comes in.                              *)
LowestFirst ==
  \A r \in Rows : \A S \in SUBSET Proxies : S # {} =>
    /\ Lowest(r, S) \in S
    /\ \A q \in S : Hash[r][Lowest(r, S)] <= Hash[r][q]

(* The two hops of a row: available, distinct, and before all others. *)
LEMMA FirstSecond ==
  ASSUME LowestFirst, NEW r \in Rows, NEW state, TwoAvailable(state)
  PROVE  /\ First(r, state) \in Available(state)
         /\ Second(r, state) \in Available(state)
         /\ First(r, state) # Second(r, state)
         /\ \A q \in Available(state) : Hash[r][First(r, state)] <= Hash[r][q]
         /\ \A q \in Available(state) \ {First(r, state)} :
              Hash[r][Second(r, state)] <= Hash[r][q]
<1>1. Available(state) \in SUBSET Proxies /\ Available(state) # {}
  BY DEF TwoAvailable, Available
<1>2. /\ First(r, state) \in Available(state)
      /\ \A q \in Available(state) : Hash[r][First(r, state)] <= Hash[r][q]
  BY <1>1, Zenon DEF First, LowestFirst
<1>3. /\ Available(state) \ {First(r, state)} \in SUBSET Proxies
      /\ Available(state) \ {First(r, state)} # {}
  BY <1>1 DEF TwoAvailable
<1>4. /\ Second(r, state) \in Available(state) \ {First(r, state)}
      /\ \A q \in Available(state) \ {First(r, state)} :
           Hash[r][Second(r, state)] <= Hash[r][q]
  BY <1>3, Zenon DEF Second, LowestFirst
<1> QED BY <1>2, <1>4

(* Taking one proxy out of the table moves no other out of a row.           *)
LEMMA OthersKept ==
  ASSUME LowestFirst, NEW r \in Rows, NEW before, NEW after, NEW p,
         Available(after) = Available(before) \ {p},
         TwoAvailable(before), TwoAvailable(after)
  PROVE  {First(r, before), Second(r, before)} \ {p}
           \subseteq {First(r, after), Second(r, after)}
<1> DEFINE a == First(r, before)
           b == Second(r, before)
           c == First(r, after)
           d == Second(r, after)
<1>1. /\ a \in Available(before) /\ b \in Available(before) /\ a # b
      /\ \A q \in Available(before) : Hash[r][a] <= Hash[r][q]
      /\ \A q \in Available(before) \ {a} : Hash[r][b] <= Hash[r][q]
  BY FirstSecond
<1>2. /\ c \in Available(after) /\ d \in Available(after) /\ c # d
      /\ \A q \in Available(after) : Hash[r][c] <= Hash[r][q]
      /\ \A q \in Available(after) \ {c} : Hash[r][d] <= Hash[r][q]
  BY FirstSecond
<1>3. /\ \A x \in Available(before) : x \in Proxies /\ Hash[r][x] \in Nat
      /\ \A x, y \in Available(before) : Hash[r][x] = Hash[r][y] => x = y
  BY TableConstants DEF Available
<1> HIDE DEF a, b, c, d
<1>4. a # p => a = c
  <2> SUFFICES ASSUME a # p PROVE a = c
    OBVIOUS
  <2>1. a \in Available(after) /\ c \in Available(before)
    BY <1>1, <1>2
  <2>2. Hash[r][a] <= Hash[r][c] /\ Hash[r][c] <= Hash[r][a]
    BY <2>1, <1>1, <1>2
  <2> QED BY <2>1, <2>2, <1>3
<1>5. b # p => b \in {c, d}
  <2> SUFFICES ASSUME b # p, b # c PROVE b = d
    OBVIOUS
  <2>1. b \in Available(after) \ {c} /\ d \in Available(before) /\ c \in Available(before)
    BY <1>1, <1>2
  <2>2. Hash[r][d] <= Hash[r][b]
    BY <2>1, <1>2
  <2>3. CASE d # a
    <3>1. Hash[r][b] <= Hash[r][d]
      BY <2>1, <2>3, <1>1
    <3> QED BY <3>1, <2>1, <2>2, <1>1, <1>3
  <2>4. CASE d = a
    <3>1. a = c
      BY <2>4, <1>2, <1>4
    <3> QED BY <3>1, <2>4, <1>2
  <2> QED BY <2>3, <2>4
<1> QED BY <1>4, <1>5 DEF a, b, c, d

(* Draining, filling and health never change which two proxies a row holds, *)
(* only their order.                                                        *)
THEOREM HopsOnlyChangePlaces ==
  ASSUME NEW r \in Rows, NEW s1, NEW s2, NEW h1, NEW h2,
         Available(s1) = Available(s2)
  PROVE  Entry(r, s2, h2) \in {Entry(r, s1, h1),
                               <<Entry(r, s1, h1)[2], Entry(r, s1, h1)[1]>>}
<1>1. First(r, s1) = First(r, s2) /\ Second(r, s1) = Second(r, s2)
  BY DEF First, Second
<1> QED BY <1>1 DEF Entry

-------------------------------------------------------------------------------
(* Connections, while the hash fields stay as they are. *)

(* The row of a flow, and the two proxies it holds while all are active. *)
Row(f) == RowOf[f]["old"]
Home(f) == {First(Row(f), AllActive), Second(Row(f), AllActive)}

(* At most one proxy is not active. *)
Single(state) == \E p \in Proxies : \A q \in Proxies \ {p} : state[q] = "active"

(* A director has the published configuration or the one before it.  What   *)
(* is removed was drained, and while a proxy is out the others are healthy. *)
RolloutOf(d) ==
  /\ loaded[d].hashing = "old" /\ Single(loaded[d].state)
  /\ version[d] <= epoch /\ epoch <= version[d] + 1
  /\ version[d] = epoch => loaded[d] = config
  /\ \A p \in Proxies : version[d] < epoch /\ config.state[p] = "inactive"
                        => loaded[d].state[p] = "draining"
  /\ \A p \in Proxies : "inactive" \in {config.state[p], loaded[d].state[p]}
                        => \A q \in Proxies : health[d][q] = "up"
RolloutInv ==
  /\ config.hashing = "old" /\ Single(config.state)
  /\ \A d \in Directors : RolloutOf(d)
  /\ \A d, e \in Directors : version[d] = version[e] => loaded[d] = loaded[e]

(* Proxy p can own flow f from configuration v on. *)
Placed(f, p, v) ==
  /\ p \in Home(f)
  /\ config.state[p] # "inactive"
  /\ \A d \in Directors : version[d] >= v => loaded[d].state[p] # "inactive"

FlowInv == \A f \in Flows : conn[f] # NoProxy => Placed(f, conn[f], since[f])

(* A SYN is alone, bound for a proxy that can own the flow and that was not *)
(* draining; another packet is at its flow's proxy or has it as next hop.   *)
SynInv(m) ==
  /\ Placed(m.flow, m.daddr, m.epoch)
  /\ m.epoch = epoch => config.state[m.daddr] # "draining"
  /\ conn[m.flow] = NoProxy
  /\ \A n \in net : n.flow = m.flow => n = m
TcpInv(m) ==
  \/ conn[m.flow] \in {NoProxy, m.daddr}
  \/ m.next_hop = 0 /\ conn[m.flow] = m.hops[1]
PacketInv ==
  \A m \in net : /\ Len(m.hops) = 1 /\ m.next_hop <= 1 /\ m.hops[1] \in Proxies
                 /\ m.epoch <= epoch
                 /\ IF m.kind = "syn" THEN SynInv(m) ELSE TcpInv(m)

SCInv == TypeOK /\ RolloutInv /\ FlowInv /\ PacketInv /\ NoConnectionBroken

------------------------------------------------------------------------------
(* Rows of a table with at most one proxy not active.                       *)

LEMMA RowType ==
  ASSUME NEW f \in Flows
  PROVE  Row(f) \in Rows
BY SecondChanceConstants DEF Row, HashFields

LEMMA SingleTwo ==
  ASSUME NEW st, Single(st)
  PROVE  TwoAvailable(st)
<1>1. PICK p \in Proxies : \A q \in Proxies \ {p} : st[q] = "active"
  BY DEF Single
<1>2. PICK x \in Proxies : x # p
  BY ThreeProxies
<1>3. PICK y \in Proxies : y # p /\ y # x
  BY ThreeProxies
<1> QED BY <1>1, <1>2, <1>3 DEF TwoAvailable, Available

LEMMA AllActiveSingle == Single(AllActive) /\ Available(AllActive) = Proxies
<1>1. PICK p \in Proxies : TRUE
  BY ThreeProxies
<1> QED BY <1>1 DEF Single, AllActive, Available

(* With one proxy out, all others are available; else all are. *)
LEMMA AvailableIs ==
  ASSUME NEW st, Single(st)
  PROVE  \/ Available(st) = Proxies
         \/ \E x \in Proxies : /\ st[x] = "inactive"
                               /\ Available(st) = Proxies \ {x}
                               /\ \A q \in Proxies \ {x} : st[q] = "active"
<1>1. PICK p \in Proxies : \A q \in Proxies \ {p} : st[q] = "active"
  BY DEF Single
<1>2. CASE st[p] = "inactive"
  BY <1>1, <1>2 DEF Available
<1>3. CASE st[p] # "inactive"
  BY <1>1, <1>3 DEF Available
<1> QED BY <1>2, <1>3

(* A home proxy that is available is in the row. *)
LEMMA HomeKept ==
  ASSUME LowestFirst, NEW st, Single(st), NEW f \in Flows, NEW p \in Home(f),
         p \in Available(st)
  PROVE  p \in {First(Row(f), st), Second(Row(f), st)}
<1>1. TwoAvailable(st) /\ TwoAvailable(AllActive) /\ Row(f) \in Rows
  BY SingleTwo, AllActiveSingle, RowType
<1>2. CASE Available(st) = Proxies
  BY <1>2, AllActiveSingle DEF Home, First, Second
<1>3. CASE \E x \in Proxies : Available(st) = Proxies \ {x}
  <2>1. PICK x \in Proxies : Available(st) = Proxies \ {x}
    BY <1>3
  <2>2. {First(Row(f), AllActive), Second(Row(f), AllActive)} \ {x}
          \subseteq {First(Row(f), st), Second(Row(f), st)}
    BY <1>1, <2>1, AllActiveSingle, OthersKept, Zenon
  <2> QED BY <2>1, <2>2 DEF Home
<1> QED BY <1>2, <1>3, AvailableIs

(* The first of the row is a home proxy; so is the second when none is out. *)
LEMMA FirstIsHome ==
  ASSUME LowestFirst, NEW st, Single(st), NEW f \in Flows
  PROVE  /\ First(Row(f), st) \in Home(f)
         /\ Available(st) = Proxies => Second(Row(f), st) \in Home(f)
<1>1. TwoAvailable(st) /\ TwoAvailable(AllActive) /\ Row(f) \in Rows
  BY SingleTwo, AllActiveSingle, RowType
<1>2. CASE Available(st) = Proxies
  BY <1>2, AllActiveSingle DEF Home, First, Second
<1>3. CASE \E x \in Proxies : Available(st) = Proxies \ {x}
  <2> DEFINE r == Row(f)
             a == First(r, AllActive)
             b == Second(r, AllActive)
             c == First(r, st)
  <2>1. PICK x \in Proxies : Available(st) = Proxies \ {x}
    BY <1>3
  <2>2. /\ a \in Proxies /\ b \in Proxies /\ a # b
        /\ \A q \in Proxies : Hash[r][a] <= Hash[r][q]
        /\ \A q \in Proxies \ {a} : Hash[r][b] <= Hash[r][q]
    BY <1>1, AllActiveSingle, FirstSecond
  <2>3. c \in Available(st) /\ \A q \in Available(st) : Hash[r][c] <= Hash[r][q]
    BY <1>1, FirstSecond
  <2>4. /\ \A q \in Proxies : Hash[r][q] \in Nat
        /\ \A p, q \in Proxies : Hash[r][p] = Hash[r][q] => p = q
    BY <1>1, TableConstants
  <2> HIDE DEF a, b, c, r
  <2>5. CASE a # x
    <3>1. Hash[r][c] <= Hash[r][a] /\ Hash[r][a] <= Hash[r][c]
      BY <2>1, <2>2, <2>3, <2>5
    <3>2. c = a
      BY <3>1, <2>1, <2>2, <2>3, <2>4
    <3> QED BY <3>2, <2>1, <2>5 DEF a, b, c, r, Home
  <2>6. CASE a = x
    <3>1. b \in Available(st) /\ c \in Proxies \ {a}
      BY <2>1, <2>2, <2>3, <2>6
    <3>2. Hash[r][c] <= Hash[r][b] /\ Hash[r][b] <= Hash[r][c]
      BY <2>2, <2>3, <3>1
    <3>3. c = b
      BY <3>1, <3>2, <2>2, <2>4
    <3> QED BY <3>3, <2>1, <2>6 DEF a, b, c, r, Home
  <2> QED BY <2>5, <2>6
<1> QED BY <1>2, <1>3, AvailableIs

(* What the table builder writes: the two hops, a home proxy first that is  *)
(* neither draining nor out.                                                *)
LEMMA EntryIs ==
  ASSUME LowestFirst, NEW st \in [Proxies -> States], Single(st), NEW f \in Flows,
         NEW hl \in [Proxies -> Healths],
         \A p \in Proxies : st[p] = "inactive" => \A q \in Proxies : hl[q] = "up"
  PROVE  \E x, y \in Proxies :
           /\ Entry(Row(f), st, hl) = <<x, y>>
           /\ {x, y} = {First(Row(f), st), Second(Row(f), st)}
           /\ x \in Home(f)
           /\ st[x] \notin {"draining", "inactive"}
<1> DEFINE r == Row(f)
           a == First(r, st)
           b == Second(r, st)
<1>1. /\ a \in Available(st) /\ b \in Available(st) /\ a # b
      /\ a \in Home(f) /\ (Available(st) = Proxies => b \in Home(f))
  BY SingleTwo, FirstSecond, FirstIsHome, RowType
<1>2. a \in Proxies /\ b \in Proxies /\ st[a] # "inactive" /\ st[b] # "inactive"
  BY <1>1 DEF Available
<1>3. Entry(r, st, hl) = IF Swapped(r, st, hl) THEN <<b, a>> ELSE <<a, b>>
  BY DEF Entry
<1>4. Swapped(r, st, hl) <=> PrimaryBad(a, st, hl) /\ StateCode(st[b]) = 1
  BY DEF Swapped, GLB_BACKEND_HEALTH_UP
<1> HIDE DEF a, b, r
<1>5. CASE Swapped(r, st, hl)
  <2>1. st[b] = "active"
    BY <1>2, <1>4, <1>5 DEF StateCode, States
  <2>2. Available(st) = Proxies
    <3>1. SUFFICES ASSUME NEW x \in Proxies, st[x] = "inactive",
                          \A q \in Proxies \ {x} : st[q] = "active"
                   PROVE  FALSE
      BY AvailableIs
    <3>2. st[a] = "active" /\ hl[a] = "up"
      BY <3>1, <1>2
    <3> QED BY <3>2, <1>4, <1>5 DEF PrimaryBad, StateCode, HealthCode,
                                    GLB_BACKEND_HEALTH_UP
  <2>3. Entry(r, st, hl) = <<b, a>>
    BY <1>3, <1>5
  <2> QED BY <2>1, <2>2, <2>3, <1>1, <1>2 DEF a, b, r
<1>6. CASE ~Swapped(r, st, hl)
  <2>1. st[a] # "draining"
    <3>1. SUFFICES ASSUME st[a] = "draining" PROVE FALSE
      OBVIOUS
    <3>2. st[b] = "active"
      BY <3>1, <1>1, <1>2 DEF Single
    <3> QED BY <3>1, <3>2, <1>4, <1>6 DEF PrimaryBad, StateCode
  <2>2. Entry(r, st, hl) = <<a, b>>
    BY <1>3, <1>6
  <2> QED BY <2>1, <2>2, <1>1, <1>2 DEF a, b, r
<1> QED BY <1>5, <1>6

------------------------------------------------------------------------------
(* The steps.                                                               *)

LEMMA InitInv == Init => SCInv
<1> SUFFICES ASSUME Init PROVE SCInv
  OBVIOUS
<1> USE DEF Init
<1>1. AllActive \in [Proxies -> States] /\ \A p \in Proxies : AllActive[p] = "active"
  BY DEF AllActive, States
<1>2. TypeOK
  BY <1>1, SecondChanceConstants DEF TypeOK, Configs, Hashings, Healths
<1>3. RolloutInv
  BY <1>1, AllActiveSingle DEF RolloutInv, RolloutOf
<1> QED BY <1>2, <1>3 DEF SCInv, FlowInv, PacketInv, NoConnectionBroken

(* The hops of a packet: both from the row, a home proxy first. *)
LEMMA RouteIs ==
  ASSUME LowestFirst, SCInv, NEW d \in Directors, NEW f \in Flows
  PROVE  \E x, y \in Proxies :
           /\ glb_calculate_packet_route(d, f) = <<x, y>>
           /\ {x, y} = {First(Row(f), loaded[d].state),
                        Second(Row(f), loaded[d].state)}
           /\ x \in Home(f)
           /\ loaded[d].state[x] \notin {"draining", "inactive"}
<1>1. /\ loaded[d].hashing = "old" /\ Single(loaded[d].state)
      /\ \A p \in Proxies : loaded[d].state[p] = "inactive"
                            => \A q \in Proxies : health[d][q] = "up"
  BY DEF SCInv, RolloutInv, RolloutOf
<1>2. loaded[d].state \in [Proxies -> States] /\ health[d] \in [Proxies -> Healths]
  BY DEF SCInv, TypeOK, Configs
<1>3. glb_calculate_packet_route(d, f) = Entry(Row(f), loaded[d].state, health[d])
  BY <1>1 DEF glb_calculate_packet_route, glb_add_packet_route, Row
<1> DEFINE st == loaded[d].state
           hl == health[d]
<1>4. \E x, y \in Proxies :
        /\ Entry(Row(f), st, hl) = <<x, y>>
        /\ {x, y} = {First(Row(f), st), Second(Row(f), st)}
        /\ x \in Home(f)
        /\ st[x] \notin {"draining", "inactive"}
  <2>1. /\ st \in [Proxies -> States] /\ Single(st) /\ hl \in [Proxies -> Healths]
        /\ \A p \in Proxies : st[p] = "inactive" => \A q \in Proxies : hl[q] = "up"
    BY <1>1, <1>2
  <2> HIDE DEF st, hl
  <2> QED BY <2>1, EntryIs
<1> QED BY <1>3, <1>4

(* A packet as it is sent. *)
PacketOf(f, k, v, x, hops) ==
  [flow |-> f, kind |-> k, epoch |-> v, daddr |-> x, hops |-> hops, next_hop |-> 0]
SentAs(new, f, k, v, x, hops) ==
  /\ new = PacketOf(f, k, v, x, hops)
  /\ new.flow = f /\ new.kind = k /\ new.epoch = v /\ new.daddr = x
  /\ new.hops = hops /\ new.next_hop = 0
  /\ Len(new.hops) \in {1, 3} /\ new.next_hop <= Len(new.hops)
  /\ new.kind \in {"syn", "tcp"}

(* A row with the owner: every up-to-date director reaches the owner. *)
LEMMA OwnerReached ==
  ASSUME LowestFirst, SCInv
  PROVE  OwnerInRoute
<1> SUFFICES ASSUME NEW f \in Flows, NEW d \in Directors,
                    conn[f] # NoProxy, version[d] >= since[f]
             PROVE  \E i \in 1..Len(glb_calculate_packet_route(d, f)) :
                      glb_calculate_packet_route(d, f)[i] = conn[f]
  BY DEF OwnerInRoute
<1>1. conn[f] \in Home(f) /\ loaded[d].state[conn[f]] # "inactive"
  BY DEF SCInv, FlowInv, Placed
<1>2. conn[f] \in Proxies /\ Single(loaded[d].state)
  BY DEF SCInv, TypeOK, RolloutInv, RolloutOf
<1>3. conn[f] \in {First(Row(f), loaded[d].state), Second(Row(f), loaded[d].state)}
  BY <1>1, <1>2, HomeKept DEF Available
<1>4. PICK x, y \in Proxies :
        /\ glb_calculate_packet_route(d, f) = <<x, y>>
        /\ {x, y} = {First(Row(f), loaded[d].state), Second(Row(f), loaded[d].state)}
  BY RouteIs
<1>5. conn[f] = x \/ conn[f] = y
  BY <1>3, <1>4
<1>6. Len(<<x, y>>) = 2 /\ <<x, y>>[1] = x /\ <<x, y>>[2] = y
  OBVIOUS
<1>7. 1 \in 1..2 /\ 2 \in 1..2
  OBVIOUS
<1> QED BY <1>4, <1>5, <1>6, <1>7

(* A new configuration that removes at most a drained, unused proxy. *)
LEMMA PublishStep ==
  ASSUME SCInv, NEW c \in Configs, Publish(c), c.hashing = "old", Single(c.state),
         \A p \in Proxies : c.state[p] = "inactive" =>
            /\ config.state[p] = "draining"
            /\ \A f \in Flows : conn[f] # p
            /\ \A d \in Directors, q \in Proxies : health[d][q] = "up"
  PROVE  SCInv'
<1> USE DEF Publish
<1>1. TypeOK' /\ NoConnectionBroken'
  BY SecondChanceConstants DEF SCInv, TypeOK, dirVars, flowVars, NoConnectionBroken
<1>2. epoch \in Nat /\ \A d \in Directors : version[d] = epoch /\ version[d] \in Nat
  BY SecondChanceConstants DEF SCInv, TypeOK, RolledOut
<1>3. RolloutInv'
  <2>1. ASSUME NEW d \in Directors PROVE RolloutOf(d)'
    <3>1. loaded[d] = config /\ RolloutOf(d)
      BY <1>2 DEF SCInv, RolloutInv, RolloutOf
    <3> QED BY <3>1, <1>2 DEF RolloutOf, dirVars
  <2> QED BY <2>1 DEF SCInv, RolloutInv, dirVars
<1>4. ASSUME NEW f, NEW p \in Proxies, NEW v, Placed(f, p, v), c.state[p] # "inactive"
      PROVE  Placed(f, p, v)'
  BY <1>4 DEF Placed, dirVars
<1>5. FlowInv'
  <2> SUFFICES ASSUME NEW f \in Flows, conn[f] # NoProxy
               PROVE  Placed(f, conn[f], since[f])'
    BY DEF FlowInv, flowVars
  <2>1. conn[f] \in Proxies /\ Placed(f, conn[f], since[f])
    BY DEF SCInv, TypeOK, FlowInv
  <2>2. c.state[conn[f]] # "inactive"
    BY <2>1
  <2> QED BY <2>1, <2>2 DEF Placed, dirVars, flowVars
<1>6. PacketInv'
  <2> SUFFICES ASSUME NEW m \in net
               PROVE  (/\ Len(m.hops) = 1 /\ m.next_hop <= 1 /\ m.hops[1] \in Proxies
                       /\ m.epoch <= epoch
                       /\ IF m.kind = "syn" THEN SynInv(m) ELSE TcpInv(m))'
    BY DEF PacketInv
  <2>1. /\ Len(m.hops) = 1 /\ m.next_hop <= 1 /\ m.hops[1] \in Proxies
        /\ m.epoch = epoch /\ m.daddr \in Proxies
        /\ IF m.kind = "syn" THEN SynInv(m) ELSE TcpInv(m)
    BY DEF SCInv, TypeOK, Packets, PacketInv, RolledOut
  <2>2. ASSUME SynInv(m) PROVE SynInv(m)'
    <3>1. c.state[m.daddr] # "inactive"
      BY <2>1, <2>2, Zenon DEF SynInv
    <3>2. Placed(m.flow, m.daddr, m.epoch)'
      BY <2>1, <2>2, <3>1 DEF SynInv, Placed, dirVars
    <3> QED BY <2>1, <2>2, <3>2, <1>2 DEF SynInv, flowVars
  <2>3. ASSUME TcpInv(m) PROVE TcpInv(m)'
    BY <2>3 DEF TcpInv, flowVars
  <2> QED BY <2>1, <2>2, <2>3, <1>2
<1> QED BY <1>1, <1>3, <1>5, <1>6 DEF SCInv

(* A director takes up the published configuration. *)
LEMMA LoadConfigStep ==
  ASSUME SCInv, NEW d \in Directors, LoadConfig(d)
  PROVE  SCInv'
<1> USE DEF LoadConfig
<1>1. TypeOK' /\ NoConnectionBroken'
  BY DEF SCInv, TypeOK, operVars, flowVars, NoConnectionBroken
<1>2. /\ \A e \in Directors : version[e] \in Nat
      /\ \A e \in Directors \ {d} : loaded'[e] = loaded[e] /\ version'[e] = version[e]
      /\ epoch \in Nat /\ loaded'[d] = config /\ version'[d] = epoch
  <2>1. /\ loaded \in [Directors -> Configs] /\ version \in [Directors -> 0..MaxEpoch]
        /\ epoch \in 0..MaxEpoch /\ MaxEpoch \in Nat
    BY SecondChanceConstants DEF SCInv, TypeOK
  <2> QED BY <2>1
<1>3. RolloutInv'
  <2>1. ASSUME NEW e \in Directors PROVE RolloutOf(e)'
    <3>1. RolloutOf(e) /\ config.hashing = "old" /\ Single(config.state)
      BY DEF SCInv, RolloutInv
    <3>2. CASE e = d
      <4>1. ASSUME NEW p \in Proxies, config.state[p] = "inactive"
            PROVE  \A q \in Proxies : health[d][q] = "up"
        BY <3>1, <3>2, <4>1 DEF RolloutOf
      <4> QED BY <3>1, <3>2, <4>1, <1>2 DEF RolloutOf, operVars
    <3>3. CASE e # d
      BY <3>1, <3>3, <1>2 DEF RolloutOf, operVars
    <3> QED BY <3>2, <3>3
  <2>2. ASSUME NEW e \in Directors, NEW g \in Directors, version'[e] = version'[g]
        PROVE  loaded'[e] = loaded'[g]
    <3>1. /\ version[e] = epoch => loaded[e] = config
          /\ version[g] = epoch => loaded[g] = config
          /\ version[e] = version[g] => loaded[e] = loaded[g]
      BY DEF SCInv, RolloutInv, RolloutOf
    <3> QED BY <2>2, <3>1, <1>2
  <2> QED BY <2>1, <2>2 DEF SCInv, RolloutInv, operVars
<1>4. ASSUME NEW f, NEW p, NEW v, Placed(f, p, v)
      PROVE  /\ p \in Home(f) /\ config.state[p] # "inactive"
             /\ \A e \in Directors : version'[e] >= v => loaded'[e].state[p] # "inactive"
  BY <1>2, <1>4, Zenon DEF Placed
<1>5. FlowInv'
  BY <1>4 DEF SCInv, FlowInv, Placed, operVars, flowVars
<1>6. PacketInv'
  <2>1. ASSUME NEW m \in net, SynInv(m) PROVE SynInv(m)'
    BY <2>1, <1>4 DEF SynInv, Placed, operVars, flowVars
  <2>2. ASSUME NEW m \in net, TcpInv(m) PROVE TcpInv(m)'
    BY <2>2 DEF TcpInv, flowVars
  <2> QED BY <2>1, <2>2, Zenon DEF SCInv, PacketInv, operVars
<1> QED BY <1>1, <1>3, <1>5, <1>6 DEF SCInv

(* A director's view of the health changes, while no proxy is out. *)
LEMMA HealthStep ==
  ASSUME SCInv, NEW d \in Directors, NEW p \in Proxies, NEW h \in Healths,
         HealthChange(d, p, h)
  PROVE  SCInv'
<1> USE DEF HealthChange
<1>1. TypeOK' /\ NoConnectionBroken'
  BY DEF SCInv, TypeOK, operVars, flowVars, NoConnectionBroken
<1>2. RolloutInv'
  <2>1. ASSUME NEW e \in Directors PROVE RolloutOf(e)'
    <3>1. RolloutOf(e)
      BY Zenon DEF SCInv, RolloutInv
    <3>2. e # d => health'[e] = health[e]
      BY DEF SCInv, TypeOK
    <3> QED BY <3>1, <3>2 DEF RolloutOf, operVars
  <2> QED BY <2>1 DEF SCInv, RolloutInv, operVars
<1>3. FlowInv'
  BY DEF SCInv, FlowInv, Placed, operVars, flowVars
<1>4. PacketInv'
  BY DEF SCInv, PacketInv, SynInv, TcpInv, Placed, operVars, flowVars
<1> QED BY <1>1, <1>2, <1>3, <1>4 DEF SCInv

(* Steps that leave operator and directors alone. *)
LEMMA SameRollout ==
  ASSUME SCInv, UNCHANGED <<operVars, dirVars>>
  PROVE  /\ RolloutInv'
         /\ config' = config /\ epoch' = epoch /\ loaded' = loaded
         /\ version' = version /\ health' = health
         /\ \A f, p, v : Placed(f, p, v) => Placed(f, p, v)'
BY SMTT(30) DEF SCInv, RolloutInv, RolloutOf, Placed, operVars, dirVars

(* A packet with one or three alternate hops. *)
LEMMA PacketType ==
  ASSUME NEW f \in Flows, NEW k, k \in {"syn", "tcp"}, NEW v, v \in 0..MaxEpoch,
         NEW x \in Proxies, NEW hops \in Seq(Proxies), NEW n \in {1, 3}, Len(hops) = n
  PROVE  \E new \in Packets : SentAs(new, f, k, v, x, hops)
<1>1. PICK new : new = PacketOf(f, k, v, x, hops)
  BY Zenon
<1>2. new \in Packets
  BY <1>1 DEF Packets, PacketOf
<1>3. /\ new.flow = f /\ new.kind = k /\ new.epoch = v /\ new.daddr = x
      /\ new.hops = hops /\ new.next_hop = 0
  BY <1>1 DEF PacketOf
<1>4. 0 <= n
  OBVIOUS
<1> QED BY <1>1, <1>2, <1>3, <1>4, Zenon DEF SentAs

(* What a packet of a flow must be like to be sent. *)
Sound(f, k, v, x, y) ==
  /\ \A m \in net : m.kind = "syn" => m.flow # f
  /\ k = "syn" => /\ Placed(f, x, v)
                  /\ v = epoch => config.state[x] # "draining"
                  /\ conn[f] = NoProxy /\ \A m \in net : m.flow # f
  /\ k # "syn" => conn[f] \in {x, y}

(* A packet of the right shape joins: it must be good itself, and leave     *)
(* every SYN alone in its flow.                                             *)
LEMMA JoinStep ==
  ASSUME SCInv, NEW new \in Packets, net' = net \cup {new},
         UNCHANGED <<operVars, dirVars, flowVars, strayed>>,
         Len(new.hops) = 1, new.next_hop = 0, new.hops[1] \in Proxies,
         new.epoch <= epoch,
         Sound(new.flow, new.kind, new.epoch, new.daddr, new.hops[1])
  PROVE  SCInv'
<1>1. RolloutInv' /\ \A f, p, v : Placed(f, p, v) => Placed(f, p, v)'
  BY SameRollout, Zenon
<1>2. /\ config' = config /\ epoch' = epoch /\ loaded' = loaded /\ version' = version
      /\ health' = health /\ conn' = conn /\ since' = since /\ strayed' = strayed
  BY Zenon DEF operVars, dirVars, flowVars
<1>3. TypeOK' /\ NoConnectionBroken'
  <2>1. \A m \in net : m \in Packets /\ Len(m.hops) \in {1, 3} /\ m.next_hop <= Len(m.hops)
    BY Zenon DEF SCInv, TypeOK
  <2>2. Len(new.hops) \in {1, 3} /\ new.next_hop <= Len(new.hops)
    OBVIOUS
  <2>3. \A m \in net' : m \in Packets /\ Len(m.hops) \in {1, 3} /\ m.next_hop <= Len(m.hops)
    BY <2>1, <2>2, Zenon
  <2> QED BY <1>2, <2>3, Zenon DEF SCInv, TypeOK, NoConnectionBroken
<1>4. FlowInv'
  BY <1>1, <1>2, Zenon DEF SCInv, FlowInv
<1>5. ASSUME NEW m \in net
      PROVE  (/\ Len(m.hops) = 1 /\ m.next_hop <= 1 /\ m.hops[1] \in Proxies
              /\ m.epoch <= epoch
              /\ IF m.kind = "syn" THEN SynInv(m) ELSE TcpInv(m))'
  <2>1. /\ Len(m.hops) = 1 /\ m.next_hop <= 1 /\ m.hops[1] \in Proxies
        /\ m.epoch <= epoch
        /\ IF m.kind = "syn" THEN SynInv(m) ELSE TcpInv(m)
    BY Zenon DEF SCInv, PacketInv
  <2>2. ASSUME m.kind = "syn" PROVE SynInv(m)'
    <3>1. \A n \in net' : n.flow = m.flow => n = m
      BY <2>1, <2>2, Zenon DEF SynInv, Sound
    <3> QED BY <2>1, <2>2, <3>1, <1>1, <1>2, Zenon DEF SynInv
  <2>3. ASSUME m.kind # "syn" PROVE TcpInv(m)'
    BY <2>1, <2>3, <1>2, Zenon DEF TcpInv
  <2> QED BY <2>1, <2>2, <2>3, <1>2, Zenon
<1>6. (/\ Len(new.hops) = 1 /\ new.next_hop <= 1 /\ new.hops[1] \in Proxies
       /\ new.epoch <= epoch
       /\ IF new.kind = "syn" THEN SynInv(new) ELSE TcpInv(new))'
  <2>1. new.next_hop <= 1
    OBVIOUS
  <2>2. ASSUME new.kind = "syn" PROVE SynInv(new)'
    BY <2>2, <1>1, <1>2, Zenon DEF SynInv, Sound
  <2>3. ASSUME new.kind # "syn" PROVE TcpInv(new)'
    BY <2>3, <1>2, Zenon DEF TcpInv, Sound
  <2> QED BY <2>1, <2>2, <2>3, <1>2, Zenon
<1>7. PacketInv'
  BY <1>5, <1>6, Zenon DEF PacketInv
<1> QED BY <1>1, <1>3, <1>4, <1>7, Zenon DEF SCInv

(* What a director sends has the two hops of its route. *)
LEMMA SendStep ==
  ASSUME SCInv, NEW d \in Directors, NEW f \in Flows, NEW k \in {"syn", "tcp"},
         NEW x \in Proxies, NEW y \in Proxies,
         glb_calculate_packet_route(d, f) = <<x, y>>, Send(d, f, k),
         Sound(f, k, version[d], x, y)
  PROVE  SCInv'
<1>1. version[d] \in 0..MaxEpoch /\ version[d] <= epoch
  <2>1. version \in [Directors -> 0..MaxEpoch] /\ RolloutOf(d)
    BY Zenon DEF SCInv, TypeOK, RolloutInv
  <2> QED BY <2>1, Zenon DEF RolloutOf
<1>0. <<y>> \in Seq(Proxies)
  OBVIOUS
<1>a. PICK hops \in Seq(Proxies) : hops = <<y>>
  BY <1>0, Zenon
<1>b. Len(hops) = 1 /\ hops[1] = y
  BY <1>a
<1>2. PICK new \in Packets : SentAs(new, f, k, version[d], x, hops)
  BY <1>1, <1>b, PacketType, Zenon
<1>c. <<x, y>>[1] = x /\ Tail(<<x, y>>) = hops
  BY <1>a
<1>3. glb_encapsulate_packet(d, f, k) = new
  BY <1>2, <1>c, Zenon DEF glb_encapsulate_packet, PacketOf, SentAs
<1>4. net' = net \cup {new} /\ UNCHANGED <<operVars, dirVars, flowVars, strayed>>
  BY <1>3, Zenon DEF Send
<1>5. /\ Len(new.hops) = 1 /\ new.next_hop = 0 /\ new.hops[1] \in Proxies
      /\ new.epoch <= epoch
      /\ Sound(new.flow, new.kind, new.epoch, new.daddr, new.hops[1])
  BY <1>1, <1>2, <1>b, Zenon DEF SentAs
<1> QED BY <1>4, <1>5, JoinStep, Zenon

(* A SYN goes to a proxy that no director up to date with it has out. *)
LEMMA SynStep ==
  ASSUME LowestFirst, SCInv, NEW d \in Directors, NEW f \in Flows, SendSyn(d, f)
  PROVE  SCInv'
<1>1. PICK x, y \in Proxies :
        /\ glb_calculate_packet_route(d, f) = <<x, y>>
        /\ x \in Home(f)
        /\ loaded[d].state[x] \notin {"draining", "inactive"}
  BY RouteIs
<1>2. /\ \A e \in Directors : RolloutOf(e) /\ version[e] \in Nat
      /\ \A e \in Directors : version[d] = version[e] => loaded[d] = loaded[e]
      /\ epoch \in Nat
  BY SecondChanceConstants DEF SCInv, TypeOK, RolloutInv
<1>3. config.state[x] # "inactive" /\ (version[d] = epoch => config.state[x] # "draining")
  BY <1>1, <1>2, SMTT(30) DEF RolloutOf
<1>4. ASSUME NEW e \in Directors, version[e] >= version[d]
      PROVE  loaded[e].state[x] # "inactive"
  <2>1. version[e] = version[d] \/ version[e] = epoch
    BY <1>2, <1>4, SMTT(30) DEF RolloutOf
  <2>2. version[e] = epoch => loaded[e] = config
    BY <1>2 DEF RolloutOf
  <2> QED BY <2>1, <2>2, <1>1, <1>2, <1>3
<1>5. Placed(f, x, version[d])
  BY <1>1, <1>3, <1>4, SMTT(30) DEF Placed
<1>6. Sound(f, "syn", version[d], x, y) /\ Send(d, f, "syn")
  BY <1>3, <1>5 DEF SendSyn, Sound
<1> QED BY <1>1, <1>6, SendStep, Zenon

(* Any other packet of a flow has its proxy among its hops. *)
LEMMA TcpStep ==
  ASSUME LowestFirst, SCInv, NEW d \in Directors, NEW f \in Flows, SendTcp(d, f)
  PROVE  SCInv'
<1>1. PICK x, y \in Proxies :
        /\ glb_calculate_packet_route(d, f) = <<x, y>>
        /\ {x, y} = {First(Row(f), loaded[d].state), Second(Row(f), loaded[d].state)}
  BY RouteIs, ZenonT(30)
<1>2. /\ conn[f] \in Home(f) /\ conn[f] \in Available(loaded[d].state)
      /\ Single(loaded[d].state)
  BY SMTT(30) DEF SendTcp, SCInv, TypeOK, FlowInv, Placed, RolloutInv, RolloutOf, Available
<1>3. conn[f] \in {x, y}
  BY <1>1, <1>2, HomeKept, ZenonT(30)
<1>4. \A m \in net : m.kind = "syn" => m.flow # f
  BY DEF SCInv, PacketInv, SynInv, SendTcp
<1>5. Sound(f, "tcp", version[d], x, y) /\ Send(d, f, "tcp")
  BY <1>3, <1>4 DEF SendTcp, Sound
<1> QED BY <1>1, <1>5, SendStep, Zenon

(* What the invariant says of one packet. *)
LEMMA GoodPacket ==
  ASSUME SCInv, NEW m \in net
  PROVE  /\ m \in Packets /\ Len(m.hops) = 1 /\ m.next_hop \in {0, 1}
         /\ m.hops[1] \in Proxies /\ m.epoch <= epoch
         /\ m.kind = "syn" => SynInv(m)
         /\ m.kind # "syn" => m.kind = "tcp" /\ TcpInv(m)
<1>1. m \in Packets
  BY DEF SCInv, TypeOK
<1>2. m.next_hop \in 0..3 /\ m.kind \in {"syn", "tcp"}
  BY <1>1 DEF Packets
<1> QED BY <1>1, <1>2 DEF SCInv, PacketInv

(* The proxy opens the connection the SYN asks for. *)
LEMMA AcceptSynStep ==
  ASSUME SCInv, NEW m \in net, AcceptSyn(m)
  PROVE  SCInv'
<1> USE DEF AcceptSyn
<1>1. /\ RolloutInv' /\ config' = config /\ epoch' = epoch /\ loaded' = loaded
      /\ version' = version /\ health' = health
  BY SameRollout
<1>2. /\ m.flow \in Flows /\ m.daddr \in Proxies /\ m.epoch \in 0..MaxEpoch
      /\ SynInv(m)
  BY GoodPacket DEF Packets
<1>3. /\ conn'[m.flow] = m.daddr /\ since'[m.flow] = m.epoch
      /\ \A f \in Flows \ {m.flow} : conn'[f] = conn[f] /\ since'[f] = since[f]
  BY <1>2 DEF SCInv, TypeOK
<1>4. TypeOK' /\ NoConnectionBroken'
  BY <1>1, <1>2 DEF SCInv, TypeOK, NoConnectionBroken
<1>5. FlowInv'
  <2> SUFFICES ASSUME NEW f \in Flows, conn'[f] # NoProxy
               PROVE  Placed(f, conn[f], since[f])'
    BY Zenon DEF FlowInv
  <2>1. CASE f = m.flow
    BY <2>1, <1>1, <1>2, <1>3, SMTT(30) DEF SynInv, Placed
  <2>2. CASE f # m.flow
    BY <2>2, <1>1, <1>3 DEF SCInv, FlowInv, Placed
  <2> QED BY <2>1, <2>2
<1>6. PacketInv'
  <2> SUFFICES ASSUME NEW n \in net, n # m
               PROVE  (/\ Len(n.hops) = 1 /\ n.next_hop <= 1 /\ n.hops[1] \in Proxies
                       /\ n.epoch <= epoch
                       /\ IF n.kind = "syn" THEN SynInv(n) ELSE TcpInv(n))'
    BY Zenon DEF PacketInv
  <2>1. n.flow \in Flows /\ n.flow # m.flow
    BY <1>2, GoodPacket DEF Packets, SynInv
  <2>2. conn'[n.flow] = conn[n.flow]
    BY <2>1, <1>3, Zenon
  <2>3. n.kind = "syn" => SynInv(n)'
    BY <2>2, <1>1, GoodPacket, Zenon DEF SynInv, Placed
  <2>4. n.kind # "syn" => TcpInv(n)'
    BY <2>2, GoodPacket DEF TcpInv
  <2> QED BY <2>3, <2>4, <1>1, GoodPacket
<1> QED BY <1>1, <1>4, <1>5, <1>6 DEF SCInv

(* Fewer packets, and connections closed at most. *)
LEMMA FewerStep ==
  ASSUME SCInv, UNCHANGED <<operVars, dirVars, since>>, net' \subseteq net,
         strayed' = {}, conn' \in [Flows -> Proxies \cup {NoProxy}],
         \A f \in Flows : conn'[f] \in {conn[f], NoProxy}
  PROVE  SCInv'
<1>1. /\ RolloutInv' /\ config' = config /\ epoch' = epoch /\ loaded' = loaded
      /\ version' = version /\ health' = health
  BY SameRollout
<1>2. TypeOK' /\ NoConnectionBroken'
  BY <1>1, SMTT(30) DEF SCInv, TypeOK, NoConnectionBroken
<1>3. FlowInv'
  BY <1>1, Zenon DEF SCInv, FlowInv, Placed
<1>4. PacketInv'
  <2> SUFFICES ASSUME NEW n \in net, n \in net'
               PROVE  (/\ Len(n.hops) = 1 /\ n.next_hop <= 1 /\ n.hops[1] \in Proxies
                       /\ n.epoch <= epoch
                       /\ IF n.kind = "syn" THEN SynInv(n) ELSE TcpInv(n))'
    BY DEF PacketInv
  <2>1. n.flow \in Flows
    BY GoodPacket, Zenon DEF Packets
  <2>2. n.kind = "syn" => SynInv(n)'
    BY <2>1, <1>1, GoodPacket, Zenon DEF SynInv, Placed
  <2>3. n.kind # "syn" => TcpInv(n)'
    BY <2>1, GoodPacket, Zenon DEF TcpInv
  <2> QED BY <2>2, <2>3, <1>1, GoodPacket
<1> QED BY <1>1, <1>2, <1>3, <1>4 DEF SCInv

(* Only the connection's own proxy, or one for a closed one, takes it. *)
LEMMA AcceptLocallyStep ==
  ASSUME SCInv, NEW m \in net, AcceptLocally(m)
  PROVE  SCInv'
<1> USE DEF AcceptLocally
<1>1. Len(m.hops) = 1 /\ m.next_hop \in {0, 1} /\ TcpInv(m)
  BY GoodPacket
<1>2. conn[m.flow] \in {NoProxy, m.daddr}
  <2>1. SUFFICES ASSUME m.next_hop = 0, conn[m.flow] = m.hops[1], conn[m.flow] # m.daddr
                 PROVE  FALSE
    BY <1>1 DEF TcpInv
  <2> QED BY <2>1, <1>1 DEF is_valid_locally, HasAlternate, alt
<1>3. strayed' = {} /\ conn' = conn
  BY <1>2 DEF SCInv, NoConnectionBroken, flowVars
<1> QED BY <1>3, FewerStep, Zenon DEF SCInv, TypeOK, flowVars

LEMMA CloseLoseStep ==
  ASSUME SCInv, (\E f \in Flows : Close(f)) \/ (\E m \in net : Lose(m))
  PROVE  SCInv'
<1>1. ASSUME NEW f \in Flows, Close(f) PROVE SCInv'
  <2>1. conn' \in [Flows -> Proxies \cup {NoProxy}]
        /\ \A g \in Flows : conn'[g] \in {conn[g], NoProxy}
    BY <1>1, Zenon DEF Close, SCInv, TypeOK
  <2> QED BY <1>1, <2>1, FewerStep DEF Close, SCInv, NoConnectionBroken
<1>2. ASSUME NEW m \in net, Lose(m) PROVE SCInv'
  BY <1>2, FewerStep DEF Lose, SCInv, TypeOK, NoConnectionBroken, flowVars
<1> QED BY <1>1, <1>2

(* The second chance: the next hop is the connection's proxy. *)
LEMMA ForwardStep ==
  ASSUME SCInv, NEW m \in net, ForwardToAlternate(m)
  PROVE  SCInv'
<1> USE DEF ForwardToAlternate
<1>1. /\ RolloutInv' /\ config' = config /\ epoch' = epoch /\ loaded' = loaded
      /\ version' = version /\ health' = health
  BY SameRollout
<1>2. /\ m \in Packets /\ m.kind = "tcp" /\ TcpInv(m) /\ Len(m.hops) = 1
      /\ m.next_hop \in {0, 1} /\ m.hops[1] \in Proxies /\ m.epoch <= epoch
  BY GoodPacket
<1>3. m.next_hop = 0 /\ alt(m) = m.hops[1] /\ conn[m.flow] # m.daddr
  BY <1>2 DEF HasAlternate, alt, is_valid_locally
<1>4. PICK new : new = [m EXCEPT !.next_hop = @ + 1, !.daddr = alt(m)]
  OBVIOUS
<1>5. /\ new \in Packets /\ new.flow = m.flow /\ new.kind = "tcp"
      /\ new.epoch = m.epoch /\ new.hops = m.hops /\ new.next_hop = 1
      /\ new.daddr = m.hops[1]
  <2>1. PICK a : a = m.hops[1] /\ a = alt(m) /\ a \in Proxies
    BY <1>2, <1>3
  <2>2. new = [m EXCEPT !.next_hop = 1, !.daddr = a]
    BY <2>1, <1>2, <1>3, <1>4 DEF Packets
  <2>3. 1 \in 0..3
    OBVIOUS
  <2> QED BY <2>1, <2>2, <2>3, <1>2, ZenonT(30) DEF Packets
<1>6. net' = (net \ {m}) \cup {new} /\ conn' = conn /\ since' = since
  BY <1>4 DEF flowVars
<1>7. TypeOK' /\ NoConnectionBroken'
  <2>1. \A n \in net' : n \in Packets /\ Len(n.hops) \in {1, 3} /\ n.next_hop <= Len(n.hops)
    BY <1>2, <1>5, <1>6 DEF SCInv, TypeOK
  <2> QED BY <1>1, <1>6, <2>1 DEF SCInv, TypeOK, NoConnectionBroken
<1>8. FlowInv'
  BY <1>1, <1>6 DEF SCInv, FlowInv, Placed
<1>9. PacketInv'
  <2>1. ASSUME NEW n \in net
        PROVE  (/\ Len(n.hops) = 1 /\ n.next_hop <= 1 /\ n.hops[1] \in Proxies
                /\ n.epoch <= epoch
                /\ IF n.kind = "syn" THEN SynInv(n) ELSE TcpInv(n))'
    <3>1. n.kind = "syn" => SynInv(n)'
      <4> SUFFICES ASSUME n.kind = "syn" PROVE SynInv(n)'
        OBVIOUS
      <4>1. SynInv(n) /\ n # m
        BY <1>2, GoodPacket
      <4>2. m.flow # n.flow
        BY <4>1 DEF SynInv
      <4> QED BY <4>1, <4>2, <1>1, <1>5, <1>6 DEF SynInv, Placed
    <3>2. n.kind # "syn" => TcpInv(n)'
      BY <1>6, GoodPacket DEF TcpInv
    <3> QED BY <3>1, <3>2, <1>1, GoodPacket
  <2>2. TcpInv(new)'
    BY <1>2, <1>3, <1>5, <1>6, SMTT(30) DEF TcpInv
  <2> QED BY <2>1, <2>2, <1>1, <1>2, <1>5, <1>6 DEF PacketInv
<1> QED BY <1>1, <1>7, <1>8, <1>9 DEF SCInv

(* What the operator publishes: one proxy's state changes. *)
LEMMA SetStateStep ==
  ASSUME SCInv, NEW p \in Proxies, NEW s \in States, Lifecycle(p), SetState(p, s),
         s = "inactive" => /\ config.state[p] = "draining"
                           /\ \A f \in Flows : conn[f] # p
                           /\ \A d \in Directors, q \in Proxies : health[d][q] = "up"
  PROVE  SCInv'
<1>1. PICK c : c = [config EXCEPT !.state[p] = s]
  BY ZenonT(30)
<1>2. config \in Configs /\ config.hashing = "old"
  BY DEF SCInv, TypeOK, RolloutInv
<1>3. /\ c \in Configs /\ c.hashing = "old" /\ c.state[p] = s
      /\ \A q \in Proxies \ {p} : c.state[q] = config.state[q]
  BY <1>1, <1>2 DEF Configs
<1>4. \A q \in Proxies \ {p} : c.state[q] = "active"
  BY <1>3, ZenonT(30) DEF Lifecycle
<1>5. Single(c.state)
  BY <1>4 DEF Single
<1>6. Publish(c)
  BY <1>1 DEF SetState
<1> QED BY <1>3, <1>4, <1>5, <1>6, PublishStep, ZenonT(30)

LEMMA NextStep ==
  ASSUME LowestFirst, "migrate" \notin Operations, SCInv, [Next]_vars
  PROVE  SCInv'
<1>1. ASSUME NEW p \in Proxies, Drain(p) \/ Remove(p) \/ Fill(p) \/ Ready(p)
      PROVE  SCInv'
  <2>1. CASE Drain(p)
    BY <2>1, SetStateStep DEF Drain, States
  <2>2. CASE Remove(p)
    BY <2>2, SetStateStep DEF Remove, States
  <2>3. CASE Fill(p)
    BY <2>3, SetStateStep DEF Fill, States
  <2>4. CASE Ready(p)
    BY <2>4, SetStateStep DEF Ready, States
  <2> QED BY <1>1, <2>1, <2>2, <2>3, <2>4
<1>2. ~StartMigration /\ ~EndMigration
  BY DEF StartMigration, EndMigration, SCInv, RolloutInv
<1>3. ASSUME NEW d \in Directors, Director(d) PROVE SCInv'
  BY <1>3, LoadConfigStep, HealthStep, SynStep, TcpStep DEF Director
<1>4. ASSUME NEW m \in net, Proxy(m) PROVE SCInv'
  BY <1>4, AcceptSynStep, AcceptLocallyStep, ForwardStep, ZenonT(30) DEF Proxy
<1>5. CASE UNCHANGED vars
  <2>1. UNCHANGED <<operVars, dirVars, flowVars, net, strayed>>
    BY <1>5 DEF vars
  <2> QED BY <2>1, FewerStep DEF SCInv, TypeOK, NoConnectionBroken, flowVars
<1> QED BY <1>1, <1>2, <1>3, <1>4, <1>5, CloseLoseStep DEF Next, Operator

------------------------------------------------------------------------------
(* Steps of the balancer.                                                   *)

(* Connections are opened by a SYN and closed; no other step changes them.  *)
LEMMA ConnChanges ==
  ASSUME [Next]_vars
  PROVE  \/ UNCHANGED conn
         \/ \E m \in net : AcceptSyn(m)
         \/ \E f \in Flows : Close(f)
BY Zenon DEF Next, Operator, Director, Proxy, Drain, Remove, Fill, Ready, SetState,
       StartMigration, EndMigration, Publish, LoadConfig, HealthChange,
       SendSyn, SendTcp, Send, AcceptLocally, ForwardToAlternate, Lose,
       vars, flowVars

(* A new connection at a proxy that is not drained.                         *)
LEMMA DrainStep ==
  ASSUME SCInv, [Next]_vars, NEW f \in Flows, conn'[f] \notin {NoProxy, conn[f]}, RolledOut
  PROVE  config.state[conn'[f]] \notin {"draining", "inactive"}
<1>1. PICK m \in net : AcceptSyn(m)
  <2>1. ~UNCHANGED conn
    OBVIOUS
  <2>2. ASSUME NEW g \in Flows, Close(g) PROVE conn'[f] \in {NoProxy, conn[f]}
    BY <2>2, Zenon DEF Close, SCInv, TypeOK
  <2> QED BY <2>1, <2>2, ConnChanges, Zenon
<1>2. SynInv(m) /\ m.epoch = epoch /\ m.flow \in Flows
  BY <1>1, GoodPacket, Zenon DEF AcceptSyn, RolledOut, Packets
<1>3. conn'[f] = m.daddr
  BY <1>1, <1>2 DEF AcceptSyn, SCInv, TypeOK
<1> QED BY <1>2, <1>3, Zenon DEF SynInv, Placed

(* A step that opens or closes no connection is a step of the balancer.     *)
LEMMA SilentStep ==
  ASSUME strayed = {}, strayed' = {}, UNCHANGED conn
  PROVE  [SB!Next]_SB!vars
<1>1. InService' \subseteq Proxies
  BY DEF InService
<1> QED BY <1>1 DEF SB!Next

(* An opened or closed connection is one for the balancer.                  *)
LEMMA OpenStep ==
  ASSUME strayed = {}, strayed' = {}, NEW m \in net, AcceptSyn(m),
         m.flow \in Flows, m.daddr \in InService, conn[m.flow] = NoProxy
  PROVE  SB!Next
<1>1. InService' \in SUBSET Proxies /\ strayed' = strayed
  BY DEF InService
<1>2. SB!Open(m.flow)
  BY Zenon DEF AcceptSyn, SB!Open
<1> QED BY <1>1, <1>2, Zenon DEF SB!Next

LEMMA ShutStep ==
  ASSUME strayed = {}, strayed' = {}, NEW f \in Flows, Close(f)
  PROVE  SB!Next
<1>1. InService' \in SUBSET Proxies /\ strayed' = strayed
  BY DEF InService
<1> QED BY <1>1, Zenon DEF Close, SB!Close, SB!Next

(* Every step of the system is a step of the abstract balancer.             *)
LEMMA BalancerStep ==
  ASSUME SCInv, SCInv', [Next]_vars
  PROVE  [SB!Next]_SB!vars
<1>1. strayed = {} /\ strayed' = {}
  BY Zenon DEF SCInv, NoConnectionBroken
<1>2. ASSUME NEW m \in net, AcceptSyn(m) PROVE SB!Next
  <2>1. m.flow \in Flows /\ m.daddr \in Proxies
    BY GoodPacket, Zenon DEF Packets
  <2>2. SynInv(m)
    BY <1>2, GoodPacket, Zenon DEF AcceptSyn
  <2>3. m.daddr \in InService /\ conn[m.flow] = NoProxy
    BY <2>1, <2>2 DEF InService, RolledOut, SynInv, Placed
  <2> QED BY <2>1, <2>3, <1>1, <1>2, OpenStep, Zenon
<1>3. ASSUME NEW f \in Flows, Close(f) PROVE SB!Next
  BY <1>1, <1>3, ShutStep, Zenon
<1> QED BY <1>1, <1>2, <1>3, ConnChanges, SilentStep, Zenon

LEMMA BalancerInit == Init => SB!Init
BY DEF Init, SB!Init, InService

------------------------------------------------------------------------------
(* Changing the hash fields, while all proxies stay active.  It can only    *)
(* work for a flow whose old and new row share none of their two proxies:   *)
(* the redirect does not pass a packet from a proxy to itself.              *)

(* The two proxies of a flow under the hash fields h. *)
Pair(f, h) == {First(RowOf[f][h], AllActive), Second(RowOf[f][h], AllActive)}
RowsApart == \A f \in Flows : Pair(f, "old") \cap Pair(f, "new") = {}

(* The configurations come in one order, so a number says which it is. *)
Stage(v) == CASE v = 0 -> "old" [] v = 1 -> "both" [] OTHER -> "new"
ConfigOf(v) == [state |-> AllActive, hashing |-> Stage(v)]
Latest(v) == v <= epoch /\ epoch <= v + 1

(* A SYN that was routed with configuration v opens its flow there. *)
Owners(f, v) == IF v = 0 THEN Pair(f, "old") ELSE Pair(f, "new")

StageInv ==
  /\ config = ConfigOf(epoch) /\ epoch <= 2
  /\ \A d \in Directors : loaded[d] = ConfigOf(version[d]) /\ Latest(version[d])
MovingInv ==
  \A f \in Flows : conn[f] # NoProxy => conn[f] \in Owners(f, since[f]) /\ Latest(since[f])

(* The hops a packet has before it are different, and the flow's proxy is   *)
(* where the packet is or among them.                                       *)
Ahead(m) == {k \in 1..Len(m.hops) : k > m.next_hop}
NoRepeat(m) ==
  \A k \in Ahead(m) : /\ m.hops[k] # m.daddr
                      /\ \A j \in Ahead(m) : m.hops[j] = m.hops[k] => j = k
Leads(m) ==
  \/ conn[m.flow] \in {NoProxy, m.daddr}
  \/ \E k \in Ahead(m) : m.hops[k] = conn[m.flow]
OpensFlow(m) ==
  /\ m.daddr \in Owners(m.flow, m.epoch) /\ conn[m.flow] = NoProxy
  /\ \A n \in net : n.flow = m.flow => n = m
Travels(m) ==
  /\ Latest(m.epoch) /\ NoRepeat(m)
  /\ m.kind = "syn" => OpensFlow(m)
  /\ m.kind = "tcp" => Leads(m)

MigrationInv ==
  /\ TypeOK /\ NoConnectionBroken /\ StageInv /\ MovingInv
  /\ \A m \in net : Travels(m)

(* Configurations and their numbers. *)
LEMMA Stages ==
  /\ Stage(0) = "old" /\ Stage(1) = "both" /\ Stage(2) = "new"
  /\ \A v \in Nat : /\ Stage(v) \in Hashings
                    /\ Stage(v) = "old" <=> v = 0
                    /\ Stage(v) = "both" <=> v = 1
                    /\ ConfigOf(v).state = AllActive /\ ConfigOf(v).hashing = Stage(v)
                    /\ ConfigOf(v) \in Configs
<1>1. AllActive \in [Proxies -> States]
  BY DEF AllActive, States
<1>2. \A v \in Nat : /\ Stage(v) \in Hashings
                     /\ Stage(v) = "old" <=> v = 0
                     /\ Stage(v) = "both" <=> v = 1
  BY DEF Stage, Hashings
<1>3. Stage(0) = "old" /\ Stage(1) = "both" /\ Stage(2) = "new"
  BY DEF Stage
<1> QED BY <1>1, <1>2, <1>3 DEF ConfigOf, Configs

(* The numbers of a state. *)
LEMMA Numbers ==
  ASSUME MigrationInv
  PROVE  /\ epoch \in Nat /\ \A d \in Directors : version[d] \in Nat
         /\ \A f \in Flows : since[f] \in Nat
         /\ \A m \in net : m.epoch \in Nat
  BY SecondChanceConstants DEF MigrationInv, TypeOK, Packets

(* With all proxies active a row has its two proxies, in either order. *)
LEMMA ActiveEntry ==
  ASSUME LowestFirst, NEW f \in Flows, NEW h \in HashFields, NEW hl
  PROVE  \E x, y \in Proxies : /\ Entry(RowOf[f][h], AllActive, hl) = <<x, y>>
                               /\ x # y /\ {x, y} = Pair(f, h)
<1>1. RowOf[f][h] \in Rows /\ TwoAvailable(AllActive) /\ Available(AllActive) = Proxies
  BY SecondChanceConstants, SingleTwo, AllActiveSingle, Zenon
<1>2. /\ First(RowOf[f][h], AllActive) \in Proxies
      /\ Second(RowOf[f][h], AllActive) \in Proxies
      /\ First(RowOf[f][h], AllActive) # Second(RowOf[f][h], AllActive)
  BY <1>1, FirstSecond
<1> QED BY <1>2 DEF Entry, Pair

(* A list of hops after a first one, none of them twice. *)
Chain(x, hops) ==
  /\ hops \in Seq(Proxies) /\ Len(hops) \in {1, 3}
  /\ \A k \in 1..Len(hops) : hops[k] # x
  /\ \A j, k \in 1..Len(hops) : hops[j] = hops[k] => j = k
Named(hops) == {hops[k] : k \in 1..Len(hops)}

Route(route, x, hops) ==
  /\ route[1] = x /\ hops = Tail(route) /\ Len(route) = Len(hops) + 1
  /\ \A k \in 1..Len(hops) : route[k + 1] = hops[k]

LEMMA ShortChain ==
  ASSUME NEW x \in Proxies, NEW y \in Proxies, x # y, NEW r, r = <<x, y>>
  PROVE  \E q : Chain(x, q) /\ Route(r, x, q) /\ Named(q) = {y}
<1>1. PICK q : q = Tail(<<x, y>>)
  BY Zenon
<1>2. q \in Seq(Proxies) /\ Len(q) = 1 /\ q[1] = y
  BY <1>1
<1>3. r[1] = x /\ Len(r) = 2 /\ r[1 + 1] = y
  OBVIOUS
<1>4. 1..Len(q) = {1}
  BY <1>2
<1>5. Chain(x, q) /\ Named(q) = {y}
  BY <1>2, <1>4 DEF Chain, Named
<1>6. Route(r, x, q)
  BY <1>1, <1>2, <1>3, <1>4 DEF Route
<1> QED BY <1>5, <1>6

(* The route of a director: a chain that starts where its SYNs go and names *)
(* every proxy that can own the flow.                                       *)
LEMMA StageRoute ==
  ASSUME LowestFirst, RowsApart, MigrationInv, NEW d \in Directors, NEW f \in Flows
  PROVE  \E x \in Proxies, hops \in Seq(Proxies) :
           /\ Route(glb_calculate_packet_route(d, f), x, hops)
           /\ Chain(x, hops)
           /\ x \in Owners(f, version[d])
           /\ \A v \in Nat : Latest(v) /\ v <= version[d] =>
                Owners(f, v) \subseteq {x} \cup Named(hops)
<1>1. /\ version[d] \in Nat /\ epoch \in Nat /\ Latest(version[d]) /\ epoch <= 2
      /\ loaded[d].state = AllActive /\ loaded[d].hashing = Stage(version[d])
  <2>1. version[d] \in Nat /\ epoch \in Nat
    BY Numbers
  <2>2. StageInv
    BY DEF MigrationInv
  <2>3. loaded[d] = ConfigOf(version[d]) /\ Latest(version[d]) /\ epoch <= 2
    BY <2>2 DEF StageInv
  <2>4. ConfigOf(version[d]).state = AllActive /\ ConfigOf(version[d]).hashing = Stage(version[d])
    BY <2>1, Stages
  <2> QED BY <2>1, <2>3, <2>4
<1>2. version[d] \in {0, 1, 2}
  BY <1>1 DEF Latest
<1>3. PICK a, b \in Proxies : /\ Entry(RowOf[f]["old"], AllActive, health[d]) = <<a, b>>
                              /\ a # b /\ {a, b} = Pair(f, "old")
  BY ActiveEntry DEF HashFields
<1>4. PICK u, w \in Proxies : /\ Entry(RowOf[f]["new"], AllActive, health[d]) = <<u, w>>
                              /\ u # w /\ {u, w} = Pair(f, "new")
  BY ActiveEntry, Zenon DEF HashFields
<1>5. a # u /\ a # w /\ b # u /\ b # w
  BY <1>3, <1>4 DEF RowsApart
<1>6. PICK r : r = glb_calculate_packet_route(d, f)
  OBVIOUS
<1>7. CASE version[d] = 0
  <2>1. r = <<a, b>>
    BY <1>1, <1>3, <1>6, <1>7, Stages, Zenon
      DEF glb_calculate_packet_route, glb_add_packet_route
  <2>2. PICK q : Chain(a, q) /\ Route(r, a, q) /\ Named(q) = {b}
    BY <2>1, <1>3, ShortChain
  <2>3. a \in Owners(f, version[d])
    BY <1>3, <1>7, Zenon DEF Owners
  <2>4. ASSUME NEW v \in Nat, v <= version[d] PROVE Owners(f, v) = {a, b}
    BY <2>4, <1>3, <1>7 DEF Owners
  <2> QED BY <1>6, <2>2, <2>3, <2>4 DEF Chain
<1>8. CASE version[d] = 1
  <2>1. r = <<u, w>> \o <<a, b>>
    BY <1>1, <1>3, <1>4, <1>6, <1>8, Stages, Zenon
      DEF glb_calculate_packet_route, glb_add_packet_route
  <2>2. PICK q : q = Tail(r)
    BY Zenon
  <2>3. Chain(u, q) /\ Route(r, u, q) /\ {w, a, b} \subseteq Named(q)
    <3>1. q \in Seq(Proxies) /\ Len(q) = 3 /\ q[1] = w /\ q[2] = a /\ q[3] = b
      BY <2>1, <2>2
    <3>2. r[1] = u /\ Len(r) = 4 /\ r[1 + 1] = w /\ r[2 + 1] = a /\ r[3 + 1] = b
      BY <2>1
    <3>3. 1..Len(q) = {1, 2, 3}
      BY <3>1
    <3>4. u # w /\ a # b
      BY <1>3, <1>4, Zenon
    <3>5. Chain(u, q) /\ {w, a, b} \subseteq Named(q)
      BY <3>1, <3>3, <3>4, <1>5, Zenon DEF Chain, Named
    <3> QED BY <2>2, <3>1, <3>2, <3>3, <3>5 DEF Route
  <2>4. u \in Owners(f, version[d])
    BY <1>4, <1>8 DEF Owners
  <2>5. ASSUME NEW v \in Nat PROVE Owners(f, v) \subseteq {u, w} \cup {a, b}
    BY <1>3, <1>4, Zenon DEF Owners
  <2> QED BY <1>6, <2>3, <2>4, <2>5 DEF Chain
<1>9. CASE version[d] = 2
  <2>1. r = <<u, w>>
    BY <1>1, <1>4, <1>6, <1>9, Stages, Zenon
      DEF glb_calculate_packet_route, glb_add_packet_route
  <2>2. PICK q : Chain(u, q) /\ Route(r, u, q) /\ Named(q) = {w}
    BY <2>1, <1>4, ShortChain
  <2>3. u \in Owners(f, version[d])
    BY <1>4, <1>9 DEF Owners
  <2>4. ASSUME NEW v \in Nat, Latest(v) PROVE Owners(f, v) = {u, w}
    <3>1. v # 0
      BY <2>4, <1>1, <1>9 DEF Latest
    <3> QED BY <3>1, <1>4 DEF Owners
  <2> QED BY <1>6, <2>2, <2>3, <2>4 DEF Chain
<1> QED BY <1>2, <1>7, <1>8, <1>9, Zenon

LEMMA MigrationInit == Init => MigrationInv
<1> SUFFICES ASSUME Init PROVE MigrationInv
  OBVIOUS
<1>1. config = ConfigOf(0)
  BY Stages, Zenon DEF Init, ConfigOf
<1>2. TypeOK
  BY SecondChanceConstants DEF Init, TypeOK, Configs, Hashings, Healths, AllActive, States
<1>3. StageInv
  BY <1>1 DEF Init, StageInv, Latest
<1> QED BY <1>2, <1>3, Zenon DEF Init, MigrationInv, MovingInv, NoConnectionBroken

(* The next configuration is published once all have the last one. *)
LEMMA MigrationPublish ==
  ASSUME MigrationInv, StartMigration \/ EndMigration
  PROVE  MigrationInv'
<1>1. /\ epoch \in Nat /\ \A d \in Directors : version[d] = epoch
      /\ \A m \in net : m.epoch = epoch
      /\ config = ConfigOf(epoch) /\ config.hashing = Stage(epoch)
      /\ epoch' = epoch + 1 /\ epoch < MaxEpoch
      /\ UNCHANGED <<dirVars, flowVars, net, strayed>>
  <2>1. epoch \in Nat
    BY Numbers
  <2>2. config = ConfigOf(epoch)
    BY DEF MigrationInv, StageInv
  <2> QED BY <2>1, <2>2, Stages DEF StartMigration, EndMigration, Publish, RolledOut
<1>2. /\ epoch <= 1 /\ config' = ConfigOf(epoch + 1)
      /\ \A f \in Flows : conn[f] # NoProxy => since[f] = epoch
  <2>1. CASE StartMigration
    <3>1. epoch = 0
      BY <2>1, <1>1, Stages DEF StartMigration
    <3>2. config' = ConfigOf(1)
      BY <2>1, <3>1, <1>1, Stages DEF StartMigration, Publish, ConfigOf
    <3>3. \A f \in Flows : conn[f] # NoProxy => since[f] = 0
      <4>1. \A f \in Flows : since[f] \in Nat
        BY Numbers
      <4> QED BY <4>1, <3>1 DEF MigrationInv, MovingInv, Latest
    <3> QED BY <3>1, <3>2, <3>3
  <2>2. CASE EndMigration
    <3>1. epoch = 1
      BY <2>2, <1>1, Stages DEF EndMigration
    <3>2. config' = ConfigOf(2)
      BY <2>2, <3>1, <1>1, Stages DEF EndMigration, Publish, ConfigOf
    <3> QED BY <2>2, <3>1, <3>2 DEF EndMigration
  <2> QED BY <2>1, <2>2
<1>3. /\ loaded' = loaded /\ version' = version /\ health' = health /\ conn' = conn
      /\ since' = since /\ net' = net /\ strayed' = strayed
  BY <1>1 DEF dirVars, flowVars
<1>4. TypeOK' /\ NoConnectionBroken'
  <2>1. config' \in Configs
    BY <1>1, <1>2, Stages
  <2>2. epoch' \in 0..MaxEpoch
    BY <1>1, SecondChanceConstants
  <2> QED BY <1>3, <2>1, <2>2, Zenon DEF MigrationInv, TypeOK, NoConnectionBroken
<1>5. Latest(epoch)'
  BY <1>1 DEF Latest
<1>6. StageInv'
  <2>1. \A d \in Directors : loaded[d] = ConfigOf(version[d])
    BY Zenon DEF MigrationInv, StageInv
  <2>2. \A d \in Directors : loaded'[d] = ConfigOf(version'[d]) /\ Latest(version[d])'
    BY <2>1, <1>1, <1>3 DEF Latest
  <2>3. config' = ConfigOf(epoch') /\ epoch' <= 2
    BY <1>1, <1>2
  <2> QED BY <2>2, <2>3, Zenon DEF StageInv
<1>7. MovingInv'
  <2>1. \A f \in Flows : conn[f] # NoProxy => conn[f] \in Owners(f, since[f])
    BY Zenon DEF MigrationInv, MovingInv
  <2>2. \A f \in Flows : conn[f] # NoProxy => Latest(since[f])'
    BY <1>1, <1>2, <1>3 DEF Latest
  <2> QED BY <2>1, <2>2, <1>3 DEF MovingInv, Owners
<1>8. \A m \in net' : Travels(m)'
  <2>1. ASSUME NEW m \in net PROVE Travels(m)'
    <3>1. Travels(m)
      BY DEF MigrationInv
    <3>2. Latest(m.epoch)'
      BY <1>1 DEF Latest
    <3> QED BY <3>1, <3>2, <1>3 DEF Travels, NoRepeat, Ahead, Leads, OpensFlow, Owners
  <2> QED BY <2>1, <1>3, Zenon
<1> QED BY <1>4, <1>6, <1>7, <1>8 DEF MigrationInv

LEMMA MigrationLoad ==
  ASSUME MigrationInv, NEW d \in Directors, LoadConfig(d)
  PROVE  MigrationInv'
<1>1. /\ config' = config /\ epoch' = epoch /\ conn' = conn /\ since' = since
      /\ net' = net /\ strayed' = strayed /\ health' = health
      /\ loaded' = [loaded EXCEPT ![d] = config]
      /\ version' = [version EXCEPT ![d] = epoch]
  BY Zenon DEF LoadConfig, operVars, flowVars
<1>2. TypeOK' /\ NoConnectionBroken'
  BY <1>1, Zenon DEF MigrationInv, TypeOK, NoConnectionBroken
<1>3. StageInv'
  <2>1. epoch \in Nat
    BY Numbers, Zenon
  <2> QED BY <1>1, <2>1 DEF MigrationInv, TypeOK, StageInv, Latest
<1>4. MovingInv'
  BY <1>1, Zenon DEF MigrationInv, MovingInv, Owners, Latest
<1>5. \A m \in net' : Travels(m)'
  BY <1>1, Zenon
    DEF MigrationInv, Travels, NoRepeat, Ahead, Leads, OpensFlow, Owners, Latest
<1> QED BY <1>2, <1>3, <1>4, <1>5 DEF MigrationInv

LEMMA MigrationHealth ==
  ASSUME MigrationInv, NEW d \in Directors, NEW p \in Proxies, NEW h \in Healths,
         HealthChange(d, p, h)
  PROVE  MigrationInv'
<1>1. /\ config' = config /\ epoch' = epoch /\ conn' = conn /\ since' = since
      /\ net' = net /\ strayed' = strayed /\ loaded' = loaded /\ version' = version
      /\ health' = [health EXCEPT ![d][p] = h]
  BY Zenon DEF HealthChange, operVars, flowVars
<1>2. TypeOK' /\ NoConnectionBroken'
  BY <1>1 DEF MigrationInv, TypeOK, NoConnectionBroken
<1>3. StageInv'
  BY <1>1 DEF MigrationInv, StageInv, Latest
<1>4. MovingInv'
  BY <1>1, Zenon DEF MigrationInv, MovingInv, Owners, Latest
<1>5. \A m \in net' : Travels(m)'
  BY <1>1, Zenon
    DEF MigrationInv, Travels, NoRepeat, Ahead, Leads, OpensFlow, Owners, Latest
<1> QED BY <1>2, <1>3, <1>4, <1>5 DEF MigrationInv



LEMMA MovedAhead ==
  ASSUME NEW m, Len(m.hops) \in {1, 3}, m.next_hop \in Nat, m.next_hop < Len(m.hops),
         NEW h, h = m.next_hop + 1, NEW new, new.hops = m.hops, new.next_hop = h
  PROVE  /\ Len(new.hops) \in {1, 3} /\ new.next_hop <= Len(new.hops)
         /\ Ahead(new) = Ahead(m) \ {h} /\ h \in Ahead(m)
<1>1. PICK n \in {1, 3} : n = Len(m.hops)
  OBVIOUS
<1>2. PICK i \in Nat : i = m.next_hop /\ i < n /\ h = i + 1
  BY <1>1
<1>3. /\ {k \in 1..n : k > h} = {k \in 1..n : k > i} \ {h}
      /\ h \in {k \in 1..n : k > i} /\ h <= n
  BY <1>2
<1> QED BY <1>1, <1>2, <1>3 DEF Ahead

LEMMA NetTyped ==
  ASSUME MigrationInv
  PROVE  \A m \in net : m \in Packets /\ Len(m.hops) \in {1, 3} /\ m.next_hop <= Len(m.hops)
  BY DEF MigrationInv, TypeOK

(* What a packet of a flow must be like to be sent. *)
Fits(f, k, v, x, hops) ==
  /\ \A m \in net : m.kind = "syn" => m.flow # f
  /\ k = "syn" => /\ x \in Owners(f, v) /\ conn[f] = NoProxy
                  /\ \A m \in net : m.flow # f
  /\ k = "tcp" => \/ conn[f] = x
                  \/ \E i \in 1..Len(hops) : hops[i] = conn[f]

(* Steps that leave operator, directors and flows alone. *)
LEMMA SameStages ==
  ASSUME MigrationInv, config' = config, epoch' = epoch, loaded' = loaded,
         version' = version, conn' = conn, since' = since
  PROVE  StageInv' /\ MovingInv'
<1>1. \A v : Latest(v) => Latest(v)'
  BY Zenon DEF Latest
<1>2. \A f, v : Owners(f, v)' = Owners(f, v)
  BY Zenon DEF Owners
<1>3. StageInv'
  BY <1>1, Zenon DEF MigrationInv, StageInv
<1>4. MovingInv'
  BY <1>1, <1>2, Zenon DEF MigrationInv, MovingInv
<1> QED BY <1>3, <1>4

LEMMA SameTravels ==
  ASSUME NEW m, Travels(m), epoch' = epoch, conn' = conn,
         m.kind = "syn" => \A n \in net' : n.flow = m.flow => n = m
  PROVE  Travels(m)'
<1>1. Latest(m.epoch)' /\ NoRepeat(m)'
  BY Zenon DEF Travels, Latest, NoRepeat, Ahead
<1>2. m.kind = "syn" => OpensFlow(m)'
  BY Zenon DEF Travels, OpensFlow, Owners
<1>3. m.kind = "tcp" => Leads(m)'
  BY Zenon DEF Travels, Leads, Ahead
<1> QED BY <1>1, <1>2, <1>3, Zenon DEF Travels

(* A packet joins the others: a chain from where it is sent to. *)
LEMMA MigrationJoin ==
  ASSUME MigrationInv, NEW new \in Packets, net' = net \cup {new},
         UNCHANGED <<operVars, dirVars, flowVars, strayed>>,
         Len(new.hops) \in {1, 3}, new.next_hop <= Len(new.hops),
         Ahead(new) = 1..Len(new.hops), Chain(new.daddr, new.hops), Latest(new.epoch),
         Fits(new.flow, new.kind, new.epoch, new.daddr, new.hops)
  PROVE  MigrationInv'
<1>1. /\ config' = config /\ epoch' = epoch /\ loaded' = loaded /\ version' = version
      /\ health' = health /\ conn' = conn /\ since' = since /\ strayed' = strayed
  BY Zenon DEF operVars, dirVars, flowVars
<1>4. TypeOK' /\ NoConnectionBroken'
  <2>1. \A m \in net' : m \in Packets /\ Len(m.hops) \in {1, 3} /\ m.next_hop <= Len(m.hops)
    BY NetTyped, Zenon
  <2> QED BY <1>1, <2>1, Zenon DEF MigrationInv, TypeOK, NoConnectionBroken
<1>5. StageInv' /\ MovingInv'
  BY <1>1, SameStages, Zenon
<1>6. ASSUME NEW m \in net PROVE Travels(m)'
  <2>1. Travels(m)
    BY Zenon DEF MigrationInv
  <2>2. m.kind = "syn" => \A n \in net' : n.flow = m.flow => n = m
    BY <2>1, Zenon DEF Travels, OpensFlow, Fits
  <2> QED BY <2>1, <2>2, <1>1, SameTravels, Zenon
<1>7. Travels(new)'
  <2>1. NoRepeat(new)
    BY Zenon DEF NoRepeat, Chain
  <2>2. new.kind = "syn" => OpensFlow(new)'
    BY <1>1, Zenon DEF OpensFlow, Owners, Fits
  <2>3. new.kind = "tcp" => Leads(new)
    BY Zenon DEF Leads, Fits
  <2> QED BY <2>1, <2>2, <2>3, <1>1, Zenon DEF Travels, Latest, NoRepeat, Leads, Ahead
<1> QED BY <1>4, <1>5, <1>6, <1>7, Zenon DEF MigrationInv

(* What a director sends has the hops of its route. *)
LEMMA MigrationSend ==
  ASSUME MigrationInv, NEW d \in Directors, NEW f \in Flows, NEW k \in {"syn", "tcp"},
         NEW x \in Proxies, NEW hops \in Seq(Proxies), Chain(x, hops),
         Route(glb_calculate_packet_route(d, f), x, hops), Send(d, f, k),
         Fits(f, k, version[d], x, hops)
  PROVE  MigrationInv'
<1>1. version[d] \in 0..MaxEpoch /\ Latest(version[d])
  BY Zenon DEF MigrationInv, TypeOK, StageInv
<1>2. Len(hops) \in {1, 3}
  BY Zenon DEF Chain
<1>3. PICK new \in Packets : SentAs(new, f, k, version[d], x, hops)
  BY <1>1, <1>2, PacketType, Zenon
<1>4. glb_encapsulate_packet(d, f, k) = new
  BY <1>3, Zenon DEF glb_encapsulate_packet, Route, PacketOf, SentAs
<1>5. net' = net \cup {new} /\ UNCHANGED <<operVars, dirVars, flowVars, strayed>>
  BY <1>4, Zenon DEF Send
<1>6. /\ Len(new.hops) \in {1, 3} /\ new.next_hop <= Len(new.hops)
      /\ new.hops \in Seq(Proxies) /\ new.next_hop = 0
      /\ Chain(new.daddr, new.hops) /\ Latest(new.epoch)
      /\ Fits(new.flow, new.kind, new.epoch, new.daddr, new.hops)
  BY <1>1, <1>3, Zenon DEF SentAs
<1>7. Ahead(new) = 1..Len(new.hops)
  BY <1>6 DEF Ahead
<1> QED BY <1>5, <1>6, <1>7, MigrationJoin, Zenon

LEMMA MigrationSyn ==
  ASSUME LowestFirst, RowsApart, MigrationInv, NEW d \in Directors, NEW f \in Flows, SendSyn(d, f)
  PROVE  MigrationInv'
<1>1. PICK x \in Proxies, hops \in Seq(Proxies) :
        /\ Route(glb_calculate_packet_route(d, f), x, hops) /\ Chain(x, hops)
        /\ x \in Owners(f, version[d])
  BY StageRoute
<1>2. Send(d, f, "syn") /\ conn[f] = NoProxy /\ \A m \in net : m.flow # f
  BY Zenon DEF SendSyn
<1>3. Fits(f, "syn", version[d], x, hops)
  BY <1>1, <1>2 DEF Fits
<1> QED BY <1>1, <1>2, <1>3, MigrationSend, Zenon

LEMMA MigrationTcp ==
  ASSUME LowestFirst, RowsApart, MigrationInv, NEW d \in Directors, NEW f \in Flows, SendTcp(d, f)
  PROVE  MigrationInv'
<1>1. PICK x \in Proxies, hops \in Seq(Proxies) :
        /\ Route(glb_calculate_packet_route(d, f), x, hops) /\ Chain(x, hops)
        /\ \A v \in Nat : Latest(v) /\ v <= version[d] =>
             Owners(f, v) \subseteq {x} \cup Named(hops)
  BY StageRoute, Zenon
<1>2. Send(d, f, "tcp") /\ conn[f] # NoProxy /\ since[f] <= version[d]
  <2>1. since[f] \in Nat /\ version[d] \in Nat
    BY Numbers, Zenon
  <2> QED BY <2>1 DEF SendTcp
<1>3. conn[f] \in Owners(f, since[f]) /\ Latest(since[f]) /\ since[f] \in Nat
  BY <1>2, Numbers, Zenon DEF MigrationInv, MovingInv
<1>4. conn[f] = x \/ \E i \in 1..Len(hops) : hops[i] = conn[f]
  BY <1>1, <1>2, <1>3, Zenon DEF Named
<1>5. \A m \in net : m.kind = "syn" => m.flow # f
  BY <1>2, Zenon DEF MigrationInv, Travels, OpensFlow
<1>6. Fits(f, "tcp", version[d], x, hops)
  BY <1>4, <1>5, Zenon DEF Fits
<1> QED BY <1>1, <1>2, <1>6, MigrationSend, Zenon

(* The proxy opens the connection a SYN asks for. *)
LEMMA MigrationAccept ==
  ASSUME MigrationInv, NEW m \in net, AcceptSyn(m)
  PROVE  MigrationInv'
<1>1. /\ net' = net \ {m} /\ loaded' = loaded /\ version' = version
      /\ config' = config /\ epoch' = epoch /\ health' = health /\ strayed' = strayed
      /\ conn' = [conn EXCEPT ![m.flow] = m.daddr]
      /\ since' = [since EXCEPT ![m.flow] = m.epoch]
  BY Zenon DEF AcceptSyn, operVars, dirVars
<1>2. /\ m.flow \in Flows /\ m.daddr \in Proxies /\ m.epoch \in 0..MaxEpoch
      /\ OpensFlow(m) /\ Latest(m.epoch)
  BY Zenon DEF AcceptSyn, MigrationInv, TypeOK, Packets, Travels
<1>3. /\ conn'[m.flow] = m.daddr /\ since'[m.flow] = m.epoch
      /\ \A f \in Flows \ {m.flow} : conn'[f] = conn[f] /\ since'[f] = since[f]
  BY <1>1, <1>2, Zenon DEF MigrationInv, TypeOK
<1>4. TypeOK' /\ NoConnectionBroken'
  BY <1>1, <1>2, Zenon DEF MigrationInv, TypeOK, NoConnectionBroken
<1>5. StageInv'
  BY <1>1, Zenon DEF MigrationInv, StageInv, Latest
<1>6. MovingInv'
  <2>1. ASSUME NEW f \in Flows, conn'[f] # NoProxy
        PROVE  (conn[f] \in Owners(f, since[f]) /\ Latest(since[f]))'
    <3>1. CASE f = m.flow
      BY <3>1, <1>1, <1>2, <1>3, Zenon DEF OpensFlow, Owners, Latest
    <3>2. CASE f # m.flow
      BY <3>2, <2>1, <1>1, <1>3, Zenon DEF MigrationInv, MovingInv, Owners, Latest
    <3> QED BY <3>1, <3>2, Zenon
  <2> QED BY <2>1, Zenon DEF MovingInv
<1>7. ASSUME NEW n \in net, n # m PROVE Travels(n)'
  <2>1. Travels(n) /\ n.flow \in Flows /\ n.flow # m.flow
    BY <1>2, <1>7, Zenon DEF MigrationInv, TypeOK, Packets, OpensFlow
  <2>2. conn'[n.flow] = conn[n.flow]
    BY <2>1, <1>3
  <2> QED BY <2>1, <2>2, <1>1, Zenon
          DEF Travels, Latest, NoRepeat, Ahead, OpensFlow, Owners, Leads
<1> QED BY <1>1, <1>4, <1>5, <1>6, <1>7, Zenon DEF MigrationInv

(* Fewer packets, and connections closed at most. *)
LEMMA MigrationFewer ==
  ASSUME MigrationInv, UNCHANGED <<operVars, dirVars, since>>, net' \subseteq net,
         strayed' = {}, conn' \in [Flows -> Proxies \cup {NoProxy}],
         \A f \in Flows : conn'[f] \in {conn[f], NoProxy}
  PROVE  MigrationInv'
<1>1. /\ loaded' = loaded /\ version' = version /\ config' = config
      /\ epoch' = epoch /\ health' = health /\ since' = since
  BY Zenon DEF operVars, dirVars
<1>2. TypeOK' /\ NoConnectionBroken'
  BY <1>1, Zenon DEF MigrationInv, TypeOK, NoConnectionBroken
<1>3. StageInv' /\ MovingInv'
  BY <1>1 DEF MigrationInv, StageInv, MovingInv, Owners, Latest
<1>4. ASSUME NEW n \in net' PROVE Travels(n)'
  <2>1. Travels(n) /\ n.flow \in Flows
    BY <1>4, Zenon DEF MigrationInv, TypeOK, Packets
  <2>2. conn'[n.flow] \in {conn[n.flow], NoProxy}
    BY <2>1, Zenon
  <2> QED BY <2>1, <2>2, <1>1, Zenon
          DEF Travels, Latest, NoRepeat, Ahead, OpensFlow, Owners, Leads
<1> QED BY <1>2, <1>3, <1>4 DEF MigrationInv

(* A packet with a hop left to go is passed on, so only the flow's proxy,   *)
(* or one for a closed flow, takes it.                                      *)
LEMMA MigrationTake ==
  ASSUME MigrationInv, NEW m \in net, AcceptLocally(m)
  PROVE  MigrationInv'
<1>1. NoRepeat(m) /\ Leads(m) /\ m.next_hop \in Nat /\ Len(m.hops) \in Nat
  <2>1. m \in Packets /\ Travels(m) /\ Len(m.hops) \in {1, 3}
    BY DEF MigrationInv, TypeOK
  <2>2. m.kind = "tcp" /\ m.next_hop \in 0..3
    BY <2>1, Zenon DEF Packets, AcceptLocally
  <2> QED BY <2>1, <2>2 DEF Travels
<1>2. conn[m.flow] \in {NoProxy, m.daddr}
  <2> SUFFICES ASSUME NEW k \in Ahead(m), conn[m.flow] # m.daddr PROVE FALSE
    BY <1>1, Zenon DEF Leads
  <2>1. m.next_hop + 1 \in Ahead(m)
    BY <1>1 DEF Ahead
  <2>2. HasAlternate(m)
    BY <2>1, <1>1 DEF NoRepeat, HasAlternate, alt, Ahead
  <2> QED BY <2>2, Zenon DEF AcceptLocally, is_valid_locally
<1>3. strayed' = {} /\ conn' = conn
  BY <1>2, Zenon DEF AcceptLocally, MigrationInv, NoConnectionBroken, flowVars
<1> QED BY <1>3, MigrationFewer DEF AcceptLocally, MigrationInv, TypeOK, flowVars

LEMMA MigrationCloseLose ==
  ASSUME MigrationInv, (\E f \in Flows : Close(f)) \/ (\E m \in net : Lose(m))
  PROVE  MigrationInv'
<1>1. ASSUME NEW f \in Flows, Close(f) PROVE MigrationInv'
  <2>1. conn' \in [Flows -> Proxies \cup {NoProxy}]
        /\ \A g \in Flows : conn'[g] \in {conn[g], NoProxy}
    BY <1>1, Zenon DEF Close, MigrationInv, TypeOK
  <2> QED BY <1>1, <2>1, MigrationFewer, Zenon DEF Close, MigrationInv, NoConnectionBroken
<1>2. ASSUME NEW m \in net, Lose(m) PROVE MigrationInv'
  BY <1>2, MigrationFewer DEF Lose, MigrationInv, TypeOK, NoConnectionBroken, flowVars
<1> QED BY <1>1, <1>2

LEMMA HopIndex ==
  \A i \in Nat : \A n \in {1, 3} : i < n => i + 1 \in 1..n /\ i + 1 \in 0..3
OBVIOUS

(* A packet on its way to the next hop. *)
Moved(m) == [m EXCEPT !.next_hop = @ + 1, !.daddr = alt(m)]

LEMMA MovedType ==
  ASSUME NEW m \in Packets, m.kind # "syn", Len(m.hops) \in {1, 3},
         m.next_hop < Len(m.hops)
  PROVE  \E new \in Packets, h \in Ahead(m) :
           /\ new = Moved(m) /\ m.kind = "tcp" /\ new.kind = "tcp"
           /\ new.hops = m.hops /\ new.flow = m.flow /\ new.epoch = m.epoch
           /\ Len(new.hops) \in {1, 3} /\ new.next_hop <= Len(new.hops)
           /\ new.daddr = m.hops[h] /\ Ahead(new) = Ahead(m) \ {h}
<1>1. m.next_hop \in Nat /\ m.hops \in Seq(Proxies) /\ m.kind = "tcp"
  BY DEF Packets
<1>2. m.next_hop + 1 \in 0..3 /\ m.next_hop + 1 \in 1..Len(m.hops)
  BY <1>1, HopIndex, Zenon
<1>3. PICK a \in Proxies : a = alt(m) /\ a = m.hops[m.next_hop + 1]
  BY <1>1, <1>2 DEF alt
<1>4. PICK h \in 0..3 : h = m.next_hop + 1
  BY <1>2, Zenon
<1>5. PICK new : new = Moved(m)
  BY Zenon
<1>6. new = [m EXCEPT !.next_hop = h, !.daddr = a]
  BY <1>3, <1>4, <1>5, Zenon DEF Packets, Moved
<1>7. /\ new \in Packets /\ new.hops = m.hops /\ new.flow = m.flow
      /\ new.kind = "tcp" /\ new.epoch = m.epoch /\ new.daddr = a /\ new.next_hop = h
  BY <1>1, <1>6, Zenon DEF Packets
<1>8. /\ Len(new.hops) \in {1, 3} /\ new.next_hop <= Len(new.hops)
      /\ Ahead(new) = Ahead(m) \ {h} /\ h \in Ahead(m)
  BY <1>1, <1>4, <1>7, MovedAhead
<1> QED BY <1>1, <1>3, <1>4, <1>5, <1>7, <1>8, Zenon

(* The next hop is the flow's proxy or nearer to it. *)
LEMMA MigrationMove ==
  ASSUME MigrationInv, NEW m \in net, NEW new \in Packets, NEW h \in Ahead(m),
         net' = (net \ {m}) \cup {new},
         UNCHANGED <<operVars, dirVars, flowVars, strayed>>,
         m.kind = "tcp", conn[m.flow] # m.daddr,
         new.hops = m.hops, new.flow = m.flow, new.kind = "tcp",
         new.epoch = m.epoch, Len(new.hops) \in {1, 3},
         new.next_hop <= Len(new.hops), new.daddr = m.hops[h],
         Ahead(new) = Ahead(m) \ {h}
  PROVE  MigrationInv'
<1>1. /\ config' = config /\ epoch' = epoch /\ loaded' = loaded /\ version' = version
      /\ health' = health /\ conn' = conn /\ since' = since /\ strayed' = strayed
  BY Zenon DEF operVars, dirVars, flowVars
<1>3. TypeOK' /\ NoConnectionBroken'
  <2>1. \A n \in net' : n \in Packets /\ Len(n.hops) \in {1, 3} /\ n.next_hop <= Len(n.hops)
    BY NetTyped, Zenon
  <2> QED BY <1>1, <2>1, Zenon DEF MigrationInv, TypeOK, NoConnectionBroken
<1>4. StageInv' /\ MovingInv'
  BY <1>1, SameStages, Zenon
<1>5. ASSUME NEW n \in net, n # m PROVE Travels(n)'
  <2>1. Travels(n)
    BY Zenon DEF MigrationInv
  <2>2. n.kind = "syn" => m.flow # n.flow
    BY <2>1, <1>5, Zenon DEF Travels, OpensFlow
  <2>3. n.kind = "syn" => \A x \in net' : x.flow = n.flow => x = n
    BY <2>1, <2>2, Zenon DEF Travels, OpensFlow
  <2> QED BY <2>1, <2>3, <1>1, SameTravels, Zenon
<1>6. Travels(new)'
  <2>1. Latest(m.epoch) /\ NoRepeat(m) /\ Leads(m)
    BY Zenon DEF MigrationInv, Travels
  <2>2. NoRepeat(new)
    BY <2>1, Zenon DEF NoRepeat
  <2>3. Leads(new)
    BY <2>1, Zenon DEF Leads
  <2>4. "syn" # "tcp"
    OBVIOUS
  <2>5. Travels(new)
    BY <2>1, <2>2, <2>3, <2>4, Zenon DEF Travels
  <2> QED BY <2>4, <2>5, <1>1, SameTravels, Zenon
<1> QED BY <1>3, <1>4, <1>5, <1>6, Zenon DEF MigrationInv

LEMMA MigrationForward ==
  ASSUME MigrationInv, NEW m \in net, ForwardToAlternate(m)
  PROVE  MigrationInv'
<1>1. m \in Packets /\ Len(m.hops) \in {1, 3}
  BY NetTyped, Zenon
<1>2. /\ m.kind # "syn" /\ conn[m.flow] # m.daddr /\ m.next_hop < Len(m.hops)
      /\ net' = (net \ {m}) \cup {Moved(m)}
      /\ UNCHANGED <<operVars, dirVars, flowVars, strayed>>
  BY Zenon DEF ForwardToAlternate, HasAlternate, is_valid_locally, Moved
<1>3. PICK new \in Packets, h \in Ahead(m) :
        /\ new = Moved(m) /\ m.kind = "tcp" /\ new.kind = "tcp"
        /\ new.hops = m.hops /\ new.flow = m.flow /\ new.epoch = m.epoch
        /\ Len(new.hops) \in {1, 3} /\ new.next_hop <= Len(new.hops)
        /\ new.daddr = m.hops[h] /\ Ahead(new) = Ahead(m) \ {h}
  BY <1>1, <1>2, MovedType, Zenon
<1>4. net' = (net \ {m}) \cup {new}
  BY <1>2, <1>3, Zenon
<1> QED BY <1>2, <1>3, <1>4, MigrationMove, Zenon

LEMMA MigrationStep ==
  ASSUME LowestFirst, "lifecycle" \notin Operations, RowsApart, MigrationInv, [Next]_vars
  PROVE  MigrationInv'
<1>1. \A p \in Proxies : ~(Drain(p) \/ Remove(p) \/ Fill(p) \/ Ready(p))
  BY DEF Drain, Remove, Fill, Ready, Lifecycle
<1>2. ASSUME NEW d \in Directors, Director(d) PROVE MigrationInv'
  BY <1>2, MigrationLoad, MigrationHealth, MigrationSyn, MigrationTcp DEF Director
<1>3. ASSUME NEW m \in net, Proxy(m) PROVE MigrationInv'
  BY <1>3, MigrationAccept, MigrationTake, MigrationForward, Zenon DEF Proxy
<1>4. CASE UNCHANGED vars
  <2>1. UNCHANGED <<operVars, dirVars, flowVars, net, strayed>>
    BY <1>4 DEF vars
  <2> QED BY <2>1, MigrationFewer DEF MigrationInv, TypeOK, NoConnectionBroken, flowVars
<1> QED BY <1>1, <1>2, <1>3, <1>4, MigrationPublish, MigrationCloseLose, Zenon
     DEF Next, Operator

(* Both parts of a route: its first hop, and the chain after it. *)
OnWay(r, x, hops) ==
  /\ \E j \in 1..Len(r) : r[j] = x
  /\ \A i \in 1..Len(hops) : \E j \in 1..Len(r) : r[j] = hops[i]

LEMMA OnRoute ==
  ASSUME NEW r, NEW x, NEW hops, Route(r, x, hops), Chain(x, hops)
  PROVE  OnWay(r, x, hops)
<1>1. PICK n \in {1, 3} : n = Len(hops) /\ Len(r) = n + 1 /\ r[1] = x
  BY Zenon DEF Chain, Route
<1>2. 1 \in 1..(n + 1) /\ \A i \in 1..n : i + 1 \in 1..(n + 1)
  OBVIOUS
<1>3. \A i \in 1..n : r[i + 1] = hops[i]
  BY <1>1, Zenon DEF Route
<1> QED BY <1>1, <1>2, <1>3, Zenon DEF OnWay

LEMMA MigrationReaches ==
  ASSUME LowestFirst, RowsApart, MigrationInv
  PROVE  OwnerInRoute
<1> SUFFICES ASSUME NEW f \in Flows, NEW d \in Directors,
                    conn[f] # NoProxy, version[d] >= since[f]
             PROVE  \E i \in 1..Len(glb_calculate_packet_route(d, f)) :
                      glb_calculate_packet_route(d, f)[i] = conn[f]
  BY Zenon DEF OwnerInRoute
<1>1. PICK r : r = glb_calculate_packet_route(d, f)
  BY Zenon
<1>2. PICK x \in Proxies, hops \in Seq(Proxies) :
        /\ Route(r, x, hops) /\ Chain(x, hops)
        /\ \A v \in Nat : Latest(v) /\ v <= version[d] =>
             Owners(f, v) \subseteq {x} \cup Named(hops)
  BY <1>1, StageRoute, Zenon
<1>3. /\ conn[f] \in Owners(f, since[f]) /\ Latest(since[f])
      /\ since[f] \in Nat /\ version[d] \in Nat
  BY Numbers, Zenon DEF MigrationInv, MovingInv
<1>4. since[f] <= version[d]
  BY <1>3
<1>5. conn[f] = x \/ \E i \in 1..Len(hops) : hops[i] = conn[f]
  BY <1>2, <1>3, <1>4, Zenon DEF Named
<1>6. \E i \in 1..Len(r) : r[i] = conn[f]
  <2>1. OnWay(r, x, hops)
    BY <1>2, OnRoute, Zenon
  <2> QED BY <1>5, <2>1, Zenon DEF OnWay
<1> QED BY <1>1, <1>6, Zenon

(* While the hash fields change, too, every step is one of the balancer.    *)
LEMMA MigrationSteps ==
  ASSUME MigrationInv, MigrationInv', [Next]_vars
  PROVE  [SB!Next]_SB!vars
<1>1. strayed = {} /\ strayed' = {}
  BY Zenon DEF MigrationInv, NoConnectionBroken
<1>2. ASSUME NEW m \in net, AcceptSyn(m) PROVE SB!Next
  <2>1. m.flow \in Flows /\ m.daddr \in Proxies
    BY NetTyped, Zenon DEF Packets
  <2>2. conn[m.flow] = NoProxy
    BY <1>2, Zenon DEF AcceptSyn, MigrationInv, Travels, OpensFlow
  <2>3. config.state = AllActive
    BY Numbers, Stages, Zenon DEF MigrationInv, StageInv
  <2>4. m.daddr \in InService
    BY <2>1, <2>3 DEF InService, AllActive
  <2> QED BY <2>1, <2>2, <2>4, <1>1, <1>2, OpenStep, Zenon
<1>3. ASSUME NEW f \in Flows, Close(f) PROVE SB!Next
  BY <1>1, <1>3, ShutStep, Zenon
<1> QED BY <1>1, <1>2, <1>3, ConnChanges, SilentStep, Zenon

------------------------------------------------------------------------------
(* The theorems.  The library of well-founded relations is needed only here. *)
INSTANCE WellFoundedInduction

LEMMA LowestIs == LowestFirst
<1> SUFFICES ASSUME NEW r \in Rows, NEW S \in SUBSET Proxies, S # {}
             PROVE  /\ Lowest(r, S) \in S
                    /\ \A q \in S : Hash[r][Lowest(r, S)] <= Hash[r][q]
  BY Zenon DEF LowestFirst
<1> DEFINE T == {Hash[r][p] : p \in S}
<1>1. \A p \in Proxies : Hash[r][p] \in Nat
  BY TableConstants
<1>2. T \subseteq Nat /\ T # {}
  BY <1>1, Zenon
<1>3. \E x \in T : \A y \in T : ~(<<y, x>> \in OpToRel(<, Nat))
  <2> HIDE DEF T
  <2> QED BY <1>2, NatLessThanWellFounded, WFMin, ZenonT(30)
<1>4. PICK n \in T : \A y \in T : ~(y < n)
  BY <1>2, <1>3, ZenonT(30) DEF OpToRel
<1>5. PICK p \in S : Hash[r][p] = n
  BY <1>4, Zenon
<1>6. ASSUME NEW q \in S
      PROVE  Hash[r][p] <= Hash[r][q]
  <2>1. ~(Hash[r][q] < n)
    BY <1>4, Zenon
  <2> QED BY <2>1, <1>1, <1>5
<1> QED BY <1>6, Zenon DEF Lowest

(* Rendezvous hashing: taking one proxy out of the table moves no other     *)
(* proxy out of a row it was in.                                            *)
THEOREM RemovalKeepsOthers ==
  ASSUME NEW r \in Rows, NEW before, NEW after, NEW p,
         Available(after) = Available(before) \ {p},
         TwoAvailable(before), TwoAvailable(after)
  PROVE  {First(r, before), Second(r, before)} \ {p}
           \subseteq {First(r, after), Second(r, after)}
BY LowestIs, OthersKept, Zenon

LEMMA SecondChanceInvariant ==
  ASSUME "migrate" \notin Operations
  PROVE  Spec => []SCInv
<1>1. SCInv /\ [Next]_vars => SCInv'
  BY LowestIs, NextStep, Zenon
<1> QED BY <1>1, InitInv, PTL DEF Spec

(* Types; a packet has one alternate hop (glb_encapsulate_packet).          *)
THEOREM SecondChanceTypes ==
  ASSUME "migrate" \notin Operations
  PROVE  Spec => []TypeOK
<1>1. SCInv => TypeOK
  BY Zenon DEF SCInv
<1> QED BY <1>1, SecondChanceInvariant, PTL

(* No packet of an established connection is taken by another proxy, for    *)
(* any proxies, directors, flows and hash order, through every drain,       *)
(* removal, fill and health change.                                         *)
THEOREM ConnectionsKept ==
  ASSUME "migrate" \notin Operations
  PROVE  Spec => []NoConnectionBroken
<1>1. SCInv => NoConnectionBroken
  BY Zenon DEF SCInv
<1> QED BY <1>1, SecondChanceInvariant, PTL

(* The hops of every up-to-date director name the connection's proxy.       *)
THEOREM OwnersRouted ==
  ASSUME "migrate" \notin Operations
  PROVE  Spec => []OwnerInRoute
<1>1. SCInv => OwnerInRoute
  BY LowestIs, OwnerReached, Zenon
<1> QED BY <1>1, SecondChanceInvariant, PTL

(* A proxy that is drained everywhere is given no new connection.           *)
THEOREM DrainingDrains ==
  ASSUME "migrate" \notin Operations
  PROVE  Spec => DrainedGetsNoNewFlow
<1>1. SCInv /\ [Next]_vars =>
        [\A f \in Flows : conn'[f] \notin {NoProxy, conn[f]} /\ RolledOut =>
           config.state[conn'[f]] \notin {"draining", "inactive"}]_vars
  BY DrainStep, Zenon
<1> QED BY <1>1, SecondChanceInvariant, PTL DEF Spec, DrainedGetsNoNewFlow

(* Table builder, directors, network and redirecting proxies implement the  *)
(* abstract balancer, in which a connection belongs to the proxy that       *)
(* accepted it and to no other.                                             *)
THEOREM ImplementsBalancer ==
  ASSUME "migrate" \notin Operations
  PROVE  Spec => Balances
<1>1. SCInv /\ SCInv' /\ [Next]_vars => [SB!Next]_SB!vars
  BY BalancerStep, Zenon
<1> QED BY <1>1, BalancerInit, SecondChanceInvariant, PTL DEF Spec, Balances, SB!Spec

LEMMA MigrationInvariant ==
  ASSUME "lifecycle" \notin Operations, RowsApart
  PROVE  Spec => []MigrationInv
<1>1. MigrationInv /\ [Next]_vars => MigrationInv'
  BY LowestIs, MigrationStep, Zenon
<1> QED BY <1>1, MigrationInit, PTL DEF Spec

(* The hash fields are changed without breaking a connection, whatever the  *)
(* health of the proxies and however the directors lag, for any number of   *)
(* proxies, directors and flows, if no flow's old and new row share one of  *)
(* their two proxies (glb_calculate_packet_route with alt_hash_fields, and  *)
(* the redirect chain over up to four hops).                                *)
THEOREM MigrationIsSafe ==
  ASSUME "lifecycle" \notin Operations, RowsApart
  PROVE  Spec => []NoConnectionBroken
<1>1. MigrationInv => NoConnectionBroken
  BY Zenon DEF MigrationInv
<1> QED BY <1>1, MigrationInvariant, PTL

(* Meanwhile the hops of every up-to-date director name the flow's proxy.   *)
THEOREM MigrationRoutesOwners ==
  ASSUME "lifecycle" \notin Operations, RowsApart
  PROVE  Spec => []OwnerInRoute
<1>1. MigrationInv => OwnerInRoute
  BY LowestIs, MigrationReaches, Zenon
<1> QED BY <1>1, MigrationInvariant, PTL

(* Changing the hash fields is no step the clients see: the system goes on  *)
(* as the abstract balancer, in which a connection keeps its proxy.         *)
THEOREM MigrationBalances ==
  ASSUME "lifecycle" \notin Operations, RowsApart
  PROVE  Spec => Balances
<1>1. MigrationInv /\ MigrationInv' /\ [Next]_vars => [SB!Next]_SB!vars
  BY MigrationSteps, Zenon
<1> QED BY <1>1, BalancerInit, MigrationInvariant, PTL DEF Spec, Balances, SB!Spec

=============================================================================
