-------------------------- MODULE PacketPath_proofs --------------------------
(***************************************************************************)
(* What a packet's way keeps, for any configuration and any packet.        *)
(* PathInv says where the packet is and that its outer headers are those   *)
(* of some hop of its route; CheckInv, that their checksum is right;       *)
(* WayInv, that no proxy the packet has left has its connection.  The five *)
(* theorems are at the end.  The long arguments, on sums of words and on   *)
(* masks, are steps of the lemma that needs them.                          *)
(***************************************************************************)
EXTENDS PacketPath, TLAPS

------------------------------------------------------------------------------
(* The inputs.                                                              *)

Inputs ==
  /\ director \in {"dpdk", "xdp"}
  /\ \E c \in Settings :
       /\ BuildSucceeds(c.tables) /\ check_config(c.tables)
       /\ \E unset \in [1 .. 2 -> 1 .. MaxBackends] : setting = Loaded(c, unset)
  /\ pkt \in Packets
  /\ owner \in MayOwn(setting, pkt) \cup {NoProxy}
  /\ knows \in IF owner = NoProxy THEN {"nothing"} ELSE {"socket", "cookie"}
  /\ payload \in Payloads

LEMMA InputsInit == Init => Inputs
  BY DEF Init, Inputs

(* A bind of the source that the builder accepted. *)
SourceBind(b) ==
  /\ b.family \in Families /\ b.ip \in Addresses(b.family) /\ BindAccepted(b)
  /\ b.cidr \in Nat \cup {Absent} /\ b.proto \in STRING
  /\ b.port \in Int /\ b.port_start \in Int /\ b.port_end \in Int

BindShape ==
  [family : Families, ip : Seq(Nat), cidr : Nat \cup {Absent}, proto : STRING,
   port : Int, port_start : Int, port_end : Int]

LEMMA SourceBinds ==
  ASSUME NEW c \in Settings, BuildSucceeds(c.tables), check_config(c.tables),
         NEW t \in DOMAIN c.tables, NEW i \in DOMAIN c.tables[t].binds
  PROVE  SourceBind(c.tables[t].binds[i])
<1>1. c.tables \in Seq(Sources) /\ c.tables[t].binds[i].ip \in Addresses(c.tables[t].binds[i].family)
  BY PacketPathInputs
<1>2. c.tables[t] \in Sources
  BY <1>1
<1>3. PICK s : s = c.tables[t].binds
  BY Zenon
<1>4. s \in Seq(BindShape) /\ i \in DOMAIN s
  BY <1>2, <1>3 DEF Sources, BindShape
<1>5. s[i] \in BindShape /\ i \in 1 .. Len(s)
  BY <1>4
<1>6. Len(s) <= MaxTableBinds /\ Len(s) \in Nat
  BY <1>3, <1>4, TableBuilderConstants DEF check_config
<1>7. i <= MaxTableBinds
  BY <1>5, <1>6, TableBuilderConstants
<1>8. BindAccepted(c.tables[t].binds[i])
  BY <1>7 DEF BuildSucceeds
<1> QED BY <1>1, <1>3, <1>5, <1>8, Zenon DEF SourceBind, BindShape

(* What the directors load. *)
Serving ==
  /\ setting.binds = Binds(setting.tables)
  /\ \A t \in DOMAIN setting.tables : \A i \in DOMAIN setting.tables[t].binds :
       SourceBind(setting.tables[t].binds[i])
  /\ \E n \in Nat : DOMAIN setting.tables = 1 .. n
  /\ setting.hash_fields \in SUBSET HashFields /\ setting.alt_hash_fields \in SUBSET HashFields
  /\ setting.forward_icmp \in BOOLEAN

LEMMA FieldsChosen ==
  ASSUME NEW c \in Settings
  PROVE  hash_fields(c) \in SUBSET HashFields /\ alt_hash_fields(c) \in SUBSET HashFields
<1>1. c.hash_fields \in FieldChoices /\ c.alt_hash_fields \in FieldChoices
  BY PacketPathInputs
<1>2. ASSUME NEW x \in FieldChoices, x # <<>>
      PROVE  x[1] \in SUBSET HashFields
  <2>1. PICK f \in SUBSET HashFields : x = <<f>>
    BY <1>2 DEF FieldChoices
  <2> QED BY <2>1
<1>3. {"src_addr"} \in SUBSET HashFields /\ {} \in SUBSET HashFields
  BY DEF HashFields
<1> QED BY <1>1, <1>2, <1>3 DEF hash_fields, alt_hash_fields

LEMMA InputsServing == Inputs => Serving
<1> SUFFICES ASSUME Inputs PROVE Serving
  OBVIOUS
<1>1. PICK c \in Settings :
        /\ BuildSucceeds(c.tables) /\ check_config(c.tables)
        /\ \E unset \in [1 .. 2 -> 1 .. MaxBackends] : setting = Loaded(c, unset)
  BY DEF Inputs
<1>2. /\ setting.tables = c.tables /\ setting.binds = Binds(c.tables)
      /\ setting.hash_fields = hash_fields(c) /\ setting.alt_hash_fields = alt_hash_fields(c)
      /\ setting.forward_icmp = c.forward_icmp
  BY <1>1 DEF Loaded
<1>3. c.tables \in Seq(Sources) /\ c.forward_icmp \in BOOLEAN
  BY PacketPathInputs
<1>4. \E n \in Nat : DOMAIN c.tables = 1 .. n
  BY <1>3
<1>5. \A t \in DOMAIN c.tables : \A i \in DOMAIN c.tables[t].binds : SourceBind(c.tables[t].binds[i])
  BY <1>1, SourceBinds
<1> QED BY <1>2, <1>3, <1>4, <1>5, FieldsChosen DEF Serving

LEMMA PacketTyped ==
  ASSUME NEW p \in Packets
  PROVE  /\ p.sport \in Nat /\ p.dport \in Nat /\ p.inner.sport \in Nat /\ p.inner.dport \in Nat
         /\ p.icmp \in {Frag, Unreachable, Echo, OtherICMP, NotICMP}
         /\ p.icmp # NotICMP <=> p.proto = "icmp"
         /\ p.whole \in BOOLEAN
         /\ p.ether \in Families => p.dst \in Addresses(p.ether) /\ p.inner.src \in Addresses(p.ether)
<1>1. p \in PacketShape /\ (p.icmp # NotICMP <=> p.proto = "icmp")
      /\ (p.ether \in Families => {p.dst, p.inner.src} \subseteq Addresses(p.ether))
  BY PacketPathInputs, Zenon
<1> QED BY <1>1 DEF PacketShape

------------------------------------------------------------------------------
(* Tables, rows and routes.                                                 *)

LEMMA BindsOfTables ==
  ASSUME Serving, NEW b \in setting.binds
  PROVE  \E t \in DOMAIN setting.tables : \E i \in DOMAIN setting.tables[t].binds :
           /\ b = bind_entry(setting.tables[t].binds[i], t) /\ b.table = t
           /\ SourceBind(setting.tables[t].binds[i])
<1>0. \E t \in DOMAIN setting.tables : \E i \in DOMAIN setting.tables[t].binds :
        b = bind_entry(setting.tables[t].binds[i], t)
  BY DEF Serving, Binds
<1>a. PICK t \in DOMAIN setting.tables : \E i \in DOMAIN setting.tables[t].binds :
        b = bind_entry(setting.tables[t].binds[i], t)
  BY <1>0
<1>1. PICK i \in DOMAIN setting.tables[t].binds : b = bind_entry(setting.tables[t].binds[i], t)
  BY <1>a, Zenon
<1>2. b.table = t
  BY <1>1, Zenon DEF bind_entry
<1> QED BY <1>1, <1>2, Zenon DEF Serving

LEMMA RulesOfBind ==
  ASSUME NEW b, NEW forward, NEW r \in add_acls_for_bind(b, forward)
  PROVE  r.table = b.table /\ r.proto \in {b.proto, "icmp"}
<1>1. \/ r = add_acl_typical_bind_packet(b) \/ r = add_acl_return_icmp_fragmentation(b)
      \/ r = add_acl_icmp_echo_request(b)
  BY DEF add_acls_for_bind
<1> QED BY <1>1 DEF add_acl_typical_bind_packet, add_acl_return_icmp_fragmentation,
                    add_acl_icmp_echo_request, Rule

(* The rules that match a packet, and the binds they are compiled from. *)
Matches(b, p) ==
  /\ b.family = p.ether
  /\ \E r \in add_acls_for_bind(b, setting.forward_icmp) : RuleMatch(r, p)

found == classify_to_tables(setting.binds, setting.forward_icmp, pkt)

LEMMA RuleTables ==
  ASSUME NEW t
  PROVE  (\E r \in create_bind_classifier(setting.binds, setting.forward_icmp, pkt.ether) :
            RuleMatch(r, pkt) /\ r.table = t)
         <=> \E b \in setting.binds : Matches(b, pkt) /\ b.table = t
<1>1. \A r : r \in create_bind_classifier(setting.binds, setting.forward_icmp, pkt.ether)
             <=> \E b \in setting.binds :
                   b.family = pkt.ether /\ r \in add_acls_for_bind(b, setting.forward_icmp)
  BY DEF create_bind_classifier
<1> QED BY <1>1, RulesOfBind DEF Matches

LEMMA NoTableOfBinds ==
  ASSUME Serving, NEW b \in setting.binds
  PROVE  b.table # NoTable /\ b.table \in DOMAIN setting.tables
<1>1. PICK n \in Nat : DOMAIN setting.tables = 1 .. n
  BY DEF Serving
<1>2. b.table \in 1 .. n
  BY <1>1, BindsOfTables
<1> QED BY <1>1, <1>2 DEF NoTable

(* The DPDK director finds a table whose bind has a rule for the packet. *)
LEMMA FoundTables ==
  ASSUME Serving
  PROVE  /\ found \subseteq {NoTable} \cup {b.table : b \in setting.binds}
         /\ pkt.ether \notin Families => found = {NoTable}
         /\ Parses(pkt) =>
              /\ \A t \in found : t # NoTable => \E b \in setting.binds : Matches(b, pkt) /\ b.table = t
              /\ NoTable \in found => \A b \in setting.binds : ~Matches(b, pkt)
              /\ \A b \in setting.binds : Matches(b, pkt) => b.table \in found
              /\ (\A b \in setting.binds : ~Matches(b, pkt)) => found = {NoTable}
<1> DEFINE rules == create_bind_classifier(setting.binds, setting.forward_icmp, pkt.ether)
           matching == {r.table : r \in {x \in rules : RuleMatch(x, pkt)}}
<1>1. \A t : t \in matching <=> \E b \in setting.binds : Matches(b, pkt) /\ b.table = t
  <2>1. \A t : t \in matching <=> \E r \in rules : RuleMatch(r, pkt) /\ r.table = t
    OBVIOUS
  <2> QED BY <2>1, RuleTables
<1>2. \A r \in rules : \E b \in setting.binds : r.table = b.table
  <2>1. \A r \in rules : \E b \in setting.binds : r \in add_acls_for_bind(b, setting.forward_icmp)
    BY DEF create_bind_classifier
  <2> QED BY <2>1, RulesOfBind
<1>3. found = IF pkt.ether \notin Families THEN {NoTable}
              ELSE IF ~pkt.whole THEN {NoTable} \cup {r.table : r \in rules}
              ELSE IF matching = {} THEN {NoTable} ELSE matching
  BY Zenon DEF found, classify_to_tables
<1> HIDE DEF rules, matching
<1>4. found \subseteq {NoTable} \cup {b.table : b \in setting.binds}
  BY <1>1, <1>2, <1>3
<1>5. ASSUME Parses(pkt)
      PROVE  found = IF matching = {} THEN {NoTable} ELSE matching
  BY <1>3, <1>5 DEF Parses
<1>6. NoTable \notin matching
  BY <1>1, NoTableOfBinds
<1> QED BY <1>1, <1>3, <1>4, <1>5, <1>6, Zenon

(* A set of tables has a last one. *)
LastExists ==
  \A n \in Nat : \A S \in SUBSET (1 .. n) : S # {} => \E x \in S : \A y \in S : x >= y

KeyOf(p) ==
  LET c == glb_extract_packet_fields(p)
  IN [family |-> c.ether_type, ip |-> c.dst_addr, proto |-> c.original_ipproto, port |-> c.dst_port]

xdpTable == XdpLookup(setting.binds, glb_extract_packet_fields(pkt))

(* The XDP director finds a table whose bind has the packet's key. *)
LEMMA LookupTable ==
  ASSUME LastExists, Serving
  PROVE  /\ xdpTable # NoTable =>
              \E b \in setting.binds : KeyOf(pkt) \in BindKeys(b) /\ b.table = xdpTable
         /\ xdpTable = NoTable => \A b \in setting.binds : KeyOf(pkt) \notin BindKeys(b)
<1> DEFINE tables == {b.table : b \in {x \in setting.binds : KeyOf(pkt) \in BindKeys(x)}}
<1>1. xdpTable = IF tables = {} THEN NoTable ELSE Max(tables)
  BY DEF xdpTable, XdpLookup, GlbBinds, KeyOf
<1>2. PICK n \in Nat : DOMAIN setting.tables = 1 .. n
  BY DEF Serving
<1>3. tables \in SUBSET (1 .. n)
  BY <1>2, NoTableOfBinds
<1>4. ASSUME tables # {} PROVE Max(tables) \in tables
  <2>1. \E x \in tables : \A y \in tables : x >= y
    BY <1>3, <1>4, Zenon DEF LastExists
  <2> HIDE DEF tables
  <2> QED BY <2>1 DEF Max
<1>5. \A t \in tables : t # NoTable
  BY <1>3 DEF NoTable
<1> QED BY <1>1, <1>4, <1>5, Zenon

(* A backend's address, or the zero of an entry that no backend fills. *)
HopWords == Proxies \cup {0}

(* A row of a loaded table is two hops. *)
LEMMA RowsOfTables ==
  ASSUME Inputs, NEW t \in DOMAIN setting.tables, NEW r \in 0 .. Rows - 1
  PROVE  \E x, y \in HopWords : setting.rows[t][r] = <<x, y>>
<1>1. PICK c \in Settings : \E unset \in [1 .. 2 -> 1 .. MaxBackends] : setting = Loaded(c, unset)
  BY DEF Inputs
<1>2. PICK unset \in [1 .. 2 -> 1 .. MaxBackends] : setting = Loaded(c, unset)
  BY <1>1
<1>3. setting.tables = c.tables /\ setting.rows[t][r] = TableEntry(c.tables, t, r, unset)
  BY <1>2, Zenon DEF Loaded
<1>4. c.tables \in Seq(Sources)
  BY PacketPathInputs, Zenon
<1>5. c.tables[t].backends \in Seq([ip : Proxies, state : STRING, healthy : BOOLEAN])
  <2>1. c.tables[t] \in Sources
    BY <1>3, <1>4
  <2> QED BY <2>1 DEF Sources
<1>6. \A i : OutBackend(c.tables[t], i).ip \in HopWords
  <2> SUFFICES ASSUME NEW i PROVE OutBackend(c.tables[t], i).ip \in HopWords
    BY Zenon
  <2>1. CASE i \in DOMAIN c.tables[t].backends
    <3>0. PICK R : R = [ip : Proxies, state : STRING, healthy : BOOLEAN]
      BY Zenon
    <3>a. c.tables[t].backends[i] \in R
      <4>1. c.tables[t].backends \in Seq(R)
        BY <1>5, <3>0
      <4>2. \A b \in Seq(R) : i \in DOMAIN b => b[i] \in R
        OBVIOUS
      <4> QED BY <2>1, <4>1, <4>2
    <3>1. c.tables[t].backends[i].ip \in Proxies
      BY <3>0, <3>a
    <3> QED BY <2>1, <3>1 DEF OutBackend, HopWords
  <2>2. CASE i \notin DOMAIN c.tables[t].backends
    BY <2>2 DEF OutBackend, HopWords
  <2> QED BY <2>1, <2>2
<1>7. \E i, j : \/ TableEntry(c.tables, t, r, unset)
                   = <<OutBackend(c.tables[t], i).ip, OutBackend(c.tables[t], j).ip>>
  BY Zenon DEF TableEntry
<1> QED BY <1>3, <1>6, <1>7

fields == glb_extract_packet_fields(pkt)

Route == glb_calculate_packet_route(setting, table, fields)

LEMMA RowChosen ==
  ASSUME Inputs, table \in DOMAIN setting.tables, NEW F \in SUBSET HashFields
  PROVE  \E x, y \in HopWords : glb_add_packet_route(setting, table, fields, F) = <<x, y>>
<1>1. PICK c \in Settings : \E unset \in [1 .. 2 -> 1 .. MaxBackends] : setting = Loaded(c, unset)
  BY DEF Inputs
<1>2. setting.tables = c.tables
  BY <1>1 DEF Loaded
<1>3. table \in UNION {DOMAIN s.tables : s \in Settings} /\ pkt \in Packets
  BY <1>2 DEF Inputs
<1>4. RowOf(table, glb_compute_hash(fields, F)) \in 0 .. Rows - 1
  BY <1>3, RowsOfPackets, Zenon DEF fields
<1> QED BY <1>4, RowsOfTables DEF glb_add_packet_route

(* A route is one row, or two with the alternative fields. *)
LEMMA RouteShape ==
  ASSUME Inputs, table \in DOMAIN setting.tables
  PROVE  Route \in Seq(HopWords) /\ Len(Route) \in {2, 4}
<1>1. setting.hash_fields \in SUBSET HashFields /\ setting.alt_hash_fields \in SUBSET HashFields
  BY InputsServing DEF Serving
<1>2. PICK x \in HopWords, y \in HopWords :
        glb_add_packet_route(setting, table, fields, setting.hash_fields) = <<x, y>>
  BY <1>1, RowChosen
<1>3. PICK z \in HopWords, w \in HopWords :
        glb_add_packet_route(setting, table, fields, setting.alt_hash_fields) = <<z, w>>
  BY <1>1, RowChosen
<1>4. Route = <<x, y>> \o (IF setting.alt_hash_fields = {} THEN <<>> ELSE <<z, w>>)
  BY <1>2, <1>3 DEF Route, glb_calculate_packet_route
<1>5. <<x, y>> \in Seq(HopWords) /\ <<z, w>> \in Seq(HopWords) /\ <<>> \in Seq(HopWords)
      /\ Len(<<x, y>>) = 2 /\ Len(<<z, w>>) = 2 /\ Len(<<>>) = 0
  OBVIOUS
<1> QED BY <1>4, <1>5

------------------------------------------------------------------------------
(* The packet's way.                                                        *)

Outer(saddr, daddr, check, hlen, proto, next_hop, hop_count, hops) ==
  [saddr |-> saddr, daddr |-> daddr, check |-> check, hlen |-> hlen, proto |-> proto,
   next_hop |-> next_hop, hop_count |-> hop_count, hops |-> hops]

LEMMA OuterFields ==
  ASSUME NEW a, NEW b, NEW c, NEW h, NEW p, NEW n, NEW m, NEW s, NEW g,
         g = Outer(a, b, c, h, p, n, m, s)
  PROVE  /\ g.saddr = a /\ g.daddr = b /\ g.check = c /\ g.hlen = h /\ g.proto = p
         /\ g.next_hop = n /\ g.hop_count = m /\ g.hops = s
  BY DEF Outer

LEMMA OuterChecked ==
  ASSUME NEW a, NEW b, NEW c, NEW h, NEW p, NEW n, NEW m, NEW s, NEW k
  PROVE  [Outer(a, b, c, h, p, n, m, s) EXCEPT !.check = k] = Outer(a, b, k, h, p, n, m, s)
  BY DEF Outer

Readdressed(g, check, next_hop, saddr, daddr) ==
  [g EXCEPT !.check = check, !.next_hop = next_hop, !.saddr = saddr, !.daddr = daddr]

LEMMA OuterReaddressed ==
  ASSUME NEW a, NEW b, NEW c, NEW h, NEW p, NEW n, NEW m, NEW s, NEW g,
         g = Outer(a, b, c, h, p, n, m, s), NEW k, NEW f, NEW e, NEW d
  PROVE  Readdressed(g, k, f, e, d) = Outer(e, d, k, h, p, f, m, s)
<1>1. PICK F : F = {"saddr", "daddr", "check", "hlen", "proto", "next_hop", "hop_count", "hops"}
  BY Zenon
<1>2. DOMAIN g = F /\ g = [x \in F |-> g[x]]
   BY <1>1 DEF Outer
<1>3. PICK r : r = [g EXCEPT !.check = k, !.next_hop = f, !.saddr = e, !.daddr = d]
  BY Zenon
<1>4. DOMAIN r = F /\ r = [x \in F |-> r[x]]
  BY <1>2, <1>3, Zenon
<1>5. /\ r.check = k /\ r.next_hop = f /\ r.saddr = e /\ r.daddr = d
      /\ r.hlen = g.hlen /\ r.proto = g.proto /\ r.hop_count = g.hop_count /\ r.hops = g.hops
  BY <1>1, <1>2, <1>3, Zenon
<1>6. r.hlen = h /\ r.proto = p /\ r.hop_count = m /\ r.hops = s
  BY <1>5, OuterFields
<1>7. PICK o : o = Outer(e, d, k, h, p, f, m, s)
  BY Zenon
<1>8. \A x \in F : r[x] = o[x]
  BY <1>1, <1>5, <1>6, <1>7, OuterFields
<1>9. DOMAIN o = F /\ o = [x \in F |-> o[x]]
   BY <1>1, <1>7 DEF Outer
<1> QED BY <1>3, <1>4, <1>7, <1>8, <1>9, Zenon DEF Readdressed

(* The outer headers at the hop after n others, whatever the checksum is. *)
Hop(n, check) ==
  Outer(IF n = 0 THEN DirectorIP ELSE Route[n], Route[n + 1], check, Len(Route),
        fields.gue_ipproto, n, Len(Route) - 1, Tail(Route))

OnTheWay ==
  \E n \in 0 .. Len(Route) - 1 : \E check : gue = Hop(n, check) /\ (director = "xdp" => check = 0)

PathInv ==
  /\ Inputs
  /\ stage \in {"arrived", "classified", "kernel", "freed", "sent", "taken"}
  /\ stage = "arrived" => table = NoTable
  /\ director = "dpdk" /\ stage # "arrived" =>
       table \in found /\ (stage = "kernel" <=> table = NoTable)
  /\ director = "xdp" =>
       /\ stage # "classified" /\ table \in {NoTable, xdpTable}
       /\ table # NoTable => Parses(pkt)
       /\ stage = "kernel" /\ Parses(pkt) => xdpTable = NoTable
  /\ stage \in {"sent", "taken"} => Parses(pkt) /\ table # NoTable /\ OnTheWay

LEMMA PathInit == Init => PathInv
<1> SUFFICES ASSUME Init PROVE PathInv
  OBVIOUS
<1>1. Inputs
  BY InputsInit
<1>2. stage = "arrived" /\ table = NoTable
  BY DEF Init
<1> QED BY <1>1, <1>2 DEF PathInv

(* A table that was found, by either director, is one that was loaded. *)
LEMMA TableLoaded ==
  ASSUME LastExists, PathInv, table # NoTable
  PROVE  table \in DOMAIN setting.tables
<1>1. Serving /\ Inputs
  BY InputsServing DEF PathInv
<1>2. \A b \in setting.binds : b.table \in DOMAIN setting.tables
  BY <1>1, NoTableOfBinds, Zenon
<1>3. \E b \in setting.binds : b.table = table
  <2>1. CASE director = "dpdk"
    <3>1. table \in found
      BY <2>1 DEF PathInv
    <3> QED BY <1>1, <3>1, FoundTables
  <2>2. CASE director = "xdp"
    <3>1. table = xdpTable
      BY <2>2 DEF PathInv
    <3> QED BY <1>1, <3>1, LookupTable
  <2> QED BY <1>1, <2>1, <2>2, Zenon DEF Inputs
<1> QED BY <1>2, <1>3

(* What does not change with the inputs and the table. *)
LEMMA SameWay ==
  ASSUME inputs' = inputs
  PROVE  /\ director' = director /\ setting' = setting /\ pkt' = pkt /\ owner' = owner
         /\ knows' = knows /\ payload' = payload
         /\ found' = found /\ xdpTable' = xdpTable /\ fields' = fields
         /\ table' = table => Route' = Route
<1>1. director' = director /\ setting' = setting /\ pkt' = pkt /\ owner' = owner
      /\ knows' = knows /\ payload' = payload
  BY DEF inputs
<1>2. found' = found /\ xdpTable' = xdpTable /\ fields' = fields
  BY <1>1 DEF found, xdpTable, fields
<1> QED BY <1>1, <1>2 DEF Route

(* The first hop. *)
LEMMA FirstHop ==
  Hop(0, 0) = Outer(DirectorIP, Route[1], 0, Len(Route), fields.gue_ipproto, 0,
                    Len(Route) - 1, Tail(Route))
<1>1. 0 + 1 = 1
  OBVIOUS
<1> QED BY <1>1, Zenon DEF Hop

(* Encapsulation puts the packet at the first hop of its route. *)
LEMMA Encapsulated ==
  ASSUME Inputs, table \in DOMAIN setting.tables
  PROVE  glb_encapsulate_packet(Route, fields) = Hop(0, 0) /\ 0 \in 0 .. Len(Route) - 1
<1>1. Route \in Seq(HopWords) /\ Len(Route) \in {2, 4}
  BY RouteShape
<1>2. Head(Route) = Route[1] /\ 1 + Len(Route) - 1 = Len(Route)
  BY <1>1
<1>3. glb_encapsulate_packet(Route, fields)
      = Outer(DirectorIP, Route[1], 0, Len(Route), fields.gue_ipproto, 0, Len(Route) - 1, Tail(Route))
  BY <1>2, Zenon DEF glb_encapsulate_packet, Outer
<1> QED BY <1>1, <1>3, FirstHop

(* What a packet on its way says. *)
LEMMA HopFields ==
  ASSUME NEW n, NEW check, gue = Hop(n, check)
  PROVE  /\ gue.saddr = (IF n = 0 THEN DirectorIP ELSE Route[n]) /\ gue.daddr = Route[n + 1]
         /\ gue.check = check /\ gue.hlen = Len(Route) /\ gue.proto = fields.gue_ipproto
         /\ gue.next_hop = n /\ gue.hop_count = Len(Route) - 1 /\ gue.hops = Tail(Route)
<1>1. PICK a, b, h, p, m, s :
         /\ a = (IF n = 0 THEN DirectorIP ELSE Route[n]) /\ b = Route[n + 1] /\ h = Len(Route)
         /\ p = fields.gue_ipproto /\ m = Len(Route) - 1 /\ s = Tail(Route)
  BY Zenon
<1>2. gue = Outer(a, b, check, h, p, n, m, s)
  BY <1>1, Zenon DEF Hop
<1>3. /\ gue.saddr = a /\ gue.daddr = b /\ gue.check = check /\ gue.hlen = h /\ gue.proto = p
      /\ gue.next_hop = n /\ gue.hop_count = m /\ gue.hops = s
  BY <1>2, OuterFields
<1> QED BY <1>1, <1>3, Zenon

(* A proxy that forwards the packet puts it at the next hop of its route. *)
LEMMA ForwardedHop ==
  ASSUME Inputs, table \in DOMAIN setting.tables,
         NEW n \in 0 .. Len(Route) - 1, NEW check, gue = Hop(n, check), HasAlternate
  PROVE  /\ n + 1 \in 0 .. Len(Route) - 1 /\ alt = Route[n + 2]
         /\ Forwarded = Hop(n + 1, Forwarded.check)
         /\ check = 0 => Forwarded.check = 0
<1>1. Route \in Seq(HopWords) /\ Len(Route) \in {2, 4}
  BY RouteShape
<1>2. n < Len(Route) - 1
  BY HopFields DEF HasAlternate
<1>3. n + 1 \in 0 .. Len(Route) - 1 /\ n + 1 \in 1 .. Len(Tail(Route)) /\ n + 1 # 0
  BY <1>1, <1>2
<1>4. alt = Route[n + 2]
  <2>1. alt = Tail(Route)[n + 1]
    BY HopFields, Zenon DEF alt
  <2>2. \A i \in 1 .. Len(Tail(Route)) : Tail(Route)[i] = Route[i + 1]
    BY <1>1
  <2>3. n + 1 + 1 = n + 2
    OBVIOUS
  <2> QED BY <1>3, <2>1, <2>2, <2>3, Zenon
<1>5. PICK k : /\ Forwarded = Readdressed(gue, k, gue.next_hop + 1, gue.daddr, alt)
               /\ check = 0 => k = 0
  BY HopFields, Zenon DEF Forwarded, Readdressed
<1>6. Forwarded = Outer(Route[n + 1], Route[n + 2], k, Len(Route), fields.gue_ipproto, n + 1,
                        Len(Route) - 1, Tail(Route))
  <2>1. Forwarded = Readdressed(gue, k, n + 1, Route[n + 1], Route[n + 2])
    BY <1>4, <1>5, HopFields, Zenon
  <2>2. PICK a, b, h, p, m, s :
          /\ a = (IF n = 0 THEN DirectorIP ELSE Route[n]) /\ b = Route[n + 1] /\ h = Len(Route)
          /\ p = fields.gue_ipproto /\ m = Len(Route) - 1 /\ s = Tail(Route)
    BY Zenon
  <2>3. gue = Outer(a, b, check, h, p, n, m, s)
    BY <2>2, Zenon DEF Hop
  <2>4. \A f, e, d : Readdressed(gue, k, f, e, d) = Outer(e, d, k, h, p, f, m, s)
    BY <2>3, OuterReaddressed
  <2> QED BY <2>1, <2>2, <2>4, Zenon
<1>7. Forwarded = Hop(n + 1, k)
  <2>1. n + 1 + 1 = n + 2
    OBVIOUS
  <2> QED BY <1>3, <1>6, <2>1, Zenon DEF Hop
<1>8. Forwarded.check = k
  BY <1>6, OuterFields
<1> QED BY <1>3, <1>4, <1>5, <1>7, <1>8, Zenon

(* The parser: what it calls the packet's protocol and, of an error, what   *)
(* it takes from the quoted header.                                         *)
LEMMA PlainFields ==
  ASSUME pkt.proto # "icmp"
  PROVE  /\ fields.src_addr = pkt.src /\ fields.dst_addr = pkt.dst
         /\ fields.src_port = pkt.sport /\ fields.dst_port = pkt.dport
         /\ fields.original_ipproto = pkt.proto
<1>1. \E g : fields = Plain(pkt, g)
  BY Zenon DEF fields, glb_extract_packet_fields, extract_packet_fields_ipv4, extract_packet_fields_ipv6
<1> QED BY <1>1 DEF Plain, RouteContext

LEMMA QuotedFields ==
  ASSUME pkt.proto = "icmp", pkt.icmp = Frag
  PROVE  /\ fields.src_addr = pkt.inner.dst /\ fields.dst_addr = pkt.inner.src
         /\ fields.src_port = pkt.inner.dport /\ fields.dst_port = pkt.inner.sport
         /\ fields.original_ipproto = pkt.inner.proto
<1>1. \E g : fields = Quoted(pkt, g)
  BY Zenon DEF fields, glb_extract_packet_fields, extract_packet_fields_ipv4, extract_packet_fields_ipv6
<1> QED BY <1>1 DEF Quoted, RouteContext

LEMMA OuterProtocol ==
  ASSUME Parses(pkt)
  PROVE  /\ fields.gue_ipproto = (IF pkt.ether = "ipv4" THEN "ipip" ELSE "ipv6")
         /\ fields.ether_type = pkt.ether
<1> DEFINE g == IF pkt.ether = "ipv4" THEN "ipip" ELSE "ipv6"
<1>1. fields \in {Plain(pkt, g), Quoted(pkt, g), Portless(pkt, g)}
  BY Zenon DEF fields, glb_extract_packet_fields, extract_packet_fields_ipv4, extract_packet_fields_ipv6
<1> HIDE DEF g
<1>2. fields.gue_ipproto = g /\ fields.ether_type = pkt.ether
  BY <1>1 DEF Plain, Quoted, Portless, RouteContext
<1> QED BY <1>2 DEF g

(* A packet with a table is of a protocol that binds have, or ICMP. *)
LEMMA ServedProtocol ==
  ASSUME LastExists, PathInv, Parses(pkt), table # NoTable
  PROVE  pkt.proto \in {"tcp", "udp", "icmp"}
<1>1. Serving /\ Inputs
  BY InputsServing, Zenon DEF PathInv
<1>2. \A b \in setting.binds : b.proto \in {"tcp", "udp"}
  <2> SUFFICES ASSUME NEW b \in setting.binds PROVE b.proto \in {"tcp", "udp"}
    BY Zenon
  <2>1. \E s : SourceBind(s) /\ b.proto = s.proto
    BY <1>1, BindsOfTables DEF bind_entry
  <2> QED BY <2>1 DEF SourceBind, BindAccepted
<1>3. CASE director = "dpdk"
  <2>1. table \in found
    BY <1>3, Zenon DEF PathInv
  <2>2. PICK b \in setting.binds : Matches(b, pkt)
    BY <1>1, <2>1, FoundTables, Zenon
  <2>3. PICK r \in add_acls_for_bind(b, setting.forward_icmp) : RuleMatch(r, pkt)
    BY <2>2, Zenon DEF Matches
  <2>4. r.proto \in {b.proto, "icmp"} /\ pkt.proto = r.proto
    BY <2>3, RulesOfBind, Zenon DEF RuleMatch
  <2> QED BY <1>2, <2>4, Zenon
<1>4. CASE director = "xdp"
  <2>1. table = xdpTable
    BY <1>4, Zenon DEF PathInv
  <2>2. PICK b \in setting.binds : KeyOf(pkt) \in BindKeys(b)
    BY <1>1, <2>1, LookupTable, Zenon
  <2>3. KeyOf(pkt).proto \in {b.proto, "icmp"} /\ KeyOf(pkt).proto = fields.original_ipproto
    BY <2>2, Zenon DEF BindKeys, KeyOf, fields
  <2> QED BY <1>2, <2>3, PlainFields, Zenon
<1> QED BY <1>1, <1>3, <1>4, Zenon DEF Inputs

(* The outer headers at any hop pass the checks of the redirect target. *)
LEMMA Accepted ==
  ASSUME LastExists, PathInv, stage = "sent"
  PROVE  ValidGue(gue) /\ Inner(pkt).verdict # "drop"
<1>1. Inputs /\ Parses(pkt) /\ table # NoTable /\ OnTheWay
  BY DEF PathInv
<1>2. table \in DOMAIN setting.tables
  BY <1>1, TableLoaded
<1>3. Len(Route) \in {2, 4}
  BY <1>1, <1>2, RouteShape
<1>4. PICK n, check : gue = Hop(n, check)
  BY <1>1 DEF OnTheWay
<1>5. gue.hlen = Len(Route) /\ gue.hop_count = Len(Route) - 1 /\ gue.proto = fields.gue_ipproto
  BY <1>4, HopFields
<1>6. gue.proto = (IF pkt.ether = "ipv4" THEN "ipip" ELSE "ipv6")
  BY <1>1, <1>5, OuterProtocol
<1>7. ValidGue(gue)
  <2>1. gue.hlen >= 1 /\ gue.hlen <= MAX_HOPS + 1 /\ gue.hlen = gue.hop_count + 1
    <3>1. ASSUME NEW l \in {2, 4} PROVE l >= 1 /\ l <= MAX_HOPS + 1 /\ l = (l - 1) + 1
      BY DEF MAX_HOPS
    <3> QED BY <1>3, <1>5, <3>1, Zenon
  <2> QED BY <1>6, <2>1, Zenon DEF ValidGue
<1>8. pkt.proto \in {"tcp", "udp", "icmp"}
  BY <1>1, ServedProtocol, Zenon
<1>9. Inner(pkt).verdict \in {"lookup", "continue"}
  <2>1. \A t : Lookup(t).verdict = "lookup"
    BY DEF Lookup
  <2>2. Verdict("continue").verdict = "continue"
    BY Zenon DEF Verdict
  <2> QED BY <1>8, <2>1, <2>2, Zenon DEF Inner, glbredirect_handle_inner_ipv4,
             glbredirect_handle_inner_ipv6, fill_tcp_from_icmp
<1> QED BY <1>7, <1>9

(* Every step keeps the invariant of the packet's way. *)
LEMMA PathStep ==
  LastExists /\ PathInv /\ [Next]_vars => PathInv'
<1>InputsStep.
  ASSUME Inputs, inputs' = inputs
  PROVE  Inputs'
  BY <1>InputsStep DEF Inputs, inputs, MayOwn
<1>SameHops.
  ASSUME inputs' = inputs, table' = table, NEW n, NEW check
  PROVE  Hop(n, check)' = Hop(n, check)
  <2> USE <1>SameHops
  <2>1. Route' = Route /\ fields' = fields
    BY SameWay
  <2> QED BY <2>1 DEF Hop
<1>SameOnTheWay.
  ASSUME inputs' = inputs, table' = table, gue' = gue, OnTheWay
  PROVE  OnTheWay'
  <2> USE <1>SameOnTheWay
  <2>1. Route' = Route /\ director' = director
    BY SameWay
  <2>2. PICK n \in 0 .. Len(Route) - 1 : \E check : gue = Hop(n, check) /\ (director = "xdp" => check = 0)
    BY DEF OnTheWay
  <2>3. PICK check : gue = Hop(n, check) /\ (director = "xdp" => check = 0)
    BY <2>2
  <2>4. gue' = Hop(n, check)'
    BY <2>3, <1>SameHops
  <2> QED BY <2>1, <2>3, <2>4 DEF OnTheWay
<1>XdpEncapsulated.
  ASSUME Inputs, table \in DOMAIN setting.tables
  PROVE  XdpEncapsulate(XdpRoute(setting, table, fields), fields) = Hop(0, 0)
  <2> USE <1>XdpEncapsulated
  <2>1. Route \in Seq(HopWords) /\ Len(Route) \in {2, 4}
    BY RouteShape
  <2>2. XdpRoute(setting, table, fields) = Route
    <3>1. setting.hash_fields \in SUBSET HashFields
      BY InputsServing DEF Serving
    <3>2. PICK x \in HopWords, y \in HopWords :
            glb_add_packet_route(setting, table, fields, setting.hash_fields) = <<x, y>>
      BY <3>1, RowChosen
    <3>3. <<x, y>> \o <<>> = <<x, y>>
      OBVIOUS
    <3> QED BY <3>2, <3>3, Zenon DEF XdpRoute, Route, glb_calculate_packet_route, glb_add_packet_route
  <2>3. SubSeq(Route, 2, Len(Route)) = Tail(Route)
    BY <2>1
  <2>4. 1 + (Len(Route) - 1) = Len(Route)
    BY <2>1
  <2> QED BY <2>2, <2>3, <2>4, FirstHop, Zenon DEF XdpEncapsulate, Outer
<1>DpdkClassifyStep.
  ASSUME PathInv, DpdkClassify
  PROVE  PathInv'
  <2> USE <1>DpdkClassifyStep
  <2>1. /\ inputs' = inputs /\ director = "dpdk" /\ table' \in found
        /\ stage' = IF table' = NoTable THEN "kernel" ELSE "classified"
    BY DEF DpdkClassify, found
  <2>2. Inputs' /\ found' = found /\ director' = "dpdk"
    BY <2>1, <1>InputsStep, SameWay, Zenon DEF PathInv
  <2> QED BY <2>1, <2>2 DEF PathInv
<1>DpdkEncapsulateStep.
  ASSUME LastExists, PathInv, DpdkEncapsulate
  PROVE  PathInv'
  <2> USE <1>DpdkEncapsulateStep
  <2>1. /\ inputs' = inputs /\ table' = table /\ stage = "classified" /\ stage' = "sent" /\ Parses(pkt)
        /\ gue' = glb_checksum_offloading(glb_encapsulate_packet(Route, fields))
    BY Zenon DEF DpdkEncapsulate, fields, Route
  <2>2. director = "dpdk" /\ table \in found /\ table # NoTable /\ Inputs
    BY <2>1 DEF PathInv, Inputs
  <2>3. table \in DOMAIN setting.tables
    BY <2>2, TableLoaded
  <2>4. gue' = glb_checksum_offloading(Hop(0, 0)) /\ 0 \in 0 .. Len(Route) - 1
    BY <2>1, <2>2, <2>3, Encapsulated
  <2>5. PICK k : gue' = [Hop(0, 0) EXCEPT !.check = k]
    BY <2>4, Zenon DEF glb_checksum_offloading
  <2>6. [Hop(0, 0) EXCEPT !.check = k] = Hop(0, k)
    BY OuterChecked DEF Hop
  <2>7. gue' = Hop(0, k)'
    BY <2>1, <2>5, <2>6, <1>SameHops, Zenon
  <2>8. /\ Inputs' /\ found' = found /\ director' = "dpdk" /\ pkt' = pkt /\ Route' = Route
    BY <2>1, <2>2, <1>InputsStep, SameWay, Zenon
  <2>9. OnTheWay'
    BY <2>4, <2>7, <2>8, Zenon DEF OnTheWay
  <2> QED BY <2>1, <2>2, <2>8, <2>9, Zenon DEF PathInv, Parses
(* A packet that is freed, or left to the kernel, stays as it is. *)
<1>FreedStep.
  ASSUME PathInv, inputs' = inputs, table' = table, stage' = "freed", stage # "kernel",
         stage = "arrived" => director = "xdp"
  PROVE  PathInv'
  <2> USE <1>FreedStep
  <2>1. Inputs' /\ found' = found /\ director' = director /\ pkt' = pkt /\ xdpTable' = xdpTable
    BY <1>InputsStep, SameWay, Zenon DEF PathInv
  <2> QED BY <2>1, Zenon DEF PathInv, Parses
<1>XdpPassStep.
  ASSUME PathInv, XdpPass
  PROVE  PathInv'
  <2> USE <1>XdpPassStep
  <2>1. /\ inputs' = inputs /\ director = "xdp" /\ stage = "arrived" /\ table' = table
        /\ stage' = "kernel" /\ (Parses(pkt) => xdpTable = NoTable)
    BY DEF XdpPass, xdpTable
  <2>2. Inputs' /\ director' = "xdp" /\ pkt' = pkt /\ xdpTable' = xdpTable
    BY <2>1, <1>InputsStep, SameWay, Zenon DEF PathInv
  <2> QED BY <2>1, <2>2 DEF PathInv, Parses
<1>XdpFirstHop.
  Inputs /\ table \in DOMAIN setting.tables =>
    /\ XdpEncapsulate(XdpRoute(setting, table, fields), fields) = Hop(0, 0)
    /\ 0 \in 0 .. Len(Route) - 1
  BY <1>XdpEncapsulated, Encapsulated, Zenon
<1>XdpProcessStep.
  ASSUME LastExists, PathInv, XdpProcess
  PROVE  PathInv'
  <2> USE <1>XdpProcessStep
  <2>1. /\ inputs' = inputs /\ director = "xdp" /\ Parses(pkt) /\ table' = xdpTable
        /\ table' # NoTable /\ stage' = "sent"
        /\ gue' = XdpEncapsulate(XdpRoute(setting, table', fields), fields)
    BY DEF XdpProcess, xdpTable, fields
  <2>2. /\ Inputs' /\ Inputs /\ director' = "xdp" /\ pkt' = pkt /\ xdpTable' = xdpTable
        /\ setting' = setting /\ fields' = fields
    BY <2>1, <1>InputsStep, SameWay, Zenon DEF PathInv
  <2>3. table' \in DOMAIN setting.tables
    BY <2>1, <2>2, InputsServing, LookupTable, NoTableOfBinds
  <2>4. (XdpEncapsulate(XdpRoute(setting, table, fields), fields) = Hop(0, 0)
         /\ 0 \in 0 .. Len(Route) - 1)'
    <3>2. (Inputs /\ table \in DOMAIN setting.tables)'
      BY <2>2, <2>3, Zenon
    <3> QED BY <3>2, <1>XdpFirstHop, PTL
  <2>5. gue' = Hop(0, 0)' /\ (0 \in 0 .. Len(Route) - 1)'
    BY <2>1, <2>2, <2>4
  <2>6. OnTheWay'
    BY <2>5, Zenon DEF OnTheWay
  <2> QED BY <2>1, <2>2, <2>6, Zenon DEF PathInv, Parses
<1>ForwardStep.
  ASSUME LastExists, PathInv, ForwardToAlternate
  PROVE  PathInv'
  <2> USE <1>ForwardStep
  <2>1. /\ inputs' = inputs /\ table' = table /\ stage = "sent" /\ stage' = "sent"
        /\ HasAlternate /\ gue' = Forwarded
    BY DEF ForwardToAlternate, NeedsAlternate
  <2>2. Inputs /\ table # NoTable /\ OnTheWay
    BY <2>1 DEF PathInv
  <2>3. table \in DOMAIN setting.tables
    BY <2>2, TableLoaded
  <2>4. PICK n \in 0 .. Len(Route) - 1 : \E check : gue = Hop(n, check) /\ (director = "xdp" => check = 0)
    BY <2>2 DEF OnTheWay
  <2>5. PICK check : gue = Hop(n, check) /\ (director = "xdp" => check = 0)
    BY <2>4, Zenon
  <2>6. PICK k : /\ n + 1 \in 0 .. Len(Route) - 1 /\ Forwarded = Hop(n + 1, k)
                 /\ director = "xdp" => k = 0
    BY <2>1, <2>2, <2>3, <2>5, ForwardedHop, Zenon
  <2>7. gue' = Hop(n + 1, k)'
    BY <2>1, <2>6, <1>SameHops, Zenon
  <2>8. /\ Inputs' /\ found' = found /\ director' = director /\ pkt' = pkt /\ Route' = Route
        /\ xdpTable' = xdpTable
    BY <2>1, <2>2, <1>InputsStep, SameWay, Zenon
  <2>9. OnTheWay'
    BY <2>6, <2>7, <2>8, Zenon DEF OnTheWay
  <2> QED BY <2>1, <2>8, <2>9, Zenon DEF PathInv, Parses
<1>TakenStep.
  ASSUME LastExists, PathInv, glbredirect_tg4
  PROVE  PathInv'
  <2> USE <1>TakenStep
  <2>1. /\ inputs' = inputs /\ table' = table /\ gue' = gue /\ stage = "sent"
        /\ stage' = IF ValidGue(gue) /\ Inner(pkt).verdict # "drop" THEN "taken" ELSE "refused"
    BY DEF glbredirect_tg4
  <2>2. stage' = "taken"
    BY <2>1, Accepted, Zenon
  <2>3. /\ Inputs' /\ found' = found /\ director' = director /\ pkt' = pkt /\ xdpTable' = xdpTable
    BY <2>1, <1>InputsStep, SameWay, Zenon DEF PathInv
  <2>4. OnTheWay'
    BY <2>1, <1>SameOnTheWay DEF PathInv
  <2> QED BY <2>1, <2>2, <2>3, <2>4, Zenon DEF PathInv, Parses
<1>PathStep.
  ASSUME LastExists, PathInv, [Next]_vars
  PROVE  PathInv'
  <2> USE <1>PathStep
  <2>1. CASE DpdkClassify BY <2>1, <1>DpdkClassifyStep
  <2>2. CASE DpdkEncapsulate BY <2>2, <1>DpdkEncapsulateStep
  <2>3. CASE DpdkFree BY <2>3, <1>FreedStep, Zenon DEF DpdkFree
  <2>4. CASE XdpPass BY <2>4, <1>XdpPassStep
  <2>5. CASE XdpProcess BY <2>5, <1>XdpProcessStep
  <2>6. CASE XdpDrop BY <2>6, <1>FreedStep, Zenon DEF XdpDrop
  <2>7. CASE glbredirect_tg4 BY <2>7, <1>TakenStep
  <2>8. CASE ForwardToAlternate BY <2>8, <1>ForwardStep
  <2>9. CASE NoRoute BY <2>9, <1>FreedStep, Zenon DEF NoRoute
  <2>10. CASE UNCHANGED vars
    <3>1. inputs' = inputs /\ table' = table /\ gue' = gue /\ stage' = stage
      BY <2>10, Zenon DEF vars, inputs
    <3>2. /\ Inputs' /\ found' = found /\ director' = director /\ pkt' = pkt /\ xdpTable' = xdpTable
      BY <3>1, <1>InputsStep, SameWay DEF PathInv
    <3>3. OnTheWay => OnTheWay'
      BY <3>1, <1>SameOnTheWay
    <3> QED BY <3>1, <3>2, <3>3, Zenon DEF PathInv, Parses
  <2> QED BY <2>1, <2>2, <2>3, <2>4, <2>5, <2>6, <2>7, <2>8, <2>9, <2>10 DEF Next
<1> QED BY <1>PathStep, Zenon

------------------------------------------------------------------------------
(* The checksum.                                                            *)

(* Equal sums of words, as the checksum sees them. *)
SameSum(x, y, m) == \E k \in Int : x = y + k * m

(* What the hops do not change of a packet's sum. *)
Rest ==
  GLB_MAX_HOPS * (Len(Route) - 1) + payload
    + (IF Len(Route) - 1 >= 1 THEN Tail(Route)[1] ELSE 0)
    + (IF Len(Route) - 1 >= 2 THEN Tail(Route)[2] ELSE 0)
    + (IF Len(Route) - 1 >= 3 THEN Tail(Route)[3] ELSE 0)

Checked(g) ==
  /\ g.check \in 0 .. AllOnes
  /\ g.check = 0 \/ SameSum(WordSum(g) + g.check, 0, AllOnes)

LEMMA FieldsOfHop ==
  ASSUME NEW n, NEW check, NEW g, g = Hop(n, check)
  PROVE  /\ g.saddr = (IF n = 0 THEN DirectorIP ELSE Route[n]) /\ g.daddr = Route[n + 1]
         /\ g.check = check /\ g.next_hop = n /\ g.hop_count = Len(Route) - 1
         /\ g.hops = Tail(Route)
<1>1. PICK a, b, h, p, m, s :
         /\ a = (IF n = 0 THEN DirectorIP ELSE Route[n]) /\ b = Route[n + 1] /\ h = Len(Route)
         /\ p = fields.gue_ipproto /\ m = Len(Route) - 1 /\ s = Tail(Route)
  BY Zenon
<1>2. g = Outer(a, b, check, h, p, n, m, s)
  BY <1>1, Zenon DEF Hop
<1>3. /\ g.saddr = a /\ g.daddr = b /\ g.check = check
      /\ g.next_hop = n /\ g.hop_count = m /\ g.hops = s
  BY <1>2, OuterFields
<1> QED BY <1>1, <1>3, Zenon

(* The redirect target's checksum: the hop that is used up, then the        *)
(* addresses.                                                               *)
Carries(a, b, n, r, c) == c \in 0 .. AllOnes /\ SameSum(a + b + n + r + c, 0, AllOnes)

CheckInv == stage = "sent" => Checked(gue)

(* Every step keeps the checksum, which then verifies. *)
LEMMA CheckSteps ==
  LastExists =>
    /\ PathInv /\ CheckInv /\ [Next]_vars => CheckInv'
    /\ PathInv /\ CheckInv => ChecksumKept
(* Folding keeps a sum modulo all ones, and keeps it positive. *)
<1>WordType. 2^CheckBits \in Nat
  BY PacketPathConstants
<1>FoldOnce.
  ASSUME NEW w \in Nat, w >= 16, NEW x \in Nat, x < 16 * w
  PROVE  /\ (x % w) + (x \div w) \in 0 .. (2 * w - 2)
         /\ x > 0 => (x % w) + (x \div w) > 0
         /\ \E k \in Nat : x = (x % w) + (x \div w) + k * (w - 1)
  <2> USE <1>FoldOnce
  <2>1. PICK q \in Int, r \in 0 .. w - 1 : q = x \div w /\ r = x % w /\ x = w * q + r
    OBVIOUS
  <2>2. q >= 0 /\ q <= 15
    <3>1. ASSUME q < 0 PROVE FALSE
      <4>1. w * q <= w * (-1)
        BY <3>1
      <4> QED BY <2>1, <4>1
    <3>2. ASSUME q > 15 PROVE FALSE
      <4>1. w * q >= w * 16
        BY <3>2
      <4> QED BY <2>1, <4>1
    <3> QED BY <3>1, <3>2
  <2>3. x = r + q + q * (w - 1)
    BY <2>1
  <2>4. x > 0 => r + q > 0
    BY <2>1, <2>2
  <2>5. q \in Nat /\ r + q \in 0 .. (2 * w - 2)
    BY <2>1, <2>2
  <2>6. (x % w) + (x \div w) = r + q
    BY <2>1
  <2>7. \E k \in Nat : x = r + q + k * (w - 1)
    BY <2>3, <2>5, Zenon
  <2> QED BY <2>4, <2>5, <2>6, <2>7, Zenon
<1>FoldTwice.
  ASSUME NEW w \in Nat, w >= 16, NEW x \in Nat, x <= 2 * w - 2
  PROVE  /\ (x % w) + (x \div w) \in 0 .. (w - 1)
         /\ x > 0 => (x % w) + (x \div w) > 0
         /\ \E k \in Nat : x = (x % w) + (x \div w) + k * (w - 1)
  <2> USE <1>FoldTwice
  <2>1. CASE x < w
    <3>1. x % w = x /\ x \div w = 0
      BY <2>1
    <3>2. x = (x % w) + (x \div w) + 0 * (w - 1)
      BY <3>1
    <3> QED BY <2>1, <3>1, <3>2
  <2>2. CASE x >= w
    <3>1. x % w = x - w /\ x \div w = 1
      BY <2>2
    <3>2. x = (x % w) + (x \div w) + 1 * (w - 1)
      BY <3>1
    <3> QED BY <2>2, <3>1, <3>2
  <2> QED BY <2>1, <2>2
<1>FoldSum.
  ASSUME NEW x \in Nat, x < 16 * (AllOnes + 1)
  PROVE  Fold(x) \in 0 .. AllOnes /\ (x > 0 => Fold(x) > 0) /\ SameSum(x, Fold(x), AllOnes)
  <2> USE <1>FoldSum
  <2>1. PICK w \in Nat : w = 2^CheckBits
    BY <1>WordType, Zenon
  <2>2. w >= 16 /\ AllOnes = w - 1 /\ x < 16 * w
    BY <2>1, PacketPathConstants DEF AllOnes
  <2>3. PICK y : y = Fold1(x)
    OBVIOUS
  <2>4. y = (x % w) + (x \div w)
    BY <2>1, <2>3 DEF Fold1
  <2>5. y \in 0 .. (2 * w - 2) /\ (x > 0 => y > 0) /\ \E k \in Nat : x = y + k * (w - 1)
    BY <2>2, <2>4, <1>FoldOnce, Zenon
  <2>6. PICK z : z = Fold(x)
    OBVIOUS
  <2>7. z = (y % w) + (y \div w)
    BY <2>1, <2>3, <2>6, Zenon DEF Fold, Fold1
  <2>8. y \in Nat /\ y <= 2 * w - 2
    BY <2>5
  <2>9. z \in 0 .. (w - 1) /\ (y > 0 => z > 0) /\ \E k \in Nat : y = z + k * (w - 1)
    BY <2>2, <2>7, <2>8, <1>FoldTwice, Zenon
  <2>10. PICK a \in Nat : x = y + a * (w - 1)
    BY <2>5
  <2>11. PICK b \in Nat : y = z + b * (w - 1)
    BY <2>9, Zenon
  <2>12. x = z + (a + b) * (w - 1) /\ a + b \in Int
    BY <2>9, <2>10, <2>11, <2>5, <2>2
  <2>13. SameSum(x, z, w - 1)
    BY <2>12, Zenon DEF SameSum
  <2> QED BY <2>2, <2>5, <2>6, <2>9, <2>13
(* The part of a sum that the checksum complements, and what csum_replace   *)
(* makes of it.                                                             *)
<1>OnesType. AllOnes \in Nat /\ AllOnes >= 15
  BY <1>WordType, PacketPathConstants DEF AllOnes
<1>ReplacedSum.
  ASSUME NEW check \in 0 .. AllOnes, NEW from \in 0 .. AllOnes, NEW to \in 0 .. AllOnes
  PROVE  /\ csum_replace(check, from, to) \in 0 .. AllOnes
         /\ SameSum(csum_replace(check, from, to) + to, check + from, AllOnes)
  <2> USE <1>ReplacedSum
  <2>1. PICK m \in Nat : m = AllOnes /\ m >= 15
    BY <1>OnesType
  <2>2. PICK x : x = Complement(check) + Complement(from)
    OBVIOUS
  <2>3. x \in Nat /\ x <= 2 * m /\ x = m - check + m - from
    BY <2>1, <2>2 DEF Complement
  <2>4. PICK y : y = Fold(x)
    BY Zenon
  <2>5. y \in 0 .. m /\ SameSum(x, y, m)
    BY <2>1, <2>3, <2>4, <1>FoldSum
  <2>6. PICK z : z = Fold(y + to)
    BY Zenon
  <2>7. z \in 0 .. m /\ SameSum(y + to, z, m)
    BY <2>1, <2>5, <2>6, <1>FoldSum
  <2>8. PICK r : r = csum_replace(check, from, to)
    OBVIOUS
  <2>9. r = m - z
    BY <2>1, <2>2, <2>4, <2>6, <2>8, Zenon DEF csum_replace, Complement
  <2>10. PICK a \in Int : x = y + a * m
    BY <2>5 DEF SameSum
  <2>11. PICK b \in Int : y + to = z + b * m
    BY <2>7, Zenon DEF SameSum
  <2>12. r + to = check + from + (a + b - 1) * m /\ a + b - 1 \in Int
    BY <2>1, <2>3, <2>5, <2>7, <2>9, <2>10, <2>11
  <2>13. SameSum(r + to, check + from, m)
    BY <2>12, Zenon DEF SameSum
  <2> QED BY <2>1, <2>7, <2>8, <2>9, <2>13
<1>MultipleOfOnes.
  ASSUME NEW m \in Nat, m > 0, NEW k \in Int, k * m > 0, k * m <= m
  PROVE  k * m = m
  <2> USE <1>MultipleOfOnes
  <2>1. k > 0
    BY SMT
  <2>2. k <= 1
    BY SMT
  <2> QED BY <2>1, <2>2
(* A positive sum of words that adds up to nothing folds to all ones. *)
<1>FoldsToOnes.
  ASSUME NEW x \in Nat, x > 0, x < 16 * (AllOnes + 1), SameSum(x, 0, AllOnes)
  PROVE  Fold(x) = AllOnes
  <2> USE <1>FoldsToOnes
  <2>1. PICK m \in Nat : m = AllOnes /\ m >= 15
    BY <1>OnesType
  <2>2. PICK y : y = Fold(x)
    BY Zenon
  <2>3. y \in 1 .. m /\ SameSum(x, y, m)
    BY <2>1, <2>2, <1>FoldSum
  <2>4. PICK a \in Int : x = 0 + a * m
    BY <2>1 DEF SameSum
  <2>5. PICK b \in Int : x = y + b * m
    BY <2>3, Zenon DEF SameSum
  <2>6. y = (a - b) * m /\ a - b \in Int
    BY <2>3, <2>4, <2>5
  <2> QED BY <2>1, <2>2, <2>3, <2>6, <1>MultipleOfOnes
<1>ComplementedSum.
  ASSUME NEW x \in Nat, x < 16 * (AllOnes + 1),
         NEW c, c = IF Complement(Fold(x)) = 0 THEN AllOnes ELSE Complement(Fold(x))
  PROVE  c \in 0 .. AllOnes /\ SameSum(x + c, 0, AllOnes)
  <2> USE <1>ComplementedSum
  <2>1. PICK m \in Nat : m = AllOnes /\ m >= 15
    BY <1>OnesType
  <2>2. PICK y : y = Fold(x)
    BY Zenon
  <2>3. y \in 0 .. m /\ SameSum(x, y, m)
    BY <2>1, <2>2, <1>FoldSum, Zenon
  <2>4. PICK a \in Int : x = y + a * m
    BY <2>3, Zenon DEF SameSum
  <2>5. c = IF m - y = 0 THEN m ELSE m - y
    BY <2>1, <2>2, Zenon DEF Complement
  <2>6. CASE m - y = 0
    <3>1. x + c = 0 + (a + 2) * m /\ a + 2 \in Int /\ c = m
      BY <2>3, <2>4, <2>5, <2>6
    <3> QED BY <2>1, <3>1 DEF SameSum
  <2>7. CASE m - y # 0
    <3>1. x + c = 0 + (a + 1) * m /\ a + 1 \in Int /\ c \in 0 .. m
      BY <2>3, <2>4, <2>5, <2>7
    <3> QED BY <2>1, <3>1, Zenon DEF SameSum
  <2> QED BY <2>6, <2>7, Zenon
<1>WordsOfRoute.
  ASSUME Inputs, table \in DOMAIN setting.tables
  PROVE  /\ Len(Route) \in {2, 4} /\ DirectorIP \in 0 .. AllOnes /\ payload \in 0 .. AllOnes
         /\ \A k \in 1 .. Len(Route) : Route[k] \in 0 .. AllOnes
         /\ \A k \in 1 .. Len(Route) - 1 : Tail(Route)[k] \in 0 .. AllOnes
  <2> USE <1>WordsOfRoute
  <2>1. Route \in Seq(HopWords) /\ Len(Route) \in {2, 4}
    BY RouteShape
  <2>2. /\ Proxies \subseteq 0 .. AllOnes /\ DirectorIP \in 0 .. AllOnes
        /\ Payloads \subseteq 0 .. AllOnes
    BY PacketPathConstants, Zenon DEF AllOnes
  <2>3. HopWords \subseteq 0 .. AllOnes
    BY <2>2, <1>OnesType DEF HopWords
  <2>4. \A k \in 1 .. Len(Route) : Route[k] \in HopWords
    BY <2>1
  <2>5. \A k \in 1 .. Len(Route) - 1 : Tail(Route)[k] = Route[k + 1] /\ k + 1 \in 1 .. Len(Route)
    BY <2>1
  <2> QED BY <2>1, <2>2, <2>3, <2>4, <2>5, Zenon DEF Inputs
<1>RestBounded.
  ASSUME Inputs, table \in DOMAIN setting.tables
  PROVE  Rest \in 0 .. (4 * AllOnes + 12)
  <2> USE <1>RestBounded
  <2>1. PICK m \in Nat : m = AllOnes
    BY <1>OnesType
  <2>2. PICK l, s, p : l = Len(Route) /\ s = Tail(Route) /\ p = payload
    BY Zenon
  <2>x. l \in {2, 4} /\ p \in 0 .. m
    BY <2>1, <2>2, <1>WordsOfRoute, Zenon
  <2>3. \A k \in 1 .. l - 1 : s[k] \in 0 .. m
    BY <2>1, <2>2, <1>WordsOfRoute, Zenon
  <2>4. Rest = 4 * (l - 1) + p + (IF l - 1 >= 1 THEN s[1] ELSE 0)
                 + (IF l - 1 >= 2 THEN s[2] ELSE 0) + (IF l - 1 >= 3 THEN s[3] ELSE 0)
    BY <2>2, Zenon DEF Rest, GLB_MAX_HOPS
  <2>5. CASE l = 2
    <3>1. s[1] \in 0 .. m /\ Rest = 4 + p + s[1]
      BY <2>3, <2>4, <2>5, <2>x
    <3> QED BY <2>1, <2>x, <3>1
  <2>6. CASE l = 4
    <3>1. s[1] \in 0 .. m /\ s[2] \in 0 .. m /\ s[3] \in 0 .. m /\ Rest = 12 + p + s[1] + s[2] + s[3]
      BY <2>3, <2>4, <2>6, <2>x
    <3> QED BY <2>1, <2>x, <3>1
  <2> QED BY <2>x, <2>5, <2>6, Zenon
<1>HopSum.
  ASSUME Inputs, table \in DOMAIN setting.tables,
         NEW n \in 0 .. Len(Route) - 1, NEW check, NEW g, g = Hop(n, check)
  PROVE  /\ g.saddr \in 0 .. AllOnes /\ g.daddr \in 0 .. AllOnes /\ n \in 0 .. 3
         /\ WordSum(g) = g.saddr + g.daddr + n + Rest
  <2> USE <1>HopSum
  <2>1. PICK m \in Nat : m = AllOnes
    BY <1>OnesType, Zenon
  <2>2. Len(Route) \in {2, 4} /\ n \in 0 .. 3 /\ n + 1 \in 1 .. Len(Route) /\ (n # 0 => n \in 1 .. Len(Route))
    BY <1>WordsOfRoute
  <2>3. g.saddr \in 0 .. AllOnes /\ g.daddr \in 0 .. AllOnes
    <3>1. DirectorIP \in 0 .. AllOnes /\ \A k \in 1 .. Len(Route) : Route[k] \in 0 .. AllOnes
      BY <1>WordsOfRoute, Zenon
    <3>2. g.saddr = (IF n = 0 THEN DirectorIP ELSE Route[n]) /\ g.daddr = Route[n + 1]
      BY FieldsOfHop
    <3> QED BY <2>2, <3>1, <3>2, Zenon
  <2>4. PICK a, b, r : a = g.saddr /\ b = g.daddr /\ r = Rest
    BY Zenon
  <2>5. a \in Nat /\ b \in Nat /\ r \in Nat
    BY <2>1, <2>3, <2>4, <1>RestBounded
  <2>6. PICK l, p, x, y, z :
          /\ l = Len(Route) - 1 /\ p = payload
          /\ x = (IF l >= 1 THEN Tail(Route)[1] ELSE 0)
          /\ y = (IF l >= 2 THEN Tail(Route)[2] ELSE 0)
          /\ z = (IF l >= 3 THEN Tail(Route)[3] ELSE 0)
    BY Zenon
  <2>7. g.next_hop = n /\ g.hop_count = l /\ g.hops = Tail(Route)
    <3>1. g.next_hop = n /\ g.hop_count = Len(Route) - 1 /\ g.hops = Tail(Route)
      BY FieldsOfHop
    <3> QED BY <2>6, <3>1, Zenon
  <2>8. WordSum(g) = a + b + (n + 4 * l) + p + x + y + z
    BY <2>4, <2>6, <2>7, Zenon DEF WordSum, HopWord, GLB_MAX_HOPS
  <2>9. r = 4 * l + p + x + y + z
    BY <2>4, <2>6, Zenon DEF Rest, GLB_MAX_HOPS
  <2>10. l \in {1, 3} /\ p \in Nat /\ x \in Nat /\ y \in Nat /\ z \in Nat
    <3>1. l = Len(Route) - 1 /\ p = payload
      BY <2>6, Zenon
    <3>2. l \in {1, 3} /\ p \in 0 .. m /\ \A k \in 1 .. l : Tail(Route)[k] \in 0 .. m
      BY <2>1, <3>1, <1>WordsOfRoute
    <3>3. ASSUME NEW k \in 1 .. 3 PROVE (IF l >= k THEN Tail(Route)[k] ELSE 0) \in Nat
      <4>1. ASSUME l >= k PROVE Tail(Route)[k] \in Nat
        <5>1. k \in 1 .. l
          BY <3>2, <4>1
        <5>2. Tail(Route)[k] \in 0 .. m
          BY <3>2, <5>1, Zenon
        <5>3. \A u \in 0 .. m : u \in Nat
          OBVIOUS
        <5> QED BY <5>2, <5>3, Zenon
      <4>2. 0 \in Nat
        OBVIOUS
      <4> QED BY <4>1, <4>2, Zenon
    <3>4. 1 \in 1 .. 3 /\ 2 \in 1 .. 3 /\ 3 \in 1 .. 3
      OBVIOUS
    <3>5. x \in Nat /\ y \in Nat /\ z \in Nat
      BY <2>6, <3>3, <3>4, Zenon
    <3> QED BY <3>2, <3>5
  <2>11. WordSum(g) = a + b + n + r
    BY <2>2, <2>5, <2>8, <2>9, <2>10
  <2> QED BY <2>2, <2>3, <2>4, <2>11, Zenon
(* A sum of words never needs more folding than it gets. *)
<1>SumBounded.
  ASSUME Inputs, table \in DOMAIN setting.tables,
         NEW n \in 0 .. Len(Route) - 1, NEW check, NEW g, g = Hop(n, check)
  PROVE  /\ WordSum(g) \in Nat /\ WordSum(g) + AllOnes < 16 * (AllOnes + 1)
  <2> USE <1>SumBounded
  <2>1. PICK m \in Nat : m = AllOnes /\ m >= 15
    BY <1>OnesType, Zenon
  <2>2. PICK a, b, r : a = g.saddr /\ b = g.daddr /\ r = Rest
    BY Zenon
  <2>3. a \in 0 .. m /\ b \in 0 .. m /\ n \in 0 .. 3 /\ r \in 0 .. (4 * m + 12)
    BY <2>1, <2>2, <1>HopSum, <1>RestBounded, Zenon
  <2>4. WordSum(g) = a + b + n + r
    BY <2>2, <1>HopSum, Zenon
  <2> QED BY <2>1, <2>3, <2>4
<1>HopVerifies.
  ASSUME Inputs, table \in DOMAIN setting.tables,
         NEW n \in 0 .. Len(Route) - 1, NEW check, NEW g, g = Hop(n, check), Checked(g)
  PROVE  Verifies(g)
  <2> USE <1>HopVerifies
  <2>1. PICK m \in Nat : m = AllOnes
    BY <1>OnesType
  <2>2. PICK s, c : s = WordSum(g) /\ c = g.check
    BY Zenon
  <2>3. s \in Nat /\ s + m < 16 * (m + 1) /\ c \in 0 .. m
    BY <2>1, <2>2, <1>SumBounded, Zenon DEF Checked
  <2>4. CASE c = 0
    BY <2>2, <2>4, Zenon DEF Verifies
  <2>5. CASE c # 0
    <3>1. SameSum(s + c, 0, AllOnes)
      BY <2>2, <2>5, Zenon DEF Checked
    <3>2. s + c \in Nat /\ s + c > 0 /\ s + c < 16 * (AllOnes + 1)
      BY <2>1, <2>3, <2>5
    <3>3. Fold(s + c) = AllOnes
      BY <3>1, <3>2, <1>FoldsToOnes, Zenon
    <3> QED BY <2>2, <3>3, Zenon DEF Verifies
  <2> QED BY <2>4, <2>5, Zenon
(* The director's checksum. *)
<1>ChecksumComputed.
  ASSUME Inputs, table \in DOMAIN setting.tables, 0 \in 0 .. Len(Route) - 1
  PROVE  Checked(glb_checksum_offloading(Hop(0, 0)))
  <2> USE <1>ChecksumComputed
  <2>1. PICK h, g, k : h = Hop(0, 0) /\ g = glb_checksum_offloading(h) /\ k = UdpChecksum(h)
    BY Zenon
  <2>2. g = Hop(0, k)
    <3>1. [Hop(0, 0) EXCEPT !.check = k] = Hop(0, k)
      BY OuterChecked DEF Hop
    <3> QED BY <2>1, <3>1, Zenon DEF glb_checksum_offloading
  <2>3. WordSum(g) = g.saddr + g.daddr + 0 + Rest /\ WordSum(h) = h.saddr + h.daddr + 0 + Rest
    BY <2>1, <2>2, <1>HopSum, Zenon
  <2>4. g.saddr = h.saddr /\ g.daddr = h.daddr /\ g.check = k
    BY <2>1, <2>2, FieldsOfHop
  <2>5. WordSum(g) = WordSum(h)
    BY <2>3, <2>4, Zenon
  <2>6. WordSum(h) \in Nat /\ WordSum(h) + AllOnes < 16 * (AllOnes + 1)
    BY <2>1, <1>SumBounded, Zenon
  <2>7. WordSum(h) < 16 * (AllOnes + 1)
    BY <2>6, <1>OnesType
  <2>8. k = IF Complement(Fold(WordSum(h))) = 0 THEN AllOnes ELSE Complement(Fold(WordSum(h)))
    BY <2>1, Zenon DEF UdpChecksum
  <2>9. k \in 0 .. AllOnes /\ SameSum(WordSum(h) + k, 0, AllOnes)
    BY <2>6, <2>7, <2>8, <1>ComplementedSum, Zenon
  <2> QED BY <2>1, <2>4, <2>5, <2>9, Zenon DEF Checked
<1>ForwardedCheck.
  ASSUME NEW a \in 0 .. AllOnes, NEW b \in 0 .. AllOnes, NEW d \in 0 .. AllOnes, NEW n \in 0 .. 3,
         NEW r \in Nat, NEW c, Carries(a, b, n, r, c)
  PROVE  Carries(b, d, n + 1, r, csum_replace(csum_replace(c, n, n + 1), a, d))
  <2> USE <1>ForwardedCheck
  <2>0. PICK e : e = csum_replace(csum_replace(c, n, n + 1), a, d)
    BY Zenon
  <2>x. c \in 0 .. AllOnes /\ SameSum(a + b + n + r + c, 0, AllOnes)
    BY Zenon DEF Carries
  <2>1. PICK m \in Nat : m = AllOnes /\ m >= 15
    BY <1>OnesType, Zenon
  <2>2. n \in 0 .. AllOnes /\ n + 1 \in 0 .. AllOnes
    BY <2>1
  <2>3. PICK x : x = csum_replace(c, n, n + 1)
    BY Zenon
  <2>4. x \in 0 .. m /\ SameSum(x + (n + 1), c + n, m)
    BY <2>1, <2>2, <2>3, <2>x, <1>ReplacedSum, Zenon
  <2>5. e \in 0 .. m /\ SameSum(e + d, x + a, m)
    <3>1. e = csum_replace(x, a, d)
      BY <2>0, <2>3, Zenon
    <3> QED BY <2>1, <2>4, <3>1, <1>ReplacedSum
  <2>6. PICK i \in Int : x + (n + 1) = c + n + i * m
    BY <2>4, Zenon DEF SameSum
  <2>7. PICK j \in Int : e + d = x + a + j * m
    BY <2>5, Zenon DEF SameSum
  <2>8. PICK k \in Int : a + b + n + r + c = 0 + k * m
    BY <2>1, <2>x, Zenon DEF SameSum
  <2>9. b + d + (n + 1) + r + e = 0 + (i + j + k) * m /\ i + j + k \in Int
    BY <2>1, <2>x, <2>4, <2>5, <2>6, <2>7, <2>8
  <2>10. SameSum(b + d + (n + 1) + r + e, 0, m)
    BY <2>9, Zenon DEF SameSum
  <2> QED BY <2>0, <2>1, <2>5, <2>10, Zenon DEF Carries
<1>ReaddressedCheck.
  ASSUME NEW a, NEW b, NEW c, NEW h, NEW p, NEW n, NEW m, NEW s, NEW g,
         g = Outer(a, b, c, h, p, n, m, s), NEW k, NEW f, NEW e, NEW d
  PROVE  Readdressed(g, k, f, e, d).check = k
  <2> USE <1>ReaddressedCheck
  <2>1. Readdressed(g, k, f, e, d) = Outer(e, d, k, h, p, f, m, s)
    BY OuterReaddressed
  <2> QED BY <2>1, OuterFields
<1>ForwardedChecked.
  ASSUME Inputs, table \in DOMAIN setting.tables, HasAlternate, Checked(gue),
         NEW n \in 0 .. Len(Route) - 1, NEW check, gue = Hop(n, check)
  PROVE  Checked(Forwarded)
  <2> USE <1>ForwardedChecked
  <2>1. n + 1 \in 0 .. Len(Route) - 1 /\ alt = Route[n + 2] /\ Forwarded = Hop(n + 1, Forwarded.check)
        /\ (check = 0 => Forwarded.check = 0)
    BY ForwardedHop
  <2>2. PICK f, e : f = Forwarded /\ e = Forwarded.check
    BY Zenon
  <2>3. f = Hop(n + 1, e)
    BY <2>1, <2>2, Zenon
  <2>4. /\ f.saddr \in 0 .. AllOnes /\ f.daddr \in 0 .. AllOnes
        /\ WordSum(f) = f.saddr + f.daddr + (n + 1) + Rest
    BY <2>1, <2>3, <1>HopSum, Zenon
  <2>5. /\ gue.saddr \in 0 .. AllOnes /\ gue.daddr \in 0 .. AllOnes /\ n \in 0 .. 3
        /\ WordSum(gue) = gue.saddr + gue.daddr + n + Rest
    BY <1>HopSum, Zenon
  <2>6. /\ gue.daddr = Route[n + 1] /\ gue.next_hop = n /\ gue.check = check
    BY HopFields, Zenon
  <2>7. f.saddr = Route[n + 1] /\ f.daddr = Route[n + 2]
    <3>1. n + 1 # 0 /\ n + 1 + 1 = n + 2
      OBVIOUS
    <3> QED BY <2>3, <3>1, FieldsOfHop
  <2>8. CASE check = 0
    <3>1. f.check = 0
      BY <2>1, <2>2, <2>8, Zenon
    <3> QED BY <2>2, <3>1, <1>OnesType DEF Checked
  <2>9. CASE check # 0
    <3>1. e = csum_replace(csum_replace(check, n, n + 1), gue.saddr, alt)
      <4>1. gue.check # 0
        BY <2>6, <2>9, Zenon
      <4>2. PICK k : k = csum_replace(csum_replace(gue.check, gue.next_hop, gue.next_hop + 1), gue.saddr, alt)
        BY Zenon
      <4>3. Forwarded = Readdressed(gue, k, gue.next_hop + 1, gue.daddr, alt)
        BY <4>1, <4>2, Zenon DEF Forwarded, Readdressed
      <4>4. Forwarded.check = k
        <5>1. gue = Outer(IF n = 0 THEN DirectorIP ELSE Route[n], Route[n + 1], check, Len(Route),
                          fields.gue_ipproto, n, Len(Route) - 1, Tail(Route))
          BY Zenon DEF Hop
        <5> QED BY <4>3, <5>1, <1>ReaddressedCheck
      <4> QED BY <2>2, <2>6, <4>2, <4>4, Zenon
    <3>2. check \in 0 .. AllOnes /\ SameSum(WordSum(gue) + check, 0, AllOnes)
      BY <2>6, <2>9, Zenon DEF Checked
    <3>3. PICK a, b, d, r : a = gue.saddr /\ b = gue.daddr /\ d = alt /\ r = Rest
      BY Zenon
    <3>4. a \in 0 .. AllOnes /\ b \in 0 .. AllOnes /\ d \in 0 .. AllOnes /\ r \in Nat
      BY <2>1, <2>4, <2>5, <2>7, <3>3, <1>RestBounded
    <3>5. Carries(a, b, n, r, check)
      BY <2>5, <3>2, <3>3, Zenon DEF Carries
    <3>6. e = csum_replace(csum_replace(check, n, n + 1), a, d)
      BY <3>1, <3>3, Zenon
    <3>7. Carries(b, d, n + 1, r, csum_replace(csum_replace(check, n, n + 1), a, d))
      BY <2>5, <3>4, <3>5, <1>ForwardedCheck, Zenon
    <3>9. e \in 0 .. AllOnes /\ SameSum(b + d + (n + 1) + r + e, 0, AllOnes)
      BY <3>6, <3>7, Zenon DEF Carries
    <3>8. WordSum(f) = b + d + (n + 1) + r
      BY <2>1, <2>4, <2>6, <2>7, <3>3, Zenon
    <3> QED BY <2>2, <3>9, <3>8, Zenon DEF Checked
  <2> QED BY <2>8, <2>9, Zenon
<1>SameChecked.
  ASSUME inputs' = inputs, NEW g, gue' = g, Checked(g)
  PROVE  Checked(gue)'
  <2> USE <1>SameChecked
  <2>1. payload' = payload
    BY DEF inputs
  <2>2. WordSum(gue)' = WordSum(g)
    BY <2>1, Zenon DEF WordSum
  <2> QED BY <2>2, Zenon DEF Checked
<1>CheckStep.
  ASSUME LastExists, PathInv, CheckInv, [Next]_vars
  PROVE  CheckInv'
  <2> USE <1>CheckStep
  <2> SUFFICES ASSUME stage' = "sent" PROVE Checked(gue)'
    BY Zenon DEF CheckInv
  <2>1. CASE DpdkEncapsulate
    <3>1. /\ inputs' = inputs /\ stage = "classified"
          /\ gue' = glb_checksum_offloading(glb_encapsulate_packet(Route, fields))
      BY <2>1, Zenon DEF DpdkEncapsulate, fields, Route
    <3>2. Inputs /\ director = "dpdk" /\ table # NoTable
      BY <3>1, Zenon DEF PathInv, Inputs
    <3>3. table \in DOMAIN setting.tables
      BY <3>2, TableLoaded, Zenon
    <3>4. gue' = glb_checksum_offloading(Hop(0, 0)) /\ 0 \in 0 .. Len(Route) - 1
      BY <3>1, <3>2, <3>3, Encapsulated, Zenon
    <3> QED BY <3>1, <3>2, <3>3, <3>4, <1>ChecksumComputed, <1>SameChecked
  <2>2. CASE XdpProcess
    <3>1. gue'.check = 0
      BY <2>2, Zenon DEF XdpProcess, XdpEncapsulate
    <3> QED BY <3>1, <1>OnesType DEF Checked
  <2>3. CASE ForwardToAlternate
    <3>1. inputs' = inputs /\ stage = "sent" /\ HasAlternate /\ gue' = Forwarded
      BY <2>3, Zenon DEF ForwardToAlternate, NeedsAlternate
    <3>2. Inputs /\ table # NoTable /\ OnTheWay /\ Checked(gue)
      BY <3>1, Zenon DEF PathInv, CheckInv
    <3>3. table \in DOMAIN setting.tables
      BY <3>2, TableLoaded, Zenon
    <3>4. PICK n \in 0 .. Len(Route) - 1 : \E check : gue = Hop(n, check)
      BY <3>2, Zenon DEF OnTheWay
    <3>5. Checked(Forwarded)
      BY <3>1, <3>2, <3>3, <3>4, <1>ForwardedChecked
    <3> QED BY <3>1, <3>5, <1>SameChecked, Zenon
  <2>4. CASE UNCHANGED vars
    <3>1. inputs' = inputs /\ gue' = gue /\ stage = "sent"
      BY <2>4, Zenon DEF vars, inputs
    <3> QED BY <3>1, <1>SameChecked, Zenon DEF CheckInv
  <2>5. CASE DpdkClassify \/ DpdkFree \/ XdpPass \/ XdpDrop \/ glbredirect_tg4 \/ NoRoute
    BY <2>5, Zenon DEF DpdkClassify, DpdkFree, XdpPass, XdpDrop, glbredirect_tg4, NoRoute
  <2> QED BY <2>1, <2>2, <2>3, <2>4, <2>5 DEF Next
<1>PathVerifies.
  ASSUME LastExists, PathInv, CheckInv
  PROVE  ChecksumKept
  <2> USE <1>PathVerifies
  <2> SUFFICES ASSUME stage = "sent" PROVE Verifies(gue)
    BY Zenon DEF ChecksumKept
  <2>1. Inputs /\ table # NoTable /\ OnTheWay /\ Checked(gue)
    BY DEF PathInv, CheckInv
  <2>2. table \in DOMAIN setting.tables
    BY <2>1, TableLoaded, Zenon
  <2>3. PICK n \in 0 .. Len(Route) - 1 : \E check : gue = Hop(n, check)
    BY <2>1 DEF OnTheWay
  <2> QED BY <2>1, <2>2, <2>3, <1>HopVerifies
<1> QED BY <1>CheckStep, <1>PathVerifies, Zenon

------------------------------------------------------------------------------
(* The classifier.                                                          *)

LEMMA SequenceShape ==
  ASSUME NEW T, NEW a \in Seq(T)
  PROVE  /\ DOMAIN a = 1 .. Len(a) /\ a = [w \in 1 .. Len(a) |-> a[w]]
         /\ \A w \in 1 .. Len(a) : a[w] \in T
  OBVIOUS

(* A number that ends with the digit u to the base d. *)
Digit(x, d, u) == x * d + u

Base == 2^WordBits

Word == 0 .. Base - 1

(* Two numbers of m bits have the first c in common. *)
SameBits(x, y, m, c) == x \div 2^(m - c) = y \div 2^(m - c)

Stepped(x, y, u, v, m, n, c) ==
  SameBits(Digit(x, Base, u), Digit(y, Base, v), n, c)
  <=> IF m <= c THEN x = y /\ SameBits(u, v, n, c) ELSE SameBits(x, y, m, c)

Parted(x, y, u, v) ==
  /\ Digit(x, Base, u) = Digit(y, Base, v) <=> x = y /\ u = v
  /\ Digit(x, Base, u) \in Nat
  /\ Digit(y, Base, v) \in Nat

Prefixed(u1, u2, u3, u4, v1, v2, v3, v4, n1, n2, n3, n4, c) ==
  IF n3 <= c THEN u1 = v1 /\ u2 = v2 /\ u3 = v3 /\ SameBits(u4, v4, n4, c)
  ELSE IF n2 <= c THEN u1 = v1 /\ u2 = v2 /\ SameBits(u3, v3, n3, c)
  ELSE IF n1 <= c THEN u1 = v1 /\ SameBits(u2, v2, n2, c)
  ELSE SameBits(u1, v1, n1, c)

(* Four words that have in common what their masks leave. *)
Masked(u1, u2, u3, u4, v1, v2, v3, v4, c) ==
  /\ SameBits(u1, v1, WordBits, ipv6_cidr_offset(c, 0))
  /\ SameBits(u2, v2, WordBits, ipv6_cidr_offset(c, 1))
  /\ SameBits(u3, v3, WordBits, ipv6_cidr_offset(c, 2))
  /\ SameBits(u4, v4, WordBits, ipv6_cidr_offset(c, 3))

Number(u1, u2, u3, u4) == Digit(Digit(Digit(u1, Base, u2), Base, u3), Base, u4)

(* An IPv6 prefix matches an address word by word, with the mask of each    *)
(* word, exactly when the leading bits of the whole address agree.          *)
LEMMA MaskedAddress ==
  \A a \in Addresses("ipv6"), b \in Addresses("ipv6"), c \in 0 .. 4 * WordBits :
    MaskMatch(a, b, [w \in 1 .. 4 |-> ipv6_cidr_offset(c, w - 1)])
    <=> SameBits(AddressNumber(a), AddressNumber(b), 4 * WordBits, c)
<1>Quotient.
  ASSUME NEW q \in Nat, NEW d \in Nat \ {0}, NEW r \in 0 .. d - 1
  PROVE  Digit(q, d, r) \div d = q /\ Digit(q, d, r) % d = r /\ Digit(q, d, r) \in Nat
  BY <1>Quotient DEF Digit
<1>Division.
  ASSUME NEW x \in Nat, NEW d \in Nat \ {0}
  PROVE  \E q \in Nat : \E r \in 0 .. d - 1 : x = Digit(q, d, r)
  <2> USE <1>Division
  <2>1. x = d * (x \div d) + (x % d) /\ x % d \in 0 .. d - 1 /\ x \div d \in Nat
    OBVIOUS
  <2>2. x = Digit(x \div d, d, x % d)
    BY <2>1 DEF Digit
  <2> QED BY <2>1, <2>2
<1>Parts.
  ASSUME NEW x \in Nat, NEW y \in Nat, NEW d \in Nat \ {0}, NEW u \in 0 .. d - 1, NEW v \in 0 .. d - 1
  PROVE  Digit(x, d, u) = Digit(y, d, v) <=> x = y /\ u = v
  BY <1>Parts DEF Digit
(* A division within the last digit. *)
<1>InDigit.
  ASSUME NEW x \in Nat, NEW e \in Nat \ {0}, NEW f \in Nat \ {0},
         NEW u \in 0 .. Digit(e, f, 0) - 1
  PROVE  /\ Digit(x, Digit(e, f, 0), u) \div e = Digit(x, f, u \div e)
         /\ u \div e \in 0 .. f - 1
  <2> USE <1>InDigit
  <2>1. PICK q \in Nat, r \in 0 .. e - 1 : u = Digit(q, e, r)
    BY <1>Division
  <2>2. u \div e = q
    BY <2>1, <1>Quotient
  <2>3. q < f
    BY <2>1 DEF Digit
  <2>4. Digit(x, Digit(e, f, 0), u) = Digit(Digit(x, f, q), e, r) /\ Digit(x, f, q) \in Nat
    BY <2>1 DEF Digit
  <2>5. Digit(Digit(x, f, q), e, r) \div e = Digit(x, f, q)
    BY <2>4, <1>Quotient
  <2> QED BY <2>2, <2>3, <2>4, <2>5
(* A division before it. *)
<1>BeforeDigit.
  ASSUME NEW x \in Nat, NEW e \in Nat \ {0}, NEW d \in Nat \ {0}, NEW u \in 0 .. d - 1
  PROVE  Digit(x, d, u) \div Digit(e, d, 0) = x \div e
  <2> USE <1>BeforeDigit
  <2>1. PICK q \in Nat, r \in 0 .. e - 1 : x = Digit(q, e, r)
    BY <1>Division
  <2>2. x \div e = q
    BY <2>1, <1>Quotient
  <2> DEFINE g == Digit(e, d, 0)
             s == Digit(r, d, u)
  <2>3. g \in Nat \ {0} /\ s \in Nat
    BY DEF Digit
  <2>4. s < g
    <3>1. r * d <= (e - 1) * d
      OBVIOUS
    <3>2. (e - 1) * d = e * d - d
      OBVIOUS
    <3>3. r * d \in Nat /\ e * d \in Nat
      OBVIOUS
    <3> QED BY <3>1, <3>2, <3>3 DEF Digit
  <2>5. Digit(x, d, u) = Digit(q, g, s)
    BY <2>1 DEF Digit
  <2> HIDE DEF g, s
  <2>6. s \in 0 .. g - 1
    BY <2>3, <2>4
  <2>7. Digit(q, g, s) \div g = q
    BY <2>3, <2>6, <1>Quotient
  <2> QED BY <2>2, <2>5, <2>7 DEF g
<1>BaseType. Base \in Nat \ {0}
  BY BindClassifierConstants, PowersOfTwo DEF Base
<1>PrefixStep.
  ASSUME NEW x \in Nat, NEW y \in Nat, NEW u \in Word, NEW v \in Word,
         NEW m \in Nat, NEW n, n = m + WordBits, n <= 4 * WordBits, NEW c \in 0 .. n
  PROVE  SameBits(Digit(x, Base, u), Digit(y, Base, v), n, c)
         <=> IF m <= c THEN x = y /\ SameBits(u, v, n, c) ELSE SameBits(x, y, m, c)
  <2> USE <1>PrefixStep
  <2> DEFINE d == Base
             rest == 2^(n - c)
  <2>0. d \in Nat \ {0} /\ u \in 0 .. d - 1 /\ v \in 0 .. d - 1
    BY <1>BaseType DEF Word
  <2>1. CASE m <= c
    <3> DEFINE f == 2^(c - m)
    <3>1. d = Digit(rest, f, 0) /\ rest \in Nat \ {0} /\ f \in Nat \ {0}
      <4>1. n - c \in 0 .. 4 * WordBits /\ c - m \in 0 .. 4 * WordBits
            /\ (n - c) + (c - m) = WordBits
        BY <2>1, BindClassifierConstants
      <4>2. d = rest * f /\ rest \in Nat \ {0} /\ f \in Nat \ {0}
        BY <4>1, PowersOfTwo DEF Base
      <4> QED BY <4>2 DEF Digit
    <3> HIDE DEF d, rest, f
    <3>2. /\ Digit(x, d, u) \div rest = Digit(x, f, u \div rest) /\ u \div rest \in 0 .. f - 1
          /\ Digit(y, d, v) \div rest = Digit(y, f, v \div rest) /\ v \div rest \in 0 .. f - 1
      <4>0. \A z \in Nat : \A t \in 0 .. Digit(rest, f, 0) - 1 :
               /\ Digit(z, Digit(rest, f, 0), t) \div rest = Digit(z, f, t \div rest)
               /\ t \div rest \in 0 .. f - 1
        BY <3>1, <1>InDigit, Zenon
      <4>1. \A z \in Nat : \A t \in 0 .. d - 1 :
               Digit(z, d, t) \div rest = Digit(z, f, t \div rest) /\ t \div rest \in 0 .. f - 1
        BY <3>1, <4>0, Zenon
      <4> QED BY <2>0, <4>1, Zenon
    <3>c. PICK p \in 0 .. f - 1, q \in 0 .. f - 1 : p = u \div rest /\ q = v \div rest
      BY <3>2
    <3>d. Digit(x, f, p) = Digit(y, f, q) <=> x = y /\ p = q
      BY <3>1, <1>Parts
    <3>3. Digit(x, f, u \div rest) = Digit(y, f, v \div rest) <=> x = y /\ u \div rest = v \div rest
      BY <3>c, <3>d, Zenon
    <3> QED BY <2>1, <3>2, <3>3, Zenon DEF d, rest, SameBits
  <2>2. CASE ~(m <= c)
    <3> DEFINE e == 2^(m - c)
    <3>1. rest = Digit(e, d, 0) /\ e \in Nat \ {0}
      <4>1. m - c \in 0 .. 4 * WordBits /\ WordBits \in 0 .. 4 * WordBits
            /\ (m - c) + WordBits = n - c
        BY <2>2, BindClassifierConstants
      <4>2. rest = e * d /\ e \in Nat \ {0}
        BY <4>1, PowersOfTwo, Zenon DEF Base
      <4> QED BY <2>0, <4>2 DEF Digit
    <3> HIDE DEF d, rest, e
    <3>2. Digit(x, d, u) \div rest = x \div e /\ Digit(y, d, v) \div rest = y \div e
      BY <2>0, <3>1, <1>BeforeDigit
    <3> QED BY <2>2, <3>2, Zenon DEF d, rest, e, SameBits
  <2> QED BY <2>1, <2>2
<1>MaskOf.
  ASSUME NEW c \in 0 .. 4 * WordBits, NEW k \in 0 .. 3
  PROVE  ipv6_cidr_offset(c, k) = IF c >= (k + 1) * WordBits THEN WordBits
                                  ELSE IF c <= k * WordBits THEN 0
                                  ELSE c - k * WordBits
  <2> USE <1>MaskOf
  <2>1. CASE k * WordBits <= c /\ c < (k + 1) * WordBits
    <3>1. (k + 1) * WordBits = k * WordBits + WordBits /\ k * WordBits \in Nat
      BY BindClassifierConstants
    <3>2. c - k * WordBits \in 0 .. WordBits - 1
      BY <2>1, <3>1, BindClassifierConstants
    <3>3. PICK r \in 0 .. WordBits - 1 : r = c - k * WordBits
      BY <3>2
    <3>4. c = Digit(k, WordBits, r)
      BY <3>1, <3>3, BindClassifierConstants DEF Digit
    <3>5. c % WordBits = r
      <4>0. k \in Nat
        OBVIOUS
      <4>1. Digit(k, WordBits, r) % WordBits = r
        BY <4>0, <1>Quotient, BindClassifierConstants, Zenon
      <4> QED BY <3>4, <4>1
    <3> QED BY <2>1, <3>1, <3>3, <3>5, BindClassifierConstants DEF ipv6_cidr_offset
  <2>2. CASE ~(k * WordBits <= c)
    <3>1. (k + 1) * WordBits = k * WordBits + WordBits /\ k * WordBits \in Nat
      BY BindClassifierConstants
    <3> QED BY <2>2, <3>1, BindClassifierConstants DEF ipv6_cidr_offset
  <2>3. CASE c >= (k + 1) * WordBits
    BY <2>3 DEF ipv6_cidr_offset
  <2>4. k * WordBits \in Nat /\ (k + 1) * WordBits \in Nat
    BY BindClassifierConstants
  <2> QED BY <2>1, <2>2, <2>3, <2>4
<1>MaskedWord.
  ASSUME NEW u \in Word, NEW v \in Word, NEW c \in 0 .. 4 * WordBits, NEW k \in 0 .. 3,
         NEW m, m = k * WordBits, NEW n, n = m + WordBits
  PROVE  SameBits(u, v, WordBits, ipv6_cidr_offset(c, k))
         <=> IF n <= c THEN u = v ELSE IF c <= m THEN TRUE ELSE SameBits(u, v, n, c)
  <2> USE <1>MaskedWord
  <2>0. (k + 1) * WordBits = n /\ m \in Nat
    BY BindClassifierConstants
  <2>1. CASE n <= c
    <3>1. WordBits - ipv6_cidr_offset(c, k) = 0
      BY <2>0, <2>1, <1>MaskOf, BindClassifierConstants
    <3>2. u \div 2^0 = u /\ v \div 2^0 = v
      BY DEF Word
    <3> QED BY <2>1, <3>1, <3>2, Zenon DEF SameBits
  <2>2. CASE c <= m
    <3>1. WordBits - ipv6_cidr_offset(c, k) = WordBits
      BY <2>0, <2>2, <1>MaskOf, BindClassifierConstants
    <3>3. ASSUME NEW d \in Nat \ {0}, NEW t \in 0 .. d - 1 PROVE t \div d = 0
      OBVIOUS
    <3>2. u \div Base = 0 /\ v \div Base = 0
      BY <3>3, <1>BaseType DEF Word
    <3>4. u \div 2^WordBits = 0 /\ v \div 2^WordBits = 0
      BY <3>2, Zenon DEF Base
    <3>5. ~(n <= c)
      BY <2>0, <2>2, BindClassifierConstants
    <3> QED BY <2>2, <3>1, <3>4, <3>5, Zenon DEF SameBits
  <2>3. CASE ~(n <= c) /\ ~(c <= m)
    <3>1. WordBits - ipv6_cidr_offset(c, k) = n - c
      BY <2>0, <2>3, <1>MaskOf, BindClassifierConstants
    <3> QED BY <2>3, <3>1, Zenon DEF SameBits
  <2> QED BY <2>1, <2>2, <2>3
<1>WordParts.
  ASSUME NEW x \in Nat, NEW y \in Nat, NEW u \in Word, NEW v \in Word
  PROVE  /\ Digit(x, Base, u) = Digit(y, Base, v) <=> x = y /\ u = v
         /\ Digit(x, Base, u) \in Nat
  <2> USE <1>WordParts
  <2>1. u \in 0 .. Base - 1 /\ v \in 0 .. Base - 1
    BY DEF Word
  <2>2. Digit(x, Base, u) = Digit(y, Base, v) <=> x = y /\ u = v
    BY <2>1, <1>BaseType, <1>Parts
  <2>3. Digit(x, Base, u) \in Nat
    BY <2>1, <1>BaseType DEF Digit
  <2> QED BY <2>2, <2>3
<1>AddressWords.
  ASSUME NEW a \in Addresses("ipv6")
  PROVE  a[1] \in Word /\ a[2] \in Word /\ a[3] \in Word /\ a[4] \in Word /\ Len(a) = 4
         /\ DOMAIN a = 1 .. 4
  <2> USE <1>AddressWords
  <2>1. a \in Seq(Word) /\ Len(a) = 4
    BY DEF Addresses, Word, Base
  <2>2. DOMAIN a = 1 .. 4
    BY <2>1
  <2>3. \A i \in 1 .. Len(a) : a[i] \in Word
    BY <2>1, SequenceShape, Zenon
  <2> QED BY <2>1, <2>2, <2>3
<1>SteppedHolds.
  ASSUME NEW x \in Nat, NEW y \in Nat, NEW u \in Word, NEW v \in Word,
         NEW m \in Nat, NEW n, n = m + WordBits, n <= 4 * WordBits, NEW c \in 0 .. n
  PROVE  Stepped(x, y, u, v, m, n, c)
  BY <1>SteppedHolds, <1>PrefixStep DEF Stepped
<1>PartedHolds.
  ASSUME NEW x \in Nat, NEW y \in Nat, NEW u \in Word, NEW v \in Word
  PROVE  Parted(x, y, u, v)
  BY <1>PartedHolds, <1>WordParts DEF Parted
<1>Sizes. PICK n1 \in Nat, n2 \in Nat, n3 \in Nat, n4 \in Nat :
            n1 = WordBits /\ n2 = n1 + WordBits /\ n3 = n2 + WordBits /\ n4 = n3 + WordBits
  BY BindClassifierConstants
<1>PrefixOfWords.
  ASSUME NEW c \in 0 .. 4 * WordBits,
         NEW u1 \in Word, NEW u2 \in Word, NEW u3 \in Word, NEW u4 \in Word,
         NEW v1 \in Word, NEW v2 \in Word, NEW v3 \in Word, NEW v4 \in Word
  PROVE  SameBits(Number(u1, u2, u3, u4), Number(v1, v2, v3, v4), n4, c)
         <=> Prefixed(u1, u2, u3, u4, v1, v2, v3, v4, n1, n2, n3, n4, c)
  <2> USE <1>PrefixOfWords, <1>Sizes
  <2>1. u1 \in Nat /\ v1 \in Nat
    BY DEF Word
  <2>2. Parted(u1, v1, u2, v2)
    BY <2>1, <1>PartedHolds
  <2>a. PICK x2 \in Nat, y2 \in Nat : x2 = Digit(u1, Base, u2) /\ y2 = Digit(v1, Base, v2)
    BY <2>2 DEF Parted
  <2> HIDE <2>a
  <2>3. Parted(x2, y2, u3, v3)
    BY <1>PartedHolds
  <2>b. PICK x3 \in Nat, y3 \in Nat : x3 = Digit(x2, Base, u3) /\ y3 = Digit(y2, Base, v3)
    BY <2>3 DEF Parted
  <2> HIDE <2>b
  <2>4. n4 <= 4 * WordBits /\ n3 <= 4 * WordBits /\ n2 <= 4 * WordBits /\ c \in 0 .. n4 /\ c \in Nat
    BY BindClassifierConstants
  <2>5. Stepped(x3, y3, u4, v4, n3, n4, c)
    BY <2>4, <1>SteppedHolds, Zenon
  <2>6. ASSUME ~(n3 <= c)
        PROVE  Stepped(x2, y2, u3, v3, n2, n3, c)
    <3>1. c \in 0 .. n3
      BY <2>4, <2>6
    <3> QED BY <3>1, <2>4, <1>SteppedHolds, Zenon
  <2>7. ASSUME ~(n2 <= c)
        PROVE  Stepped(u1, v1, u2, v2, n1, n2, c)
    <3>1. c \in 0 .. n2
      BY <2>4, <2>7
    <3> QED BY <3>1, <2>1, <2>4, <1>SteppedHolds, Zenon
  <2>8. ~(n3 <= c) \/ n2 <= c
    BY <2>4, BindClassifierConstants
  <2>9. Number(u1, u2, u3, u4) = Digit(x3, Base, u4) /\ Number(v1, v2, v3, v4) = Digit(y3, Base, v4)
    BY <2>a, <2>b, Zenon DEF Number
  <2>10. (x2 = y2 <=> u1 = v1 /\ u2 = v2) /\ (x3 = y3 <=> x2 = y2 /\ u3 = v3)
    BY <2>a, <2>b, <2>2, <2>3, Zenon DEF Parted
  <2>11. CASE n3 <= c
    BY <2>11, <2>5, <2>9, <2>10, Zenon DEF Prefixed, Stepped
  <2>12. CASE ~(n3 <= c) /\ n2 <= c
    BY <2>12, <2>5, <2>6, <2>b, <2>9, <2>10, Zenon DEF Prefixed, Stepped
  <2>13. CASE ~(n3 <= c) /\ ~(n2 <= c)
    BY <2>13, <2>5, <2>6, <2>7, <2>a, <2>b, <2>9, Zenon DEF Prefixed, Stepped
  <2> QED BY <2>11, <2>12, <2>13, Zenon
<1>MasksOfWords.
  ASSUME NEW c \in 0 .. 4 * WordBits,
         NEW u1 \in Word, NEW u2 \in Word, NEW u3 \in Word, NEW u4 \in Word,
         NEW v1 \in Word, NEW v2 \in Word, NEW v3 \in Word, NEW v4 \in Word
  PROVE  Masked(u1, u2, u3, u4, v1, v2, v3, v4, c)
         <=> Prefixed(u1, u2, u3, u4, v1, v2, v3, v4, n1, n2, n3, n4, c)
  <2> USE <1>MasksOfWords, <1>Sizes
  <2>1. 0 = 0 * WordBits /\ n1 = 1 * WordBits /\ n2 = 2 * WordBits /\ n3 = 3 * WordBits
        /\ n1 = 0 + WordBits
    BY BindClassifierConstants
  <2>2. /\ SameBits(u1, v1, WordBits, ipv6_cidr_offset(c, 0))
           <=> IF n1 <= c THEN u1 = v1 ELSE IF c <= 0 THEN TRUE ELSE SameBits(u1, v1, n1, c)
        /\ SameBits(u2, v2, WordBits, ipv6_cidr_offset(c, 1))
           <=> IF n2 <= c THEN u2 = v2 ELSE IF c <= n1 THEN TRUE ELSE SameBits(u2, v2, n2, c)
        /\ SameBits(u3, v3, WordBits, ipv6_cidr_offset(c, 2))
           <=> IF n3 <= c THEN u3 = v3 ELSE IF c <= n2 THEN TRUE ELSE SameBits(u3, v3, n3, c)
        /\ SameBits(u4, v4, WordBits, ipv6_cidr_offset(c, 3))
           <=> IF n4 <= c THEN u4 = v4 ELSE IF c <= n3 THEN TRUE ELSE SameBits(u4, v4, n4, c)
    BY <2>1, <1>MaskedWord
  <2>3. ASSUME NEW u \in Word, NEW v \in Word, NEW n \in Nat
        PROVE  /\ c = n => (SameBits(u, v, n, c) <=> u = v)
               /\ n = WordBits + c => SameBits(u, v, n, c)
    <3>1. ASSUME n - c = 0 PROVE SameBits(u, v, n, c) <=> u = v
      <4>1. u \div 2^0 = u /\ v \div 2^0 = v
        BY DEF Word
      <4> QED BY <3>1, <4>1, Zenon DEF SameBits
    <3>2. ASSUME n - c = WordBits PROVE SameBits(u, v, n, c)
      <4>1. ASSUME NEW d \in Nat \ {0}, NEW t \in 0 .. d - 1 PROVE t \div d = 0
        OBVIOUS
      <4>2. u \div Base = 0 /\ v \div Base = 0
        BY <4>1, <1>BaseType DEF Word
      <4> QED BY <3>2, <4>2, Zenon DEF SameBits, Base
    <3> QED BY <3>1, <3>2, BindClassifierConstants
  <2>4. n1 < n2 /\ n2 < n3 /\ n3 < n4 /\ c \in 0 .. n4 /\ 0 < n1
    BY BindClassifierConstants
  <2>5. /\ c = n4 => (SameBits(u4, v4, n4, c) <=> u4 = v4)
        /\ c = n3 => SameBits(u4, v4, n4, c)
        /\ c = n2 => SameBits(u3, v3, n3, c)
        /\ c = n1 => SameBits(u2, v2, n2, c)
        /\ c = 0 => SameBits(u1, v1, n1, c)
    BY <2>3, BindClassifierConstants
  <2> QED BY <2>2, <2>4, <2>5 DEF Prefixed, Masked
<1>MaskedAddress.
  ASSUME NEW a \in Addresses("ipv6"), NEW b \in Addresses("ipv6"), NEW c \in 0 .. 4 * WordBits
  PROVE  MaskMatch(a, b, [w \in 1 .. 4 |-> ipv6_cidr_offset(c, w - 1)])
         <=> SameBits(AddressNumber(a), AddressNumber(b), 4 * WordBits, c)
  <2> USE <1>MaskedAddress
  <2>1. PICK u1 \in Word, u2 \in Word, u3 \in Word, u4 \in Word :
           u1 = a[1] /\ u2 = a[2] /\ u3 = a[3] /\ u4 = a[4] /\ Len(a) = 4
    BY <1>AddressWords
  <2>2. PICK v1 \in Word, v2 \in Word, v3 \in Word, v4 \in Word :
           v1 = b[1] /\ v2 = b[2] /\ v3 = b[3] /\ v4 = b[4] /\ Len(b) = 4 /\ DOMAIN b = 1 .. 4
    BY <1>AddressWords
  <2>4. n4 = 4 * WordBits
    BY <1>Sizes, BindClassifierConstants
  <2>6. AddressNumber(a) = Number(u1, u2, u3, u4) /\ AddressNumber(b) = Number(v1, v2, v3, v4)
    BY <2>1, <2>2 DEF Number, AddressNumber, Digit, Base
  <2>7. SameBits(Number(u1, u2, u3, u4), Number(v1, v2, v3, v4), n4, c)
        <=> Masked(u1, u2, u3, u4, v1, v2, v3, v4, c)
    <3>1. SameBits(Number(u1, u2, u3, u4), Number(v1, v2, v3, v4), n4, c)
           <=> Prefixed(u1, u2, u3, u4, v1, v2, v3, v4, n1, n2, n3, n4, c)
      BY <1>PrefixOfWords, Zenon
    <3>2. Masked(u1, u2, u3, u4, v1, v2, v3, v4, c)
           <=> Prefixed(u1, u2, u3, u4, v1, v2, v3, v4, n1, n2, n3, n4, c)
      BY <1>MasksOfWords, Zenon
    <3> QED BY <3>1, <3>2, Zenon
  <2>8. MaskMatch(a, b, [w \in 1 .. 4 |-> ipv6_cidr_offset(c, w - 1)])
        <=> Masked(u1, u2, u3, u4, v1, v2, v3, v4, c)
    BY <2>1, <2>2 DEF MaskMatch, SameBits, Masked
  <2> QED BY <2>4, <2>6, <2>7, <2>8, Zenon
<1> QED BY <1>MaskedAddress, Zenon

LEMMA AddressShape ==
  ASSUME NEW family \in Families, NEW a \in Addresses(family)
  PROVE  /\ a \in Seq(Word) /\ Len(a) = (IF family = "ipv4" THEN 1 ELSE 4)
         /\ DOMAIN a = 1 .. Len(a) /\ a = [w \in 1 .. Len(a) |-> a[w]]
         /\ \A w \in 1 .. Len(a) : a[w] \in Word
<1>1. a \in Seq(Word) /\ Len(a) = (IF family = "ipv4" THEN 1 ELSE 4)
  BY DEF Addresses, Word, Base
<1> QED BY <1>1, SequenceShape, Zenon

LEMMA FullMasks ==
  ASSUME NEW family \in Families, NEW a \in Addresses(family), NEW b \in Addresses(family),
         NEW masks, \A w \in DOMAIN b : masks[w] = WordBits
  PROVE  MaskMatch(a, b, masks) <=> a = b
<1>1. /\ Len(a) = Len(b) /\ DOMAIN b = 1 .. Len(b)
      /\ a = [w \in 1 .. Len(a) |-> a[w]] /\ b = [w \in 1 .. Len(b) |-> b[w]]
      /\ \A w \in 1 .. Len(b) : a[w] \in Word /\ b[w] \in Word
  BY AddressShape, Zenon
<1>2. \A u \in Word : u \div 2^0 = u
  BY DEF Word
<1>3. ASSUME NEW w \in DOMAIN b PROVE 2^(WordBits - masks[w]) = 2^0
  <2>1. WordBits - WordBits = 0
    BY BindClassifierConstants
  <2> QED BY <1>3, <2>1, Zenon
<1>4. MaskMatch(a, b, masks) <=> \A w \in DOMAIN b : a[w] = b[w]
  <2>1. ASSUME NEW w \in DOMAIN b
        PROVE  /\ a[w] \div 2^(WordBits - masks[w]) = a[w]
               /\ b[w] \div 2^(WordBits - masks[w]) = b[w]
    <3>1. a[w] \in Word /\ b[w] \in Word
      BY <1>1
    <3>2. a[w] \div 2^0 = a[w] /\ b[w] \div 2^0 = b[w]
      BY <1>2, <3>1, Zenon
    <3> QED BY <1>3, <3>2, Zenon
  <2> QED BY <2>1, Zenon DEF MaskMatch
<1> QED BY <1>1, <1>4

LEMMA HostMasks ==
  ASSUME NEW e, e.family \in Families, e.ip \in Addresses(e.family),
         e.ip_bits = Len(e.ip) * WordBits
  PROVE  \A w \in DOMAIN e.ip : Masks(e)[w] = WordBits
<1>1. Len(e.ip) = (IF e.family = "ipv4" THEN 1 ELSE 4) /\ DOMAIN e.ip = 1 .. Len(e.ip)
  BY AddressShape, Zenon
<1>2. CASE e.family = "ipv4"
  <2>1. Masks(e) = <<WordBits>> /\ DOMAIN e.ip = 1 .. 1
    BY <1>1, <1>2, BindClassifierConstants DEF Masks
  <2> QED BY <2>1
<1>3. CASE e.family # "ipv4"
  <2>1. e.ip_bits = 4 * WordBits /\ DOMAIN e.ip = 1 .. 4
    BY <1>1, <1>3
  <2>2. ASSUME NEW k \in 0 .. 3 PROVE ipv6_cidr_offset(4 * WordBits, k) = WordBits
    BY BindClassifierConstants DEF ipv6_cidr_offset
  <2>3. \A w \in 1 .. 4 : Masks(e)[w] = ipv6_cidr_offset(4 * WordBits, w - 1)
    BY <1>3, <2>1, Zenon DEF Masks
  <2> QED BY <2>1, <2>2, <2>3
<1> QED BY <1>2, <1>3

(* The masks of a bind's rule match the addresses of the bind's subnet. *)
LEMMA SubnetMatch ==
  ASSUME NEW b, SourceBind(b), NEW t, NEW e, e = bind_entry(b, t), NEW a \in Addresses(b.family)
  PROVE  MaskMatch(a, e.ip, Masks(e)) <=> InSubnet(a, b)
<1>1. /\ e.family = b.family /\ e.ip = b.ip /\ e.ip_bits = BindBits(b)
      /\ b.family \in Families /\ b.ip \in Addresses(b.family)
  BY DEF bind_entry, SourceBind
<1>2. CASE b.cidr = Absent
  <2>1. e.ip_bits = Len(e.ip) * WordBits
    BY <1>1, <1>2, Zenon DEF BindBits, AddressBits
  <2>2. \A w \in DOMAIN e.ip : Masks(e)[w] = WordBits
    BY <1>1, <2>1, HostMasks, Zenon
  <2>3. MaskMatch(a, e.ip, Masks(e)) <=> a = e.ip
    BY <1>1, <2>2, FullMasks, Zenon
  <2> QED BY <1>1, <1>2, <2>3, Zenon DEF InSubnet
<1>3. CASE b.cidr # Absent
  <2>1. b.cidr \in Nat /\ e.ip_bits = b.cidr /\ b.cidr <= Len(b.ip) * WordBits
    BY <1>1, <1>3, Zenon DEF SourceBind, BindAccepted, BindBits, AddressBits
  <2>2. Len(b.ip) = (IF b.family = "ipv4" THEN 1 ELSE 4) /\ DOMAIN b.ip = 1 .. Len(b.ip)
    BY <1>1, AddressShape, Zenon
  <2>3. Len(a) = (IF b.family = "ipv4" THEN 1 ELSE 4)
    BY <1>1, AddressShape
  <2>4. InSubnet(a, b) <=> SameBits(AddressNumber(a), AddressNumber(b.ip), Len(b.ip) * WordBits, b.cidr)
    BY <1>3, Zenon DEF InSubnet, SameBits
  <2>5. CASE b.family = "ipv4"
    <3>1. AddressNumber(a) = a[1] /\ AddressNumber(b.ip) = b.ip[1]
      BY <2>2, <2>3, <2>5 DEF AddressNumber
    <3>2. Len(b.ip) * WordBits = WordBits /\ DOMAIN b.ip = {1} /\ Masks(e)[1] = b.cidr
      BY <1>1, <2>1, <2>2, <2>5, BindClassifierConstants DEF Masks
    <3>3. MaskMatch(a, b.ip, Masks(e))
          <=> a[1] \div 2^(WordBits - b.cidr) = b.ip[1] \div 2^(WordBits - b.cidr)
      BY <3>2, Zenon DEF MaskMatch
    <3> QED BY <1>1, <2>4, <3>1, <3>2, <3>3, Zenon DEF SameBits
  <2>6. CASE b.family # "ipv4"
    <3>1. b.family = "ipv6" /\ Len(b.ip) = 4
      BY <1>1, <2>2, <2>6, Zenon DEF Families
    <3>2. b.cidr \in 0 .. 4 * WordBits
      BY <2>1, <3>1, BindClassifierConstants
    <3>3. Masks(e) = [w \in 1 .. 4 |-> ipv6_cidr_offset(b.cidr, w - 1)]
      BY <1>1, <2>1, <2>6, Zenon DEF Masks
    <3>4. MaskMatch(a, b.ip, Masks(e))
          <=> SameBits(AddressNumber(a), AddressNumber(b.ip), 4 * WordBits, b.cidr)
      BY <1>1, <3>1, <3>2, <3>3, MaskedAddress, Zenon
    <3> QED BY <1>1, <2>4, <3>1, <3>4, Zenon
  <2> QED BY <2>5, <2>6, Zenon
<1> QED BY <1>2, <1>3, Zenon

LEMMA PortMatch ==
  ASSUME NEW b, SourceBind(b), NEW t, NEW e, e = bind_entry(b, t), NEW port \in Nat
  PROVE  port \in BindPorts(e) <=> OnPort(port, b)
<1>1. e.port_start = FirstPort(b) /\ e.port_end = LastPort(b)
  BY DEF bind_entry
<1>2. b.port \in Int /\ b.port_start \in Int /\ b.port_end \in Int
  BY DEF SourceBind
<1> QED BY <1>1, <1>2 DEF BindPorts, OnPort, FirstPort, LastPort

(* What the three rules of a bind ask for. *)
LEMMA MatchForms ==
  ASSUME NEW e, e.family = pkt.ether
  PROVE  Matches(e, pkt) <=>
           \/ /\ pkt.proto = e.proto /\ pkt.icmp = NotICMP /\ MaskMatch(pkt.dst, e.ip, Masks(e))
              /\ pkt.proto # "icmp" => pkt.dport \in BindPorts(e)
           \/ /\ pkt.proto = "icmp" /\ pkt.icmp = Frag /\ MaskMatch(pkt.dst, e.ip, Masks(e))
              /\ MaskMatch(pkt.inner.src, e.ip, Masks(e)) /\ pkt.inner.sport \in BindPorts(e)
           \/ /\ setting.forward_icmp /\ pkt.proto = "icmp" /\ pkt.icmp = Echo
              /\ MaskMatch(pkt.dst, e.ip, Masks(e))
<1>1. RuleMatch(add_acl_typical_bind_packet(e), pkt)
      <=> /\ pkt.proto = e.proto /\ pkt.icmp = NotICMP /\ MaskMatch(pkt.dst, e.ip, Masks(e))
          /\ pkt.proto # "icmp" => pkt.dport \in BindPorts(e)
  BY Zenon DEF RuleMatch, add_acl_typical_bind_packet, Rule
<1>2. RuleMatch(add_acl_return_icmp_fragmentation(e), pkt)
      <=> /\ pkt.proto = "icmp" /\ pkt.icmp = Frag /\ MaskMatch(pkt.dst, e.ip, Masks(e))
          /\ MaskMatch(pkt.inner.src, e.ip, Masks(e)) /\ pkt.inner.sport \in BindPorts(e)
  BY Zenon DEF RuleMatch, add_acl_return_icmp_fragmentation, Rule
<1>3. RuleMatch(add_acl_icmp_echo_request(e), pkt)
      <=> pkt.proto = "icmp" /\ pkt.icmp = Echo /\ MaskMatch(pkt.dst, e.ip, Masks(e))
  BY Zenon DEF RuleMatch, add_acl_icmp_echo_request, Rule
<1>4. Matches(e, pkt) <=> \/ RuleMatch(add_acl_typical_bind_packet(e), pkt)
                          \/ RuleMatch(add_acl_return_icmp_fragmentation(e), pkt)
                          \/ setting.forward_icmp /\ RuleMatch(add_acl_icmp_echo_request(e), pkt)
  BY Zenon DEF Matches, add_acls_for_bind
<1> QED BY <1>1, <1>2, <1>3, <1>4, Zenon

(* Rules that match are binds that cover. *)
LEMMA CoversMatch ==
  ASSUME Inputs, Parses(pkt), NEW b, SourceBind(b), NEW t, NEW e, e = bind_entry(b, t)
  PROVE  Matches(e, pkt) <=> Covers(b, pkt, setting.forward_icmp)
<1>1. /\ pkt.dport \in Nat /\ pkt.inner.sport \in Nat
      /\ pkt.icmp \in {Frag, Unreachable, Echo, OtherICMP, NotICMP}
      /\ pkt.icmp # NotICMP <=> pkt.proto = "icmp"
      /\ pkt.dst \in Addresses(pkt.ether) /\ pkt.inner.src \in Addresses(pkt.ether)
  BY PacketTyped, Zenon DEF Inputs, Parses
<1>2. e.family = b.family /\ e.proto = b.proto /\ b.proto \in {"tcp", "udp"}
  BY DEF bind_entry, SourceBind, BindAccepted
<1>3. CASE pkt.ether # b.family
  BY <1>2, <1>3 DEF Matches, Covers
<1>4. CASE pkt.ether = b.family
  <2>1. /\ MaskMatch(pkt.dst, e.ip, Masks(e)) <=> InSubnet(pkt.dst, b)
        /\ MaskMatch(pkt.inner.src, e.ip, Masks(e)) <=> InSubnet(pkt.inner.src, b)
        /\ pkt.dport \in BindPorts(e) <=> OnPort(pkt.dport, b)
        /\ pkt.inner.sport \in BindPorts(e) <=> OnPort(pkt.inner.sport, b)
    BY <1>1, <1>4, SubnetMatch, PortMatch, Zenon
  <2>2. Matches(e, pkt)
        <=> \/ pkt.icmp = NotICMP /\ InSubnet(pkt.dst, b) /\ pkt.proto = b.proto /\ OnPort(pkt.dport, b)
            \/ pkt.icmp = Frag /\ InSubnet(pkt.dst, b) /\ InSubnet(pkt.inner.src, b)
               /\ OnPort(pkt.inner.sport, b)
            \/ pkt.icmp = Echo /\ InSubnet(pkt.dst, b) /\ setting.forward_icmp
    BY <1>1, <1>2, <1>4, <2>1, MatchForms, Zenon DEF Frag, Echo, NotICMP
  <2>3. Covers(b, pkt, setting.forward_icmp)
        <=> \/ pkt.icmp = NotICMP /\ InSubnet(pkt.dst, b) /\ pkt.proto = b.proto /\ OnPort(pkt.dport, b)
            \/ pkt.icmp = Frag /\ InSubnet(pkt.dst, b) /\ InSubnet(pkt.inner.src, b)
               /\ OnPort(pkt.inner.sport, b)
            \/ pkt.icmp = Echo /\ InSubnet(pkt.dst, b) /\ setting.forward_icmp
    BY <1>1, <1>4, Zenon DEF Covers, Frag, Unreachable, Echo, OtherICMP, NotICMP
  <2> QED BY <2>2, <2>3, Zenon
<1> QED BY <1>3, <1>4, Zenon

LEMMA CoveringMatches ==
  ASSUME Inputs, Parses(pkt), NEW t
  PROVE  t \in Covering(setting, pkt) <=> \E e \in setting.binds : Matches(e, pkt) /\ e.table = t
<1>1. Serving
  BY InputsServing, Zenon
<1>2. ASSUME t \in Covering(setting, pkt)
      PROVE  \E e \in setting.binds : Matches(e, pkt) /\ e.table = t
  <2>1. PICK i \in DOMAIN setting.tables[t].binds :
          Covers(setting.tables[t].binds[i], pkt, setting.forward_icmp)
    BY <1>2 DEF Covering
  <2>2. PICK e : e = bind_entry(setting.tables[t].binds[i], t)
    BY Zenon
  <2>3. t \in DOMAIN setting.tables /\ SourceBind(setting.tables[t].binds[i])
    BY <1>1, <1>2, Zenon DEF Covering, Serving
  <2>4. e \in setting.binds
    BY <1>1, <2>2, <2>3 DEF Serving, Binds
  <2>5. Matches(e, pkt) /\ e.table = t
    <3>1. e.table = t
      BY <2>2, Zenon DEF bind_entry
    <3> QED BY <2>1, <2>2, <2>3, <3>1, CoversMatch, Zenon
  <2> QED BY <2>4, <2>5, Zenon
<1>3. ASSUME NEW e \in setting.binds, Matches(e, pkt), e.table = t
      PROVE  t \in Covering(setting, pkt)
  <2>1. t \in DOMAIN setting.tables
        /\ \E i \in DOMAIN setting.tables[t].binds :
             e = bind_entry(setting.tables[t].binds[i], t) /\ SourceBind(setting.tables[t].binds[i])
    BY <1>1, <1>3, BindsOfTables, Zenon
  <2>2. PICK i \in DOMAIN setting.tables[t].binds :
          e = bind_entry(setting.tables[t].binds[i], t) /\ SourceBind(setting.tables[t].binds[i])
    BY <2>1, Zenon
  <2>3. Covers(setting.tables[t].binds[i], pkt, setting.forward_icmp)
    BY <1>3, <2>2, CoversMatch, Zenon
  <2> QED BY <2>1, <2>3, Zenon DEF Covering
<1> QED BY <1>2, <1>3, Zenon

(* The tables found are those whose binds cover the packet. *)
LEMMA PathClassifies == PathInv => ClassifierExact
<1> SUFFICES ASSUME PathInv, director = "dpdk", pkt.whole
             PROVE  /\ table # NoTable => table \in Covering(setting, pkt)
                    /\ stage = "kernel" => Covering(setting, pkt) = {}
  BY DEF ClassifierExact
<1>1. Inputs /\ Serving
  BY InputsServing DEF PathInv
<1>2. CASE pkt.ether \notin Families
  <2>1. found = {NoTable}
    BY <1>1, <1>2, FoundTables, Zenon
  <2>2. table = NoTable
    BY <2>1 DEF PathInv
  <2>3. \A b : SourceBind(b) => ~Covers(b, pkt, setting.forward_icmp)
    BY <1>2, Zenon DEF SourceBind, Covers
  <2>4. Covering(setting, pkt) = {}
    BY <1>1, <2>3, Zenon DEF Covering, Serving
  <2> QED BY <2>2, <2>4, Zenon
<1>3. CASE pkt.ether \in Families
  <2>1. Parses(pkt)
    BY <1>3, Zenon DEF Parses
  <2>2. ASSUME table # NoTable PROVE table \in Covering(setting, pkt)
    <3>1. table \in found
      BY <2>2, Zenon DEF PathInv
    <3> QED BY <1>1, <2>1, <2>2, <3>1, FoundTables, CoveringMatches, Zenon
  <2>3. ASSUME stage = "kernel" PROVE Covering(setting, pkt) = {}
    <3>1. NoTable \in found
      BY <2>3, Zenon DEF PathInv
    <3>2. \A b \in setting.binds : ~Matches(b, pkt)
      BY <1>1, <2>1, <3>1, FoundTables, Zenon
    <3> QED BY <1>1, <2>1, <3>2, CoveringMatches, Zenon
  <2> QED BY <2>2, <2>3
<1> QED BY <1>2, <1>3

------------------------------------------------------------------------------
(* The two directors.                                                       *)

Key(a, i, p, d) == [family |-> a, ip |-> i, proto |-> p, port |-> d]

LEMMA KeyParts ==
  ASSUME NEW a, NEW i, NEW p, NEW d, NEW x, NEW y, NEW z, NEW w
  PROVE  Key(a, i, p, d) = Key(x, y, z, w) <=> a = x /\ i = y /\ p = z /\ d = w
  BY Zenon DEF Key

LEMMA KeysOf ==
  ASSUME NEW b, NEW a, NEW i, NEW p, NEW d
  PROVE  Key(a, i, p, d) \in BindKeys(b) <=>
           /\ a = b.family /\ i = b.ip
           /\ \/ p = b.proto /\ d \in BindPorts(b)
              \/ p = "icmp" /\ d = 0
<1>1. Key(a, i, p, d) \in BindKeys(b)
      <=> \/ \E port \in BindPorts(b) : Key(a, i, p, d) = Key(b.family, b.ip, b.proto, port)
          \/ Key(a, i, p, d) = Key(b.family, b.ip, "icmp", 0)
  BY Zenon DEF BindKeys, Key
<1>2. ASSUME NEW port
      PROVE  Key(a, i, p, d) = Key(b.family, b.ip, b.proto, port)
             <=> a = b.family /\ i = b.ip /\ p = b.proto /\ d = port
  BY KeyParts
<1>3. Key(a, i, p, d) = Key(b.family, b.ip, "icmp", 0)
      <=> a = b.family /\ i = b.ip /\ p = "icmp" /\ d = 0
  BY KeyParts
<1> QED BY <1>1, <1>2, <1>3

LEMMA KeysOfBind ==
  ASSUME NEW b, Parses(pkt)
  PROVE  KeyOf(pkt) \in BindKeys(b) <=>
           /\ pkt.ether = b.family /\ fields.dst_addr = b.ip
           /\ \/ fields.original_ipproto = b.proto /\ fields.dst_port \in BindPorts(b)
              \/ fields.original_ipproto = "icmp" /\ fields.dst_port = 0
<1>1. fields.ether_type = pkt.ether
  BY OuterProtocol
<1>2. KeyOf(pkt) = Key(pkt.ether, fields.dst_addr, fields.original_ipproto, fields.dst_port)
  BY <1>1, Zenon DEF KeyOf, Key, fields
<1> QED BY <1>2, KeysOf

(* The two directors do the same for a packet both can serve. *)
LEMMA PathAgrees ==
  LastExists /\ PathInv => DirectorsAgree
<1>PingFields.
  ASSUME pkt.proto = "icmp", pkt.icmp = Echo
  PROVE  fields.dst_addr = pkt.dst /\ fields.dst_port = 0 /\ fields.original_ipproto = "icmp"
  <2> USE <1>PingFields
  <2>1. \E g : fields = Portless(pkt, g)
    BY DEF fields, glb_extract_packet_fields, extract_packet_fields_ipv4, extract_packet_fields_ipv6,
           Echo, Frag, Unreachable
  <2> QED BY <2>1 DEF Portless, RouteContext
(* A bind of a single address matches, in either director, the packets for  *)
(* that address.                                                            *)
<1>HostBind.
  ASSUME Inputs, Parses(pkt), HostBinds(setting), NEW b \in setting.binds, b.family = pkt.ether
  PROVE  /\ b.proto \in {"tcp", "udp"}
         /\ MaskMatch(pkt.dst, b.ip, Masks(b)) <=> pkt.dst = b.ip
         /\ MaskMatch(pkt.inner.src, b.ip, Masks(b)) <=> pkt.inner.src = b.ip
  <2> USE <1>HostBind
  <2>1. Serving
    BY InputsServing
  <2>2. PICK s, t : b = bind_entry(s, t) /\ SourceBind(s)
    BY <2>1, BindsOfTables
  <2>3. b.family \in Families /\ b.ip \in Addresses(b.family) /\ b.proto \in {"tcp", "udp"}
    BY <2>2, Zenon DEF bind_entry, SourceBind, BindAccepted
  <2>4. \A w \in DOMAIN b.ip : Masks(b)[w] = WordBits
    BY <2>3, HostMasks, Zenon DEF HostBinds
  <2>5. pkt.dst \in Addresses(b.family) /\ pkt.inner.src \in Addresses(b.family)
    BY PacketTyped, Zenon DEF Inputs, Parses
  <2> QED BY <2>3, <2>4, <2>5, FullMasks
<1>KeysMatch.
  ASSUME Inputs, HostBinds(setting), Common(pkt), NEW b \in setting.binds
  PROVE  /\ KeyOf(pkt) \in BindKeys(b) => Matches(b, pkt)
         /\ Matches(b, pkt) /\ pkt.icmp # Frag => KeyOf(pkt) \in BindKeys(b)
  <2> USE <1>KeysMatch
  <2>1. Parses(pkt)
    BY Zenon DEF Common
  <2>2. CASE b.family # pkt.ether
    BY <2>1, <2>2, KeysOfBind, Zenon DEF Matches
  <2>3. CASE b.family = pkt.ether
    <3>1. /\ b.proto \in {"tcp", "udp"}
          /\ MaskMatch(pkt.dst, b.ip, Masks(b)) <=> pkt.dst = b.ip
          /\ MaskMatch(pkt.inner.src, b.ip, Masks(b)) <=> pkt.inner.src = b.ip
      BY <2>1, <2>3, <1>HostBind, Zenon
    <3>2. KeyOf(pkt) \in BindKeys(b) <=>
             /\ fields.dst_addr = b.ip
             /\ \/ fields.original_ipproto = b.proto /\ fields.dst_port \in BindPorts(b)
                \/ fields.original_ipproto = "icmp" /\ fields.dst_port = 0
      BY <2>1, <2>3, KeysOfBind, Zenon
    <3>3. CASE pkt.proto \in {"tcp", "udp"}
      <4>1. pkt.icmp = NotICMP
        BY <3>3, PacketTyped, Zenon DEF Inputs
      <4>2. KeyOf(pkt) \in BindKeys(b)
            <=> pkt.dst = b.ip /\ pkt.proto = b.proto /\ pkt.dport \in BindPorts(b)
        BY <3>2, <3>3, PlainFields, Zenon
      <4>3. Matches(b, pkt)
            <=> pkt.proto = b.proto /\ pkt.dst = b.ip /\ pkt.dport \in BindPorts(b)
        BY <2>3, <3>1, <3>3, <4>1, MatchForms, Zenon
      <4> QED BY <4>2, <4>3, Zenon
    <3>4. CASE pkt.proto = "icmp" /\ pkt.icmp = Frag /\ pkt.dst = pkt.inner.src /\ pkt.inner.proto # "icmp"
      <4>1. KeyOf(pkt) \in BindKeys(b)
            => pkt.inner.src = b.ip /\ pkt.inner.sport \in BindPorts(b)
        BY <3>2, <3>4, QuotedFields, Zenon
      <4>2. pkt.inner.src = b.ip /\ pkt.inner.sport \in BindPorts(b) => Matches(b, pkt)
        BY <2>3, <3>1, <3>4, MatchForms, Zenon
      <4> QED BY <3>4, <4>1, <4>2, Zenon
    <3>5. CASE pkt.proto = "icmp" /\ pkt.icmp = Echo /\ setting.forward_icmp
      <4>1. KeyOf(pkt) \in BindKeys(b) <=> pkt.dst = b.ip
        BY <3>1, <3>2, <3>5, <1>PingFields, Zenon
      <4>2. Matches(b, pkt) <=> pkt.dst = b.ip
        BY <2>3, <3>1, <3>5, MatchForms, Zenon DEF Echo, Frag, NotICMP
      <4> QED BY <4>1, <4>2, Zenon
    <3> QED BY <3>3, <3>4, <3>5, Zenon DEF Common
  <2> QED BY <2>2, <2>3, Zenon
<1>PathAgrees.
  ASSUME LastExists, PathInv
  PROVE  DirectorsAgree
  <2> USE <1>PathAgrees
  <2> SUFFICES ASSUME director = "xdp", HostBinds(setting), Common(pkt)
               PROVE  /\ table # NoTable => table \in found
                      /\ stage = "sent" /\ gue.next_hop = 0 =>
                           gue = glb_encapsulate_packet(Route, fields)
                      /\ stage = "kernel" /\ pkt.icmp # Frag => found = {NoTable}
    BY Zenon DEF DirectorsAgree, found, fields, Route
  <2>1. Inputs /\ Serving /\ Parses(pkt)
    BY InputsServing, Zenon DEF PathInv, Common
  <2>2. ASSUME table # NoTable PROVE table \in found
    <3>1. table = xdpTable
      BY <2>2, Zenon DEF PathInv
    <3>2. PICK b \in setting.binds : KeyOf(pkt) \in BindKeys(b) /\ b.table = table
      BY <2>1, <2>2, <3>1, LookupTable, Zenon
    <3> QED BY <2>1, <3>2, <1>KeysMatch, FoundTables, Zenon
  <2>3. ASSUME stage = "sent", gue.next_hop = 0
        PROVE  gue = glb_encapsulate_packet(Route, fields)
    <3>1. table # NoTable /\ OnTheWay
      BY <2>3 DEF PathInv
    <3>2. PICK n : gue = Hop(n, 0)
      BY <3>1, Zenon DEF OnTheWay
    <3>3. n = 0
      BY <2>3, <3>2, HopFields, Zenon
    <3>4. table \in DOMAIN setting.tables
      BY <3>1, TableLoaded, Zenon
    <3> QED BY <2>1, <3>2, <3>3, <3>4, Encapsulated, Zenon
  <2>4. ASSUME stage = "kernel", pkt.icmp # Frag PROVE found = {NoTable}
    <3>1. xdpTable = NoTable
      BY <2>1, <2>4, Zenon DEF PathInv
    <3>2. \A b \in setting.binds : ~Matches(b, pkt)
      BY <2>1, <2>4, <3>1, LookupTable, <1>KeysMatch, Zenon
    <3> QED BY <2>1, <3>2, FoundTables, Zenon
  <2> QED BY <2>2, <2>3, <2>4
<1> QED BY <1>PathAgrees, Zenon

------------------------------------------------------------------------------
(* The connection's packets.                                                *)

DataOf(d, p, f) ==
  /\ d.ether = p.ether /\ d.proto = "tcp" /\ d.icmp = NotICMP
  /\ d.src = f.src /\ d.dst = f.dst /\ d.sport = f.sport /\ d.dport = f.dport

LEMMA DataFields ==
  ASSUME NEW p \in PacketShape, NEW d, d = DataPacket(p), NEW f, f = Flow(p)
  PROVE  DataOf(d, p, f)
<1>1. DOMAIN p = {"ether", "proto", "src", "dst", "sport", "dport", "icmp", "flags", "whole", "inner"}
  BY DEF PacketShape
<1>2. PICK a, b, s, t : a = f.src /\ b = f.dst /\ s = f.sport /\ t = f.dport
  BY Zenon
<1>3. d = [p EXCEPT !.proto = "tcp", !.icmp = NotICMP, !.src = a, !.dst = b, !.sport = s, !.dport = t]
  BY <1>2, Zenon DEF DataPacket
<1>4. /\ d.ether = p.ether /\ d.proto = "tcp" /\ d.icmp = NotICMP
      /\ d.src = a /\ d.dst = b /\ d.sport = s /\ d.dport = t
  BY <1>1, <1>3
<1> QED BY <1>2, <1>4, Zenon DEF DataOf

FieldsOf(f) ==
  /\ f.src = fields.src_addr /\ f.dst = fields.dst_addr
  /\ f.sport = fields.src_port /\ f.dport = fields.dst_port
  /\ fields.original_ipproto = "tcp"

LEMMA FlowOfPacket ==
  ASSUME IsTcp(pkt), NEW f, f = Flow(pkt)
  PROVE  FieldsOf(f)
<1>1. CASE pkt.proto = "tcp"
  <2>1. f = Tuple(pkt.src, pkt.dst, pkt.sport, pkt.dport)
    BY <1>1, Zenon DEF Flow
  <2>2. f.src = pkt.src /\ f.dst = pkt.dst /\ f.sport = pkt.sport /\ f.dport = pkt.dport
    BY <2>1 DEF Tuple
  <2>3. pkt.proto # "icmp"
    BY <1>1
  <2> QED BY <1>1, <2>2, <2>3, PlainFields, Zenon DEF FieldsOf
<1>2. CASE pkt.proto = "icmp" /\ pkt.icmp = Frag /\ pkt.inner.proto = "tcp"
  <2>1. f = Tuple(pkt.inner.dst, pkt.inner.src, pkt.inner.dport, pkt.inner.sport)
    BY <1>2 DEF Flow
  <2>2. /\ f.src = pkt.inner.dst /\ f.dst = pkt.inner.src
        /\ f.sport = pkt.inner.dport /\ f.dport = pkt.inner.sport
    BY <2>1 DEF Tuple
  <2> QED BY <1>2, <2>2, QuotedFields, Zenon DEF FieldsOf
<1> QED BY <1>1, <1>2, Zenon DEF IsTcp

(* The packets of a connection and the errors about it hash alike. *)
LEMMA SameHash ==
  ASSUME Inputs, IsTcp(pkt), NEW F \in SUBSET HashFields
  PROVE  glb_compute_hash(glb_extract_packet_fields(DataPacket(pkt)), F) = glb_compute_hash(fields, F)
<1>1. PICK d, c, f : d = DataPacket(pkt) /\ c = glb_extract_packet_fields(d) /\ f = Flow(pkt)
  BY Zenon
<1>2. pkt \in PacketShape
  BY PacketPathInputs, Zenon DEF Inputs
<1>3. DataOf(d, pkt, f) /\ FieldsOf(f)
  BY <1>1, <1>2, DataFields, FlowOfPacket, Zenon
<1>4. \E g : c = Plain(d, g)
  BY <1>1, <1>3 DEF DataOf, glb_extract_packet_fields, extract_packet_fields_ipv4, extract_packet_fields_ipv6
<1>5. c.src_addr = d.src /\ c.dst_addr = d.dst /\ c.src_port = d.sport /\ c.dst_port = d.dport
  BY <1>4 DEF Plain, RouteContext
<1>a. /\ c.src_addr = fields.src_addr /\ c.dst_addr = fields.dst_addr
      /\ c.src_port = fields.src_port /\ c.dst_port = fields.dst_port
  BY <1>3, <1>5, Zenon DEF DataOf, FieldsOf
<1>6. \A x \in HashFields : c[x] = fields[x]
  BY <1>a DEF HashFields
<1>7. [x \in F |-> c[x]] = [x \in F |-> fields[x]]
  BY <1>6
<1> QED BY <1>1, <1>7, Zenon DEF glb_compute_hash

LEMMA SameRoute ==
  ASSUME Inputs, IsTcp(pkt)
  PROVE  glb_calculate_packet_route(setting, table, glb_extract_packet_fields(DataPacket(pkt))) = Route
<1>1. setting.hash_fields \in SUBSET HashFields /\ setting.alt_hash_fields \in SUBSET HashFields
  BY InputsServing DEF Serving
<1>2. PICK c : c = glb_extract_packet_fields(DataPacket(pkt))
  BY Zenon
<1>3. /\ glb_compute_hash(c, setting.hash_fields) = glb_compute_hash(fields, setting.hash_fields)
      /\ glb_compute_hash(c, setting.alt_hash_fields) = glb_compute_hash(fields, setting.alt_hash_fields)
  BY <1>1, <1>2, SameHash, Zenon
<1>4. glb_calculate_packet_route(setting, table, c) = glb_calculate_packet_route(setting, table, fields)
  BY <1>3, Zenon DEF glb_calculate_packet_route, glb_add_packet_route
<1> QED BY <1>2, <1>4, Zenon DEF Route

(* An error's addressee is the host whose packet it quotes. *)
ToTheHost == pkt.icmp = Frag => pkt.dst = pkt.inner.src

(* A bind for the data of a connection covers an error about it too. *)
LEMMA DataCovered ==
  ASSUME Inputs, IsTcp(pkt), ToTheHost, NEW t \in Covering(setting, DataPacket(pkt))
  PROVE  t \in Covering(setting, pkt)
<1>1. PICK d, f : d = DataPacket(pkt) /\ f = Flow(pkt)
  BY Zenon
<1>2. pkt \in PacketShape /\ (pkt.icmp # NotICMP <=> pkt.proto = "icmp")
  BY PacketPathInputs, Zenon DEF Inputs
<1>0. DataOf(d, pkt, f)
  BY <1>1, <1>2, DataFields, Zenon
<1>3. d.ether = pkt.ether /\ d.proto = "tcp" /\ d.icmp = NotICMP /\ d.dst = f.dst /\ d.dport = f.dport
  BY <1>0, Zenon DEF DataOf
<1>4. t \in DOMAIN setting.tables /\ t \in Covering(setting, d)
  BY <1>1 DEF Covering
<1>5. PICK i \in DOMAIN setting.tables[t].binds :
        Covers(setting.tables[t].binds[i], d, setting.forward_icmp)
  BY <1>4 DEF Covering
<1>6. PICK b : b = setting.tables[t].binds[i]
  BY Zenon
<1>7. d.ether = b.family /\ InSubnet(d.dst, b) /\ d.proto = b.proto /\ OnPort(d.dport, b)
  BY <1>3, <1>5, <1>6, Zenon DEF Covers, NotICMP, Frag, Echo
<1>8. Covers(b, pkt, setting.forward_icmp)
  <2>1. CASE pkt.proto = "tcp"
    <3>1. f = Tuple(pkt.src, pkt.dst, pkt.sport, pkt.dport) /\ pkt.icmp = NotICMP
      BY <1>1, <1>2, <2>1, Zenon DEF Flow
    <3>2. f.dst = pkt.dst /\ f.dport = pkt.dport
      BY <3>1 DEF Tuple
    <3>3. pkt.ether = b.family /\ InSubnet(pkt.dst, b) /\ pkt.proto = b.proto /\ OnPort(pkt.dport, b)
      BY <1>3, <1>7, <2>1, <3>2, Zenon
    <3> QED BY <3>1, <3>3, Zenon DEF Covers, NotICMP, Frag, Echo
  <2>2. CASE pkt.proto = "icmp" /\ pkt.icmp = Frag
    <3>1. f = Tuple(pkt.inner.dst, pkt.inner.src, pkt.inner.dport, pkt.inner.sport)
      BY <1>1, <2>2, Zenon DEF Flow
    <3>2. f.dst = pkt.inner.src /\ f.dport = pkt.inner.sport
      BY <3>1 DEF Tuple
    <3>3. /\ pkt.ether = b.family /\ InSubnet(pkt.dst, b) /\ InSubnet(pkt.inner.src, b)
          /\ OnPort(pkt.inner.sport, b)
      BY <1>3, <1>7, <2>2, <3>2, Zenon DEF ToTheHost
    <3> QED BY <2>2, <3>3, Zenon DEF Covers, NotICMP, Frag, Echo
  <2> QED BY <2>1, <2>2, Zenon DEF IsTcp
<1> QED BY <1>4, <1>6, <1>8, Zenon DEF Covering

LEMMA TableCovers ==
  ASSUME LastExists, PathInv, Parses(pkt), table # NoTable, IsTcp(pkt), ToTheHost
  PROVE  table \in Covering(setting, pkt)
<1>1. Inputs /\ Serving
  BY InputsServing, Zenon DEF PathInv
<1>2. CASE director = "dpdk"
  BY <1>2, PathClassifies, Zenon DEF ClassifierExact, Parses
<1>3. CASE director = "xdp"
  <2>1. table = xdpTable
    BY <1>3, Zenon DEF PathInv
  <2>2. PICK b \in setting.binds : KeyOf(pkt) \in BindKeys(b) /\ b.table = table
    BY <1>1, <2>1, LookupTable, Zenon
  <2>3. fields.original_ipproto = "tcp"
    BY FlowOfPacket, Zenon DEF FieldsOf
  <2>4. /\ pkt.ether = b.family /\ fields.dst_addr = b.ip
        /\ b.proto = "tcp" /\ fields.dst_port \in BindPorts(b)
    BY <2>2, <2>3, KeysOfBind, Zenon
  <2>5. MaskMatch(b.ip, b.ip, Masks(b))
    BY Zenon DEF MaskMatch
  <2>6. Matches(b, pkt)
    <3>1. CASE pkt.proto = "tcp"
      <4>1. pkt.icmp = NotICMP
        BY <1>1, <3>1, PacketTyped, Zenon DEF Inputs
      <4>2. pkt.dst = b.ip /\ pkt.dport \in BindPorts(b)
        BY <2>4, <3>1, PlainFields, Zenon
      <4>3. pkt.proto = b.proto /\ pkt.icmp = NotICMP /\ MaskMatch(pkt.dst, b.ip, Masks(b))
        BY <2>4, <2>5, <3>1, <4>1, <4>2, Zenon
      <4> QED BY <2>4, <4>2, <4>3, MatchForms, Zenon
    <3>2. CASE pkt.proto = "icmp" /\ pkt.icmp = Frag
      <4>1. pkt.inner.src = b.ip /\ pkt.inner.sport \in BindPorts(b)
        BY <2>4, <3>2, QuotedFields, Zenon
      <4>2. MaskMatch(pkt.dst, b.ip, Masks(b)) /\ MaskMatch(pkt.inner.src, b.ip, Masks(b))
        BY <2>5, <3>2, <4>1, Zenon DEF ToTheHost
      <4> QED BY <2>4, <3>2, <4>1, <4>2, MatchForms, Zenon
    <3> QED BY <3>1, <3>2, Zenon DEF IsTcp
  <2> QED BY <1>1, <2>2, <2>6, CoveringMatches
<1> QED BY <1>1, <1>2, <1>3 DEF Inputs

(* A set of tables with no more than one element has one element. *)
OneOfFew ==
  \A n \in Nat : \A S \in SUBSET (1 .. n) : Cardinality(S) <= 1 => \A x, y \in S : x = y

(* With one table for the packet, its route goes by the owner. *)
LEMMA OwnerOnRoute ==
  ASSUME LastExists, OneOfFew, PathInv, Parses(pkt), table # NoTable, Recognisable, Unambiguous
  PROVE  \E k \in 1 .. Len(Route) : Route[k] = owner
<1>1. Inputs /\ Serving /\ IsTcp(pkt) /\ ToTheHost /\ pkt.whole /\ owner \in MayOwn(setting, pkt)
  BY InputsServing, Zenon DEF PathInv, Inputs, Recognisable, ToTheHost, Parses
<1>2. PICK d, c : d = DataPacket(pkt) /\ c = glb_extract_packet_fields(d)
  BY Zenon
<1>3. owner \in UNION {Range(glb_calculate_packet_route(setting, t, c)) : t \in Covering(setting, d)}
  BY <1>1, <1>2, Zenon DEF MayOwn
<1>4. PICK t \in Covering(setting, d) : owner \in Range(glb_calculate_packet_route(setting, t, c))
  BY <1>3, Zenon
<1>5. t \in Covering(setting, pkt) /\ table \in Covering(setting, pkt)
  BY <1>1, <1>2, <1>4, DataCovered, TableCovers
<1>6. t = table
  <2>1. PICK n \in Nat : DOMAIN setting.tables = 1 .. n
    BY <1>1, Zenon DEF Serving
  <2>2. PICK S : S = Covering(setting, pkt)
    BY Zenon
  <2>3. S \in SUBSET (1 .. n)
    BY <2>1, <2>2, Zenon DEF Covering
  <2>4. Cardinality(S) <= 1
    BY <2>2, Zenon DEF Unambiguous
  <2> QED BY <1>5, <2>2, <2>3, <2>4, Zenon DEF OneOfFew
<1>7. owner \in Range(Route)
  BY <1>1, <1>2, <1>4, <1>6, SameRoute
<1>8. table \in DOMAIN setting.tables
  BY TableLoaded, Zenon
<1>9. DOMAIN Route = 1 .. Len(Route)
  BY <1>1, <1>8, RouteShape, SequenceShape
<1> QED BY <1>7, <1>9, Zenon DEF Range

(* What GLBREDIRECT looks up is the packet's connection. *)
LEMMA LooksUpFlow ==
  ASSUME IsTcp(pkt)
  PROVE  Inner(pkt).verdict = "lookup" /\ Inner(pkt).tuple = Flow(pkt)
<1>1. Inner(pkt) = Lookup(Flow(pkt))
  <2>1. CASE pkt.proto = "tcp"
    BY <2>1 DEF Inner, glbredirect_handle_inner_ipv4, glbredirect_handle_inner_ipv6, Flow
  <2>2. CASE pkt.proto = "icmp" /\ pkt.icmp = Frag
    BY <2>2, Zenon DEF Inner, glbredirect_handle_inner_ipv4, glbredirect_handle_inner_ipv6, Flow,
                fill_tcp_from_icmp
  <2> QED BY <2>1, <2>2, Zenon DEF IsTcp
<1> QED BY <1>1 DEF Lookup

Seeking == Recognisable /\ pkt.flags # "syn"

(* No proxy on the way so far is the owner; the last one is, or has no      *)
(* other to send the packet to.                                             *)
WayInv ==
  Seeking =>
    /\ stage \in {"sent", "taken"} => \A k \in 1 .. gue.next_hop : Route[k] # owner
    /\ stage = "taken" => gue.daddr = owner \/ ~HasAlternate

(* Only the owner keeps a packet that it can recognise. *)
LEMMA LocalOwner ==
  ASSUME Seeking, NEW proxy
  PROVE  is_valid_locally(proxy) <=> proxy = owner
<1>1. IsTcp(pkt) /\ (knows = "socket" \/ pkt.flags = "ack")
  BY Zenon DEF Seeking, Recognisable
<1> QED BY <1>1, LooksUpFlow, Zenon DEF is_valid_locally

LEMMA SameSeeking ==
  ASSUME inputs' = inputs
  PROVE  Seeking' <=> Seeking
  BY Zenon DEF inputs, Seeking, Recognisable

(* No step leaves the owner behind. *)
LEMMA WayStep ==
  ASSUME LastExists, PathInv, PathInv', WayInv, [Next]_vars
  PROVE  WayInv'
<1>1. inputs' = inputs
  BY Zenon DEF Next, DpdkClassify, DpdkEncapsulate, DpdkFree, XdpPass, XdpProcess, XdpDrop,
         glbredirect_tg4, ForwardToAlternate, NoRoute, vars, inputs
<1> SUFFICES ASSUME Seeking, stage' \in {"sent", "taken"}
             PROVE  /\ \A k \in 1 .. gue'.next_hop : Route'[k] # owner'
                    /\ stage' = "taken" => gue'.daddr = owner' \/ ~HasAlternate'
  BY <1>1, SameSeeking, Zenon DEF WayInv
<1>2. owner' = owner /\ (table' = table => Route' = Route)
  BY <1>1, SameWay, Zenon
<1>3. CASE DpdkEncapsulate
  <2>1. stage' = "sent" /\ gue'.next_hop = 0
    <3>1. gue' = [glb_encapsulate_packet(Route, fields) EXCEPT
                    !.check = UdpChecksum(glb_encapsulate_packet(Route, fields))]
          /\ stage' = "sent"
      BY <1>3, Zenon DEF DpdkEncapsulate, glb_checksum_offloading, Route, fields
    <3>2. PICK k : gue' = [glb_encapsulate_packet(Route, fields) EXCEPT !.check = k]
      BY <3>1, Zenon
    <3> QED BY <3>1, <3>2, Zenon DEF glb_encapsulate_packet
  <2> QED BY <2>1
<1>4. CASE XdpProcess
  <2>1. stage' = "sent" /\ gue'.next_hop = 0
    BY <1>4 DEF XdpProcess, XdpEncapsulate
  <2> QED BY <2>1
<1>5. CASE ForwardToAlternate
  <2>1. /\ stage = "sent" /\ stage' = "sent" /\ table' = table /\ gue' = Forwarded
        /\ ~is_valid_locally(gue.daddr) /\ HasAlternate
    BY <1>5, Zenon DEF ForwardToAlternate, NeedsAlternate
  <2>2. gue.daddr # owner
    BY <2>1, LocalOwner, Zenon
  <2>3. Inputs /\ table # NoTable /\ OnTheWay
    BY <2>1, Zenon DEF PathInv
  <2>4. table \in DOMAIN setting.tables
    BY <2>3, TableLoaded, Zenon
  <2>5. PICK n \in 0 .. Len(Route) - 1 : \E check : gue = Hop(n, check)
    BY <2>3, Zenon DEF OnTheWay
  <2>6. gue.daddr = Route[n + 1] /\ gue.next_hop = n
    BY <2>5, HopFields, Zenon
  <2>7. gue'.next_hop = n + 1
    <3>1. Forwarded = Hop(n + 1, Forwarded.check)
      BY <2>1, <2>3, <2>4, <2>5, ForwardedHop
    <3>2. Forwarded.next_hop = n + 1
      BY <3>1, FieldsOfHop
    <3> QED BY <2>1, <3>2, Zenon
  <2>8. \A k \in 1 .. n : Route[k] # owner
    BY <2>1, <2>6, Zenon DEF WayInv
  <2>9. \A k \in 1 .. n + 1 : k \in 1 .. n \/ k = n + 1
    BY <2>5
  <2>10. \A k \in 1 .. n + 1 : Route[k] # owner
    BY <2>2, <2>6, <2>8, <2>9, Zenon
  <2> QED BY <1>2, <2>1, <2>7, <2>10, Zenon
<1>6. CASE glbredirect_tg4
  <2>1. stage = "sent" /\ table' = table /\ gue' = gue /\ ~NeedsAlternate
    BY <1>6, Zenon DEF glbredirect_tg4
  <2>2. ValidGue(gue)
    BY <2>1, Accepted, Zenon
  <2>3. Inner(pkt).verdict = "lookup" /\ pkt.flags # "syn"
    BY LooksUpFlow, Zenon DEF Seeking, Recognisable
  <2>4. gue.daddr = owner \/ ~HasAlternate
    BY <2>1, <2>2, <2>3, LocalOwner, Zenon DEF NeedsAlternate
  <2>5. HasAlternate' <=> HasAlternate
    BY <2>1, Zenon DEF HasAlternate, alt
  <2> QED BY <1>2, <2>1, <2>4, <2>5, Zenon DEF WayInv
<1>7. CASE UNCHANGED vars
  <2>1. stage' = stage /\ table' = table /\ gue' = gue
    BY <1>7 DEF vars
  <2>2. HasAlternate' <=> HasAlternate
    BY <2>1, Zenon DEF HasAlternate, alt
  <2> QED BY <1>2, <2>1, <2>2, Zenon DEF WayInv
<1>8. CASE DpdkClassify \/ DpdkFree \/ XdpPass \/ XdpDrop \/ NoRoute
  BY <1>8, Zenon DEF DpdkClassify, DpdkFree, XdpPass, XdpDrop, NoRoute
<1> QED BY <1>3, <1>4, <1>5, <1>6, <1>7, <1>8 DEF Next

(* Among hops of which only the last two may be equal, the first to keep a  *)
(* packet that none before it would is the owner.                           *)
LEMMA FirstToKeep ==
  ASSUME NEW route, NEW l \in Nat, NEW n \in 0 .. l - 1, NEW o,
         \A k \in 1 .. n : route[k] # o, \E k \in 1 .. l : route[k] = o,
         \A k \in 1 .. l - 2 : route[k] # route[k + 1],
         n = l - 1 \/ route[n + 2] = route[n + 1]
  PROVE  route[n + 1] = o
<1>1. PICK k \in 1 .. l : route[k] = o
  BY Zenon
<1>2. k \notin 1 .. n
  BY <1>1, Zenon
<1>3. k \in n + 1 .. l
  BY <1>2
<1>4. CASE n = l - 1
  <2>1. k = n + 1
    BY <1>3, <1>4
  <2> QED BY <1>1, <2>1, Zenon
<1>5. CASE n # l - 1
  <2>1. route[n + 2] = route[n + 1]
    BY <1>5
  <2>2. n + 1 \notin 1 .. l - 2
    <3>1. (n + 1) + 1 = n + 2
      OBVIOUS
    <3> QED BY <2>1, <3>1, Zenon
  <2>3. k = n + 1 \/ k = n + 2
    BY <1>3, <1>5, <2>2
  <2> QED BY <1>1, <2>1, <2>3, Zenon
<1> QED BY <1>4, <1>5, Zenon

(* So the packet ends at the owner. *)
LEMMA PathReaches ==
  ASSUME LastExists, OneOfFew, PathInv, WayInv
  PROVE  FlowReachesOwner
<1> SUFFICES ASSUME stage = "taken", Recognisable, Unambiguous, pkt.flags # "syn", Spaced(Route)
             PROVE  gue.daddr = owner
  BY Zenon DEF FlowReachesOwner, Route, fields
<1>1. Inputs /\ Parses(pkt) /\ table # NoTable /\ OnTheWay
  BY Zenon DEF PathInv
<1>2. table \in DOMAIN setting.tables
  BY <1>1, TableLoaded, Zenon
<1>3. PICK n \in 0 .. Len(Route) - 1 : \E check : gue = Hop(n, check)
  BY <1>1, Zenon DEF OnTheWay
<1>4. /\ gue.daddr = Route[n + 1] /\ gue.next_hop = n /\ gue.hop_count = Len(Route) - 1
      /\ gue.hops = Tail(Route)
  BY <1>3, HopFields, Zenon
<1>5. \A k \in 1 .. n : Route[k] # owner
  BY <1>4, Zenon DEF WayInv, Seeking
<1>6. \E k \in 1 .. Len(Route) : Route[k] = owner
  BY <1>1, OwnerOnRoute, Zenon
<1>7. \A k \in 1 .. Len(Route) - 2 : Route[k] # Route[k + 1]
  BY Zenon DEF Spaced
<1>8. Route \in Seq(HopWords) /\ Len(Route) \in {2, 4}
  BY <1>1, <1>2, RouteShape, Zenon
<1>9. ASSUME ~HasAlternate PROVE n = Len(Route) - 1 \/ Route[n + 2] = Route[n + 1]
  <2>1. ~(n < Len(Route) - 1) \/ Tail(Route)[n + 1] = Route[n + 1]
    BY <1>4, <1>9, Zenon DEF HasAlternate, alt
  <2>2. n < Len(Route) - 1 => Tail(Route)[n + 1] = Route[n + 2]
    BY <1>8
  <2>3. ~(n < Len(Route) - 1) => n = Len(Route) - 1
    BY <1>8
  <2> QED BY <2>1, <2>2, <2>3, Zenon
<1>10. Len(Route) \in Nat
  BY <1>8
<1>11. ~HasAlternate => Route[n + 1] = owner
  BY <1>5, <1>6, <1>7, <1>9, <1>10, FirstToKeep
<1> QED BY <1>4, <1>11, Zenon DEF WayInv, Seeking

------------------------------------------------------------------------------
(* The theorems.  The library of finite sets is needed only here.           *)
INSTANCE FiniteSetTheorems

LEMMA LastOfSome == LastExists
<1> SUFFICES ASSUME NEW n \in Nat, NEW S \in SUBSET (1 .. n), S # {}
             PROVE  \E x \in S : \A y \in S : x >= y
  BY Zenon DEF LastExists
<1> DEFINE T == {n - x : x \in S}
<1>1. T \subseteq Nat /\ T # {}
  <2>1. ASSUME NEW x \in S PROVE n - x \in Nat
    <3>1. x \in 1 .. n
      BY Zenon
    <3> QED BY <3>1
  <2> QED BY <2>1, Zenon
<1>2. \E x \in T : \A y \in T : ~(<<y, x>> \in OpToRel(<, Nat))
  <2> HIDE DEF T
  <2> QED BY <1>1, NatLessThanWellFounded, WFMin, ZenonT(30)
<1>3. PICK m \in T : \A y \in T : ~(y < m)
  BY <1>1, <1>2, ZenonT(30) DEF OpToRel
<1>4. PICK x \in S : m = n - x
  BY <1>3, Zenon
<1>5. ASSUME NEW y \in S PROVE x >= y
  <2>1. ~(n - y < n - x)
    BY <1>3, <1>4
  <2>2. x \in 1 .. n /\ y \in 1 .. n
    BY Zenon
  <2> QED BY <2>1, <2>2
<1> QED BY <1>5

LEMMA OneOfOne == OneOfFew
<1> SUFFICES ASSUME NEW n \in Nat, NEW S \in SUBSET (1 .. n), Cardinality(S) <= 1,
                    NEW x \in S, NEW y \in S
             PROVE  x = y
  BY Zenon DEF OneOfFew
<1>1. IsFiniteSet(1 .. n)
  BY FS_Interval, SMTT(30)
<1>2. IsFiniteSet(S)
  BY <1>1, FS_Subset, Zenon
<1>3. IsFiniteSet({x}) /\ Cardinality({x}) = 1
  BY FS_Singleton, Zenon
<1>4. Cardinality({x} \cup {y}) = IF y \in {x} THEN 1 ELSE 2
  BY <1>3, FS_AddElement
<1>5. {x} \cup {y} \in SUBSET S
  OBVIOUS
<1>6. Cardinality({x} \cup {y}) <= Cardinality(S)
  BY <1>2, <1>5, FS_Subset, Zenon
<1>7. Cardinality(S) \in Nat
  BY <1>2, FS_CardinalityType, Zenon
<1>8. CASE y \notin {x}
  BY <1>4, <1>6, <1>7, <1>8
<1> QED BY <1>8, Zenon

LEMMA PathInvariant == Spec => []PathInv
<1>1. PathInv /\ [Next]_vars => PathInv'
  BY PathStep, LastOfSome, Zenon
<1> QED BY <1>1, PathInit, PTL DEF Spec

(* For any binds and packets, words of any size and any siphash: the ACL    *)
(* rules the DPDK director compiles from its binds, four masks for an IPv6  *)
(* prefix, accept the packets the binds are for and no others               *)
(* (add_acls_for_bind, ipv6_cidr_offset).                                   *)
THEOREM RulesMatchBinds == Spec => []ClassifierExact
BY PathInvariant, PathClassifies, PTL

(* For any configuration of single-address binds, a DPDK and an XDP         *)
(* director agree on the table and on every field of the outer headers but  *)
(* the checksum (classify_to_tables and encap against xdp_glb_director).    *)
THEOREM DirectorsAreInterchangeable == Spec => []DirectorsAgree
<1>1. PathInv => DirectorsAgree
  BY PathAgrees, LastOfSome, Zenon
<1> QED BY <1>1, PathInvariant, PTL

(* For any tables and packets, what a director sends passes the header      *)
(* checks of every proxy on its way: lengths, hop counts and the inner      *)
(* protocol (glbredirect_tg4 refuses nothing).                              *)
THEOREM NothingIsRefused == Spec => []RedirectAccepts
<1>1. PathInv => RedirectAccepts
  BY DEF PathInv, RedirectAccepts
<1> QED BY <1>1, PathInvariant, PTL

(* For checksum words of any size and any addresses and payload: the UDP    *)
(* checksum of the outer headers verifies at every proxy, however often     *)
(* csum_replace has followed a change of hop and addresses.                 *)
THEOREM ChecksumsVerify == Spec => []ChecksumKept
<1>1. Init => CheckInv
  BY DEF Init, CheckInv
<1>2. PathInv /\ CheckInv /\ [Next]_vars => CheckInv'
  BY CheckSteps, LastOfSome, Zenon
<1>3. Spec => []CheckInv
  BY <1>1, <1>2, PathInvariant, PTL DEF Spec
<1>4. PathInv /\ CheckInv => ChecksumKept
  BY CheckSteps, LastOfSome, Zenon
<1> QED BY <1>3, <1>4, PathInvariant, PTL

(* For any tables, hash fields and siphash, with one table that covers the  *)
(* packet and hops that differ: a packet of a connection, or an error about *)
(* one of its packets, ends at the proxy that has the connection.           *)
THEOREM PacketsReachTheirConnection == Spec => []FlowReachesOwner
<1>1. Init => WayInv
  BY Zenon DEF Init, WayInv
<1>2. PathInv /\ PathInv' /\ WayInv /\ [Next]_vars => WayInv'
  BY WayStep, LastOfSome, Zenon
<1>3. Spec => []WayInv
  BY <1>1, <1>2, PathInvariant, PTL DEF Spec
<1>4. PathInv /\ WayInv => FlowReachesOwner
  BY PathReaches, LastOfSome, OneOfOne, Zenon
<1> QED BY <1>3, <1>4, PathInvariant, PTL

==============================================================================
