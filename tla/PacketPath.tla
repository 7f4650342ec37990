------------------------------ MODULE PacketPath ------------------------------
(***************************************************************************)
(* One packet's way from the network to a proxy's stack.  A director, DPDK *)
(* or XDP, with the tables that build-config made, finds the packet's      *)
(* table, hashes it to a row, encapsulates it in GUE with the row's        *)
(* proxies as hops, and the GLBREDIRECT target of each proxy on the way    *)
(* hands it to the local stack or to the next hop.                         *)
(***************************************************************************)
EXTENDS TableBuilder

CONSTANTS
  Settings,       \* configurations: [tables, forward_icmp, hash_fields, alt_hash_fields],
                  \* the fields as <<set of names>>, or <<>> when absent
  Packets,        \* the packets that may arrive
  Proxies,        \* addresses of the proxies, each one checksum word
  NoProxy,
  DirectorIP,     \* outbound_source_ip
  RowOf(_, _),    \* RowOf(table, fields): siphash with the table's key, masked
  CheckBits,      \* bits of a checksum word (16 in the code)
  Payloads        \* sums of the bytes no hop changes

Addresses(family) ==
  {a \in Seq(0 .. 2^WordBits - 1) : Len(a) = (IF family = "ipv4" THEN 1 ELSE 4)}

Sources ==
  [backends : Seq([ip : Proxies, state : STRING, healthy : BOOLEAN]),
   binds : Seq([family : Families, ip : Seq(Nat), cidr : Nat \cup {Absent}, proto : STRING,
                port : Int, port_start : Int, port_end : Int])]
FieldChoices == {<<>>} \cup {<<f>> : f \in SUBSET HashFields}

PacketShape ==
  [ether : STRING, proto : STRING, src : Seq(Nat), dst : Seq(Nat), sport : Nat, dport : Nat,
   icmp : {Frag, Unreachable, Echo, OtherICMP, NotICMP}, flags : STRING, whole : BOOLEAN,
   inner : [proto : STRING, src : Seq(Nat), dst : Seq(Nat), sport : Nat, dport : Nat]]

ASSUME PacketPathConstants ==
  /\ Proxies \cup {DirectorIP} \cup Payloads \subseteq 0 .. 2^CheckBits - 1
  /\ NoProxy \notin Proxies
  /\ CheckBits \in Nat /\ 2^CheckBits >= 16

ASSUME PacketPathInputs ==
  /\ \A c \in Settings :
       /\ c \in [tables : Seq(Sources), forward_icmp : BOOLEAN,
                 hash_fields : FieldChoices, alt_hash_fields : FieldChoices]
       /\ \A t \in DOMAIN c.tables : \A i \in DOMAIN c.tables[t].binds :
            c.tables[t].binds[i].ip \in Addresses(c.tables[t].binds[i].family)
  /\ \A p \in Packets :
       /\ p \in PacketShape
       /\ p.icmp # NotICMP <=> p.proto = "icmp"
       /\ p.ether \in Families => {p.dst, p.inner.src} \subseteq Addresses(p.ether)

(* A hash is masked to a row. *)
ASSUME RowsOfPackets ==
  \A t \in UNION {DOMAIN c.tables : c \in Settings}, p \in Packets, fields \in SUBSET HashFields :
    RowOf(t, glb_compute_hash(glb_extract_packet_fields(p), fields)) \in 0 .. Rows - 1

GLB_MAX_HOPS == 4
MAX_HOPS == 256

VARIABLES
  director,   \* "dpdk" or "xdp"
  setting,    \* its configuration, binds and rows
  pkt,        \* the packet
  owner,      \* proxy that knows the packet's TCP connection
  knows,      \* from an established socket, or from a SYN cookie it sent
  stage,
  table,      \* the table the packet was classified to
  gue,        \* the outer headers
  payload     \* checksum of what they carry

vars == <<director, setting, pkt, owner, knows, stage, table, gue, payload>>
inputs == <<director, setting, pkt, owner, knows, payload>>

NoGue == [saddr |-> 0, daddr |-> 0, check |-> 0, hlen |-> 0, proto |-> "none",
          next_hop |-> 0, hop_count |-> 0, hops |-> <<>>]

------------------------------------------------------------------------------
(* Configuration and tables.                                                *)

(* An empty choice of fields ends the DPDK director when it starts.  The    *)
(* XDP director takes it: its alternative is off then.                      *)
ConfigAccepted(d, c) ==
  d = "dpdk" => {c.hash_fields, c.alt_hash_fields} \cap {<<{}>>} = {}

hash_fields(c) == IF c.hash_fields = <<>> THEN {"src_addr"} ELSE c.hash_fields[1]
alt_hash_fields(c) == IF c.alt_hash_fields = <<>> THEN {} ELSE c.alt_hash_fields[1]

Loaded(c, unset) ==
  [tables |-> c.tables, binds |-> Binds(c.tables),
   rows |-> [k \in DOMAIN c.tables |-> [r \in 0 .. Rows - 1 |-> TableEntry(c.tables, k, r, unset)]],
   forward_icmp |-> c.forward_icmp,
   hash_fields |-> hash_fields(c), alt_hash_fields |-> alt_hash_fields(c)]

glb_add_packet_route(s, t, c, fields) == s.rows[t][RowOf(t, glb_compute_hash(c, fields))]

glb_calculate_packet_route(s, t, c) ==
  glb_add_packet_route(s, t, c, s.hash_fields)
    \o (IF s.alt_hash_fields = {} THEN <<>>
        ELSE glb_add_packet_route(s, t, c, s.alt_hash_fields))

------------------------------------------------------------------------------
(* The Internet checksum, with words of CheckBits bits.                     *)

AllOnes == 2^CheckBits - 1
Complement(x) == AllOnes - x
Fold1(x) == (x % 2^CheckBits) + (x \div 2^CheckBits)
Fold(x) == Fold1(Fold1(x))

(* The word of next_hop and hop_count, as a little-endian host reads it. *)
HopWord(next_hop, hop_count) == next_hop + GLB_MAX_HOPS * hop_count

WordSum(g) ==
  g.saddr + g.daddr + HopWord(g.next_hop, g.hop_count) + payload
    + (IF g.hop_count >= 1 THEN g.hops[1] ELSE 0)
    + (IF g.hop_count >= 2 THEN g.hops[2] ELSE 0)
    + (IF g.hop_count >= 3 THEN g.hops[3] ELSE 0)

(* rte_ipv4_udptcp_cksum: a sum of zero is sent as all ones. *)
UdpChecksum(g) ==
  LET sum == Complement(Fold(WordSum(g))) IN IF sum = 0 THEN AllOnes ELSE sum

(* csum_replace2, csum_replace4 of the kernel. *)
csum_replace(check, from, to) ==
  Complement(Fold(Fold(Complement(check) + Complement(from)) + to))

Verifies(g) == g.check = 0 \/ Fold(WordSum(g) + g.check) = AllOnes

------------------------------------------------------------------------------
(* Encapsulation: the first hop is the destination, the others are listed.  *)

(* A mutant: hlen without the word of private data. *)
glb_encapsulate_packet_NoPrivate(route, c) ==
  [saddr |-> DirectorIP, daddr |-> Head(route), check |-> 0, hlen |-> Len(route) - 1,
   proto |-> c.gue_ipproto, next_hop |-> 0, hop_count |-> Len(route) - 1, hops |-> Tail(route)]

glb_encapsulate_packet(route, c) ==
  [saddr |-> DirectorIP, daddr |-> Head(route), check |-> 0, hlen |-> 1 + Len(route) - 1,
   proto |-> c.gue_ipproto, next_hop |-> 0, hop_count |-> Len(route) - 1, hops |-> Tail(route)]

(* The DPDK director fills in the UDP checksum, in software. *)
glb_checksum_offloading(g) == [g EXCEPT !.check = UdpChecksum(g)]

------------------------------------------------------------------------------
(* The DPDK director.  A packet of no table goes to the kernel's interface; *)
(* one that cannot be parsed, or has no headroom left, is freed.            *)

DpdkClassify ==
  /\ director = "dpdk" /\ stage = "arrived"
  /\ table' \in classify_to_tables(setting.binds, setting.forward_icmp, pkt)
  /\ stage' = IF table' = NoTable THEN "kernel" ELSE "classified"
  /\ UNCHANGED <<inputs, gue>>

DpdkEncapsulate ==
  /\ stage = "classified" /\ Parses(pkt)
  /\ LET c == glb_extract_packet_fields(pkt)
     IN gue' = glb_checksum_offloading(
                 glb_encapsulate_packet(glb_calculate_packet_route(setting, table, c), c))
  /\ stage' = "sent"
  /\ UNCHANGED <<inputs, table>>

DpdkFree ==
  /\ stage = "classified"
  /\ stage' = "freed"
  /\ UNCHANGED <<inputs, table, gue>>

(* The XDP program, one call for the packet, with a route and an            *)
(* encapsulation of its own.  The lookups of a table, its secret, its rows  *)
(* and the configuration words cannot fail once they are loaded.            *)
XdpRoute(s, t, c) ==
  LET Row(fields) == s.rows[t][RowOf(t, glb_compute_hash(c, fields))]
  IN IF s.alt_hash_fields = {} THEN Row(s.hash_fields)
     ELSE Row(s.hash_fields) \o Row(s.alt_hash_fields)

(* The UDP checksum is zero: none. *)
XdpEncapsulate(route, c) ==
  LET remaining_hop_count == Len(route) - 1
  IN [saddr |-> DirectorIP, daddr |-> route[1], check |-> 0, hlen |-> 1 + remaining_hop_count,
      proto |-> c.gue_ipproto, next_hop |-> 0, hop_count |-> remaining_hop_count,
      hops |-> SubSeq(route, 2, Len(route))]

XdpPass ==
  /\ director = "xdp" /\ stage = "arrived"
  /\ Parses(pkt) => XdpLookup(setting.binds, glb_extract_packet_fields(pkt)) = NoTable
  /\ stage' = "kernel"
  /\ UNCHANGED <<inputs, table, gue>>

XdpProcess ==
  /\ director = "xdp" /\ stage = "arrived" /\ Parses(pkt)
  /\ LET c == glb_extract_packet_fields(pkt)
     IN /\ table' = XdpLookup(setting.binds, c)
        /\ table' # NoTable
        /\ gue' = XdpEncapsulate(XdpRoute(setting, table', c), c)
  /\ stage' = "sent"
  /\ UNCHANGED inputs

(* bpf_xdp_adjust_head finds no space. *)
XdpDrop ==
  /\ director = "xdp" /\ stage = "arrived" /\ Parses(pkt)
  /\ XdpLookup(setting.binds, glb_extract_packet_fields(pkt)) # NoTable
  /\ stage' = "freed"
  /\ UNCHANGED <<inputs, table, gue>>

------------------------------------------------------------------------------
(* GLBREDIRECT at the proxy gue.daddr.                                      *)

Tuple(src, dst, sport, dport) == [src |-> src, dst |-> dst, sport |-> sport, dport |-> dport]

(* The connection of a packet: an ICMP error quotes the reverse direction. *)
Flow(p) ==
  IF p.proto = "icmp" THEN Tuple(p.inner.dst, p.inner.src, p.inner.dport, p.inner.sport)
  ELSE Tuple(p.src, p.dst, p.sport, p.dport)

(* What the handlers of the inner packet make of it: a tuple to look up, or *)
(* a verdict.  An error is about a packet of the return direction; it and   *)
(* TCP have a connection, UDP and other ICMP are for the first host.        *)
Verdict(v) == [verdict |-> v, tuple |-> Tuple(<<>>, <<>>, 0, 0)]
Lookup(t) == [verdict |-> "lookup", tuple |-> t]

fill_tcp_from_icmp(h) == Lookup(Tuple(h.dst, h.src, h.dport, h.sport))

glbredirect_handle_inner_ipv4(p) ==
  CASE p.proto = "tcp" -> Lookup(Tuple(p.src, p.dst, p.sport, p.dport))
    [] p.proto = "icmp" /\ p.icmp = Frag -> fill_tcp_from_icmp(p.inner)
    [] p.proto = "icmp" /\ p.icmp # Frag -> Verdict("continue")
    [] p.proto = "udp" -> Verdict("continue")
    [] OTHER -> Verdict("drop")

glbredirect_handle_inner_ipv6(p) ==
  CASE p.proto = "icmp" /\ p.icmp = Frag -> fill_tcp_from_icmp(p.inner)
    [] p.proto = "tcp" -> Lookup(Tuple(p.src, p.dst, p.sport, p.dport))
    [] p.proto = "udp" \/ (p.proto = "icmp" /\ p.icmp # Frag) -> Verdict("continue")
    [] OTHER -> Verdict("drop")

Inner(p) ==
  IF gue.proto = "ipip" THEN glbredirect_handle_inner_ipv4(p) ELSE glbredirect_handle_inner_ipv6(p)

(* An established socket; or for a pure ACK, a SYN cookie sent from here. *)
is_valid_locally(proxy) ==
  /\ proxy = owner /\ Inner(pkt).tuple = Flow(pkt)
  /\ knows = "socket" \/ pkt.flags = "ack"

ValidGue(g) ==
  /\ g.hlen >= 1 /\ g.hlen <= MAX_HOPS + 1
  /\ g.hlen = g.hop_count + 1
  /\ g.proto = (IF pkt.ether = "ipv4" THEN "ipip" ELSE "ipv6")

(* A hop is left, and it is another host: never forwarded to itself. *)
alt == gue.hops[gue.next_hop + 1]
HasAlternate == gue.next_hop < gue.hop_count /\ alt # gue.daddr

NeedsAlternate ==
  /\ ValidGue(gue) /\ Inner(pkt).verdict = "lookup" /\ pkt.flags # "syn"
  /\ ~is_valid_locally(gue.daddr) /\ HasAlternate

(* The target's verdict on the others: for the local stack, or dropped. *)
glbredirect_tg4 ==
  /\ stage = "sent" /\ ~NeedsAlternate
  /\ stage' = IF ValidGue(gue) /\ Inner(pkt).verdict # "drop" THEN "taken" ELSE "refused"
  /\ UNCHANGED <<inputs, table, gue>>

(* A mutant: the checksum is not told of the hop that was used up. *)
Forwarded_HopIgnored ==
  [gue EXCEPT
     !.check = IF gue.check = 0 THEN 0 ELSE csum_replace(gue.check, gue.saddr, alt),
     !.next_hop = @ + 1, !.saddr = gue.daddr, !.daddr = alt]

(* The old destination becomes the source; the checksum follows. *)
Forwarded ==
  [gue EXCEPT
     !.check = IF gue.check = 0 THEN 0
               ELSE csum_replace(csum_replace(gue.check, gue.next_hop, gue.next_hop + 1),
                                 gue.saddr, alt),
     !.next_hop = @ + 1, !.saddr = gue.daddr, !.daddr = alt]

ForwardToAlternate ==
  /\ stage = "sent" /\ NeedsAlternate
  /\ gue' = Forwarded
  /\ UNCHANGED <<inputs, stage, table>>

(* ip_route_me_harder finds no route to it. *)
NoRoute ==
  /\ stage = "sent" /\ NeedsAlternate
  /\ stage' = "freed"
  /\ UNCHANGED <<inputs, table, gue>>

------------------------------------------------------------------------------
(* The prefix match a bind of the source asks for, on the address as one    *)
(* number; without a length, the whole address.                             *)
AddressNumber(a) ==
  IF Len(a) = 1 THEN a[1]
  ELSE ((a[1] * 2^WordBits + a[2]) * 2^WordBits + a[3]) * 2^WordBits + a[4]

InSubnet(a, b) ==
  LET rest == 2^(Len(b.ip) * WordBits - b.cidr)
  IN IF b.cidr = Absent THEN a = b.ip ELSE AddressNumber(a) \div rest = AddressNumber(b.ip) \div rest

OnPort(port, b) ==
  IF b.port = Absent THEN b.port_start <= port /\ port <= b.port_end ELSE port = b.port

(* What a bind is for: its packets, pings if they are wanted, and messages  *)
(* that a packet from its ports, of whichever protocol, was too big.        *)
Covers(b, p, forward_icmp) ==
  /\ p.ether = b.family /\ InSubnet(p.dst, b)
  /\ CASE p.icmp = NotICMP -> p.proto = b.proto /\ OnPort(p.dport, b)
       [] p.icmp = Frag -> InSubnet(p.inner.src, b) /\ OnPort(p.inner.sport, b)
       [] p.icmp = Echo -> forward_icmp
       [] OTHER -> FALSE

Covering(s, p) ==
  {t \in DOMAIN s.tables :
     \E i \in DOMAIN s.tables[t].binds : Covers(s.tables[t].binds[i], p, s.forward_icmp)}

DataPacket(p) ==
  LET f == Flow(p)
  IN [p EXCEPT !.proto = "tcp", !.icmp = NotICMP, !.src = f.src, !.dst = f.dst,
               !.sport = f.sport, !.dport = f.dport]

IsTcp(p) == p.proto = "tcp" \/ (p.proto = "icmp" /\ p.icmp = Frag /\ p.inner.proto = "tcp")

(* The proxies that may have accepted the packet's connection. *)
MayOwn(s, p) ==
  IF ~IsTcp(p) \/ ~p.whole THEN {}
  ELSE LET d == DataPacket(p)
           c == glb_extract_packet_fields(d)
       IN Proxies \cap UNION {Range(glb_calculate_packet_route(s, t, c)) : t \in Covering(s, d)}

Init ==
  /\ director \in {"dpdk", "xdp"}
  /\ \E c \in Settings :
       /\ BuildSucceeds(c.tables) /\ check_config(c.tables) /\ ConfigAccepted(director, c)
       /\ setting \in {Loaded(c, unset) : unset \in [1 .. 2 -> 1 .. MaxBackends]}
  /\ director = "xdp" => ReloadForwardingTableSucceeds(setting.binds)
  /\ pkt \in Packets
  /\ owner \in MayOwn(setting, pkt) \cup {NoProxy}
  /\ knows \in IF owner = NoProxy THEN {"nothing"} ELSE {"socket", "cookie"}
  /\ payload \in Payloads
  /\ stage = "arrived" /\ table = NoTable /\ gue = NoGue

Next ==
  \/ DpdkClassify \/ DpdkEncapsulate \/ DpdkFree
  \/ XdpPass \/ XdpProcess \/ XdpDrop
  \/ glbredirect_tg4 \/ ForwardToAlternate \/ NoRoute

Spec == Init /\ [][Next]_vars

------------------------------------------------------------------------------
(* The ACL rules compiled from the binds, with IPv6 prefixes cut into four  *)
(* masks, accept the packets the binds are for and no others: the DPDK      *)
(* director encapsulates for a table with a bind that covers the packet,    *)
(* and leaves to the kernel what no bind covers.                            *)
ClassifierExact ==
  director = "dpdk" /\ pkt.whole =>
    /\ table # NoTable => table \in Covering(setting, pkt)
    /\ stage = "kernel" => Covering(setting, pkt) = {}

(* Packets that the directors treat alike when binds are single addresses   *)
(* (the XDP director ignores ip_bits, and whether pings are forwarded).  A  *)
(* quoted echo reply has zeros where its source port would be: the XDP      *)
(* director takes it for a ping, the DPDK director for a port.              *)
Common(p) ==
  /\ Parses(p)
  /\ \/ p.proto \in {"tcp", "udp"}
     \/ p.proto = "icmp" /\ p.icmp = Frag /\ p.dst = p.inner.src /\ p.inner.proto # "icmp"
     \/ p.proto = "icmp" /\ p.icmp = Echo /\ setting.forward_icmp

HostBinds(s) == \A b \in s.binds : b.ip_bits = Len(b.ip) * WordBits

(* With binds of single addresses, a fleet may mix the two directors: what  *)
(* the XDP director encapsulates for a table, the DPDK director may too,    *)
(* with the same header but for the checksum; and what it leaves to the     *)
(* kernel, the DPDK director does (but for errors that quote another        *)
(* protocol than the bind's).                                               *)
DirectorsAgree ==
  director = "xdp" /\ HostBinds(setting) /\ Common(pkt) =>
    LET found == classify_to_tables(setting.binds, setting.forward_icmp, pkt)
        c == glb_extract_packet_fields(pkt)
    IN /\ table # NoTable => table \in found
       /\ stage = "sent" /\ gue.next_hop = 0 =>
            gue = glb_encapsulate_packet(glb_calculate_packet_route(setting, table, c), c)
       /\ stage = "kernel" /\ pkt.icmp # Frag => found = {NoTable}

(* A proxy's packet for the connection it knows, as GLBREDIRECT can tell;   *)
(* an error goes to the host whose packet it quotes.                        *)
Recognisable ==
  /\ owner # NoProxy /\ IsTcp(pkt) /\ (knows = "socket" \/ pkt.flags = "ack")
  /\ pkt.icmp = Frag => pkt.dst = pkt.inner.src

Unambiguous == Cardinality(Covering(setting, pkt)) <= 1

(* No hop but the last may be followed by itself: a proxy keeps what it     *)
(* would forward to itself.                                                 *)
Spaced(route) == \A k \in 1 .. Len(route) - 2 : route[k] # route[k + 1]

(* Second chance, on the bytes: a packet of a connection, and a message     *)
(* that one of the connection's packets was too big, end at the proxy that  *)
(* has the connection.  Parsing, hashing and the proxies' lookup must swap  *)
(* the quoted addresses and ports alike, whichever director was in between. *)
FlowReachesOwner ==
  /\ stage = "taken" /\ Recognisable /\ Unambiguous /\ pkt.flags # "syn"
  /\ Spaced(glb_calculate_packet_route(setting, table, glb_extract_packet_fields(pkt)))
  => gue.daddr = owner

(* No packet a director encapsulates is refused by the header checks of the *)
(* redirect target: lengths, hop counts and protocols fit together.         *)
RedirectAccepts == stage # "refused"

(* The row by the rules of ForwardingTable, which SecondChance rests on. *)
Specified(P, R, H) == INSTANCE ForwardingTable WITH Proxies <- P, Rows <- R, Hash <- H

SpecifiedHops(t, row) ==
  LET backends == Range(t.backends)
      Of(p) == CHOOSE b \in backends : b.ip = p
      ips == {b.ip : b \in backends}
      hash == [r \in {row} |-> [p \in ips |-> Seeded(r, p)]]
  IN Specified(ips, {row}, hash)!Entry(row, [p \in ips |-> Of(p).state],
                                       [p \in ips |-> IF Of(p).healthy THEN "up" ELSE "down"])

(* End to end, from the source to the wire: the hops of a packet are the    *)
(* first two available backends of its row, in the order their states and   *)
(* health ask for, although the builder works all tables out in one array   *)
(* and the directors go by index.  Tables with fewer than two available     *)
(* backends are left out: their rows name whatever the array still holds.   *)
HopsSpecified ==
  stage = "sent" /\ gue.next_hop = 0 =>
    LET t == setting.tables[table]
        row == RowOf(table, glb_compute_hash(glb_extract_packet_fields(pkt), setting.hash_fields))
    IN Cardinality({b \in Range(t.backends) : b.state # "inactive"}) >= 2 =>
         <<gue.daddr, gue.hops[1]>> = SpecifiedHops(t, row)

(* The checksum the director computed stays right at every hop, although    *)
(* each one changes the addresses and the hop index under it.               *)
ChecksumKept == stage = "sent" => Verifies(gue)

=============================================================================
