---------------------------- MODULE BindClassifier ----------------------------
(***************************************************************************)
(* Which forwarding table a packet belongs to.  The DPDK director compiles *)
(* the binds of all tables into two rte_acl classifiers (bind_classifier.c *)
(* and bind_classifier_rules.h), the XDP director expands them into an     *)
(* exact-match map (glb-director-xdp/main.go).                             *)
(*                                                                         *)
(* An address is a sequence of words, one for IPv4 and four for IPv6; the  *)
(* code's words have 32 bits.  A bind is [family, ip, ip_bits, proto,      *)
(* port_start, port_end, table].                                           *)
(***************************************************************************)
EXTENDS PacketParsing, FiniteSetsExt

CONSTANTS
  WordBits,   \* bits of an address word (32 in the code)
  MaxPort,    \* the largest port (65535 in the code)
  MaxBinds    \* entries of the XDP bind map (MAX_BINDS)

ASSUME BindClassifierConstants ==
  /\ WordBits \in Nat \ {0}
  /\ MaxPort \in Nat /\ MaxBinds \in Nat \ {0}

(* The law of exponents up to the bits of an address, which the provers do  *)
(* not know.                                                                *)
ASSUME PowersOfTwo ==
  \A m, n \in 0 .. 4 * WordBits : 2^m \in Nat \ {0} /\ 2^(m + n) = 2^m * 2^n

NoTable == 0

------------------------------------------------------------------------------
(* The DPDK classifier: rules over the fixed fields of the packet.          *)

(* A mutant: a prefix longer than this word is reduced to the word as well. *)
ipv6_cidr_offset_LowBits(ip_bits, offset) ==
  IF ip_bits < offset * WordBits THEN 0 ELSE ip_bits % WordBits

ipv6_cidr_offset(ip_bits, offset) ==
  IF ip_bits >= (offset + 1) * WordBits THEN WordBits
  ELSE IF ip_bits < offset * WordBits THEN 0
  ELSE ip_bits % WordBits

(* The mask of each word of the bind's address. *)
Masks(b) ==
  IF b.family = "ipv4" THEN <<b.ip_bits>>
  ELSE [w \in 1 .. 4 |-> ipv6_cidr_offset(b.ip_bits, w - 1)]

AnyPort == 0 .. MaxPort
BindPorts(b) == b.port_start .. b.port_end

(* A rule constrains the protocol, ICMP type, destination, destination port *)
(* and, in the quoted header, source and source port.                       *)
Rule(b, proto, icmp, ports, quoted, quotedPorts) ==
  [family |-> b.family, proto |-> proto, icmp |-> icmp, ip |-> b.ip, masks |-> Masks(b),
   ports |-> ports, quoted |-> quoted, quotedPorts |-> quotedPorts, table |-> b.table]

add_acl_typical_bind_packet(b) == Rule(b, b.proto, NotICMP, BindPorts(b), FALSE, AnyPort)

add_acl_return_icmp_fragmentation(b) == Rule(b, "icmp", Frag, AnyPort, TRUE, BindPorts(b))

add_acl_icmp_echo_request(b) == Rule(b, "icmp", Echo, AnyPort, FALSE, AnyPort)

add_acls_for_bind(b, forward_icmp_ping_responses) ==
  {add_acl_typical_bind_packet(b), add_acl_return_icmp_fragmentation(b)}
    \cup (IF forward_icmp_ping_responses THEN {add_acl_icmp_echo_request(b)} ELSE {})

(* The rules of a family; a family without binds has no classifier. *)
create_bind_classifier(binds, forward_icmp_ping_responses, family) ==
  UNION {add_acls_for_bind(b, forward_icmp_ping_responses) : b \in {x \in binds : x.family = family}}

(* rte_acl: a mask field compares the leading bits. *)
MaskMatch(addr, ip, masks) ==
  \A w \in DOMAIN ip :
    addr[w] \div 2^(WordBits - masks[w]) = ip[w] \div 2^(WordBits - masks[w])

RuleMatch(r, p) ==
  /\ p.proto = r.proto /\ p.icmp = r.icmp
  /\ MaskMatch(p.dst, r.ip, r.masks)
  /\ p.proto # "icmp" => p.dport \in r.ports
  /\ r.quoted => MaskMatch(p.inner.src, r.ip, r.masks) /\ p.inner.sport \in r.quotedPorts

(* The tables that classification may give.  All rules have one priority,   *)
(* so any matching rule may win.  The classifiers read past the end of a    *)
(* packet that is cut short: any rule of its family may match there.        *)
classify_to_tables(binds, forward_icmp_ping_responses, p) ==
  LET rules == create_bind_classifier(binds, forward_icmp_ping_responses, p.ether)
      matching == {r.table : r \in {x \in rules : RuleMatch(x, p)}}
  IN CASE p.ether \notin Families -> {NoTable}
       [] p.ether \in Families /\ ~p.whole -> {NoTable} \cup {r.table : r \in rules}
       [] p.ether \in Families /\ p.whole /\ matching = {} -> {NoTable}
       [] OTHER -> matching

------------------------------------------------------------------------------
(* The XDP director: one map entry for each port, and one for ICMP.         *)

(* The port counter has sixteen bits: with port_end at their largest value  *)
(* the loop goes on until the map's limit ends the program.                 *)
Endless(b) == b.port_start <= b.port_end /\ b.port_end = MaxPort

EntriesOf(b) == Cardinality(BindPorts(b)) + 1

TotalBinds(binds) == MapThenSumSet(EntriesOf, binds)

ReloadForwardingTableSucceeds(binds) ==
  (\A b \in binds : ~Endless(b)) /\ TotalBinds(binds) <= MaxBinds

(* A mutant: only the first port of a range is entered (_get_bind_port). *)
BindKeys_FirstPort(b) ==
  {[family |-> b.family, ip |-> b.ip, proto |-> b.proto, port |-> b.port_start],
   [family |-> b.family, ip |-> b.ip, proto |-> "icmp", port |-> 0]}

BindKeys(b) ==
  {[family |-> b.family, ip |-> b.ip, proto |-> b.proto, port |-> port] : port \in BindPorts(b)}
    \cup {[family |-> b.family, ip |-> b.ip, proto |-> "icmp", port |-> 0]}

(* Tables are entered in order: of equal keys the last table's stays. *)
GlbBinds(binds, key) ==
  LET tables == {b.table : b \in {x \in binds : key \in BindKeys(x)}}
  IN IF tables = {} THEN NoTable ELSE Max(tables)

XdpLookup(binds, c) ==
  GlbBinds(binds, [family |-> c.ether_type, ip |-> c.dst_addr,
                   proto |-> c.original_ipproto, port |-> c.dst_port])

=============================================================================
