---------------------------- MODULE PacketParsing ----------------------------
(***************************************************************************)
(* What the directors read from a packet (glb-hashing/packet_parsing.h,    *)
(* shared by the DPDK and the XDP director): the addresses, ports and      *)
(* protocol that choose its bind, its table row and its encapsulation.     *)
(* A packet is what the headers up to the first two ports of the layer     *)
(* four header say, and of an ICMP error also the headers it quotes.       *)
(* Headers have no IP options, as the fixed offsets of the parser assume.  *)
(***************************************************************************)
EXTENDS Naturals, Sequences

Families == {"ipv4", "ipv6"}

(* The ICMP types the code tells apart.  Frag: fragmentation needed (3,4),  *)
(* of ICMPv6 packet too big (2,0).  Unreachable: (3, any other code), which *)
(* ICMPv6 has among its other types.                                        *)
Frag == "frag"
Unreachable == "unreachable"
Echo == "echo"
OtherICMP == "other"
NotICMP == "none"

(* Packet [ether, proto, src, dst, sport, dport, icmp, flags, inner, whole]:*)
(* inner is the quoted header of an ICMP error, [proto, src, dst, sport,    *)
(* dport]; whole is FALSE when the packet ends before those headers do.     *)

RouteContext(p, proto, src, dst, sport, dport, gue) ==
  [ether_type |-> p.ether, original_ipproto |-> proto, src_addr |-> src, dst_addr |-> dst,
   src_port |-> sport, dst_port |-> dport, gue_ipproto |-> gue]

Plain(p, gue) == RouteContext(p, p.proto, p.src, p.dst, p.sport, p.dport, gue)

(* A mutant: the quoted ports are left in the order of the proxy's packet. *)
Quoted_PortsKept(p, gue) ==
  RouteContext(p, p.inner.proto, p.inner.dst, p.inner.src, p.inner.sport, p.inner.dport, gue)

(* An error quotes a packet a proxy sent: both address and port reversed. *)
Quoted(p, gue) ==
  RouteContext(p, p.inner.proto, p.inner.dst, p.inner.src, p.inner.dport, p.inner.sport, gue)

Portless(p, gue) == RouteContext(p, p.proto, p.src, p.dst, 0, 0, gue)

extract_packet_fields_ipv4(p) ==
  CASE p.proto = "icmp" /\ p.icmp \in {Frag, Unreachable} -> Quoted(p, "ipip")
    [] p.proto = "icmp" /\ p.icmp \notin {Frag, Unreachable} -> Portless(p, "ipip")
    [] OTHER -> Plain(p, "ipip")

extract_packet_fields_ipv6(p) ==
  CASE p.proto = "icmp" /\ p.icmp = Frag -> Quoted(p, "ipv6")
    [] p.proto = "icmp" /\ p.icmp # Frag -> Portless(p, "ipv6")
    [] OTHER -> Plain(p, "ipv6")

Parses(p) == p.ether \in Families /\ p.whole

glb_extract_packet_fields(p) ==
  IF p.ether = "ipv4" THEN extract_packet_fields_ipv4(p) ELSE extract_packet_fields_ipv6(p)

(* siphash is taken as a function of the fields the configuration selects. *)
HashFields == {"src_addr", "dst_addr", "src_port", "dst_port"}

glb_compute_hash(context, fields) == [f \in fields |-> context[f]]

=============================================================================
