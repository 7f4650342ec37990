---------------------------- MODULE MCPacketPath ----------------------------
(* Instances of PacketPath for TLC: words of two bits, ports 0 to 3.  The   *)
(* destinations are a bind's address and the addresses one bit away from    *)
(* it, so that every prefix length separates some of them.                  *)
EXTENDS PacketPath

Host4 == <<2>>
Host6 == <<1, 2, 3, 1>>
Client4 == <<0>>
Client6 == <<3, 0, 0, 2>>

Flip(w, bit) == IF (w \div 2^bit) % 2 = 1 THEN w - 2^bit ELSE w + 2^bit
Near(a) == {a} \cup {[a EXCEPT ![w] = Flip(@, bit)] : w \in DOMAIN a, bit \in 0 .. WordBits - 1}

Header(proto, src, dst, sport, dport) ==
  [proto |-> proto, src |-> src, dst |-> dst, sport |-> sport, dport |-> dport]

Packet(ether, h, icmp, flags, inner) ==
  [ether |-> ether, proto |-> h.proto, src |-> h.src, dst |-> h.dst, sport |-> h.sport,
   dport |-> h.dport, icmp |-> icmp, flags |-> flags, inner |-> inner, whole |-> TRUE]

Tcp(ether, client, dst, sport, dport, flags) ==
  LET h == Header("tcp", client, dst, sport, dport) IN Packet(ether, h, NotICMP, flags, h)
Udp(ether, client, dst, sport, dport) ==
  LET h == Header("udp", client, dst, sport, dport) IN Packet(ether, h, NotICMP, "none", h)
(* A message from a router about what the proxy at dst sent to the client. *)
About(ether, icmp, proto, client, dst, sport, dport) ==
  Packet(ether, Header("icmp", <<1>> \o Tail(client), dst, 0, 0), icmp, "none",
         Header(proto, dst, client, dport, sport))
Ping(ether, icmp, client, dst) ==
  LET h == Header("icmp", client, dst, 0, 0) IN Packet(ether, h, icmp, "none", h)

PacketsOf(ether, client, host) ==
  {Tcp(ether, client, host, s, 2, f) : s \in {1, 2}, f \in {"syn", "ack", "data"}}
    \cup {Tcp(ether, client, d, 1, p, "data") : d \in Near(host), p \in {1, 3}}
    \cup {Udp(ether, client, d, 1, p) : d \in {host}, p \in {2, 3}}
    \cup {About(ether, Frag, proto, client, d, s, p) :
            proto \in {"tcp", "udp"}, d \in Near(host), s \in {1, 2}, p \in {2, 3}}
    \cup {About(ether, Unreachable, "tcp", client, host, 1, 2),
           About(ether, Frag, "icmp", client, host, 0, 0)}
    \cup {Ping(ether, i, client, host) : i \in {Echo, OtherICMP}}

MCPackets ==
  PacketsOf("ipv4", Client4, Host4) \cup PacketsOf("ipv6", Client6, Host6)
    \cup {[Tcp("ipv4", Client4, Host4, 1, 2, "data") EXCEPT !.whole = FALSE],
          [Tcp("ipv4", Client4, Host4, 1, 2, "data") EXCEPT !.ether = "arp"],
          [Tcp("ipv4", Client4, Host4, 1, 2, "data") EXCEPT !.proto = "sctp"]}

(* A port range, or one port when it begins and ends with the same. *)
Bind(family, ip, cidr, proto, first, last) ==
  [family |-> family, ip |-> ip, cidr |-> cidr, proto |-> proto,
   port |-> IF first = last THEN first ELSE Absent, port_start |-> first, port_end |-> last]

Backend(ip, state, healthy) == [ip |-> ip, state |-> state, healthy |-> healthy]
AllActive == [i \in 1 .. 5 |-> Backend(i, "active", TRUE)]
Table(backends, binds) == [backends |-> backends, binds |-> binds]
Setting(tables, forward, fields, altFields) ==
  [tables |-> tables, forward_icmp |-> forward, hash_fields |-> fields, alt_hash_fields |-> altFields]

BySource == <<{"src_addr"}>>
Tcp4 == Bind("ipv4", Host4, Absent, "tcp", 1, 2)
Udp4 == Bind("ipv4", Host4, Absent, "udp", 2, 2)
Tcp6 == Bind("ipv6", Host6, Absent, "tcp", 1, 2)

(* Every prefix length, and one too long; hosts of both families and        *)
(* protocols with every choice of hash fields; tables that overlap; a range *)
(* up to the last port, and one past it.                                    *)
Subnets ==
  {Setting(<<Table(AllActive, <<Bind("ipv6", Host6, bits, "tcp", 1, 2)>>)>>, TRUE, BySource, <<>>) :
     bits \in 0 .. 4 * WordBits + 1}
    \cup {Setting(<<Table(AllActive, <<Bind("ipv4", Host4, bits, "tcp", 1, 2)>>)>>, FALSE, BySource, <<>>) :
            bits \in 0 .. WordBits + 1}

Hosts(backends, fields, altFields) ==
  Setting(<<Table(AllActive, <<Tcp4, Tcp6>>), Table(backends, <<Udp4>>)>>, TRUE, fields, altFields)

Overlapping ==
  {Setting(<<Table(AllActive, <<Bind("ipv4", Host4, bits, "tcp", 1, last)>>),
             Table(AllActive, <<Bind("ipv4", Host4, Absent, "tcp", 2, 2)>>)>>,
           TRUE, <<{"src_addr", "src_port"}>>, <<>>) : bits \in {1, Absent}, last \in {2, 3, MaxPort + 1}}

Hashed ==
  {Hosts(AllActive, fields, altFields) :
     fields \in {<<f>> : f \in SUBSET HashFields} \cup {<<>>},
     altFields \in {<<>>, <<{}>>, <<{"src_addr", "dst_port"}>>}}

(* Two tables whose backends differ in number, state and health; one with   *)
(* too many backends, with none, with a state that is none.                 *)
Backends ==
  {<<Backend(4, s, h), Backend(2, "active", TRUE), Backend(1, z, TRUE)>> :
     s \in {"active", "draining", "filling", "inactive"}, h \in BOOLEAN, z \in {"active", "inactive", "filling"}}
    \cup {<<Backend(3, "active", TRUE)>>, <<Backend(3, "inactive", TRUE), Backend(1, "inactive", TRUE)>>,
          <<Backend(3, "spare", TRUE), Backend(1, "active", TRUE)>>, <<>>,
          [i \in 1 .. MaxBackends + 1 |-> Backend(1 + (i % 5), "active", TRUE)]}
Mixed ==
  {Setting(<<Table(b, <<Tcp4>>), Table(AllActive, <<Udp4>>)>>, TRUE, BySource, <<>>) : b \in Backends}
    \cup {Hosts(b, BySource, <<>>) : b \in Backends}

MCSettings == Subnets \cup Overlapping \cup Hashed \cup Mixed

(* Rows: the sum of the hashed fields picks one; with all backends active,  *)
(* no row's secondary is the primary of another.                            *)
Score(h) == LET V(f) == IF f \in DOMAIN h THEN (IF f \in {"src_addr", "dst_addr"} THEN h[f][1] + h[f][Len(h[f])]
                                                ELSE 2 * h[f]) ELSE 0
            IN V("src_addr") + V("dst_addr") + V("src_port") + V("dst_port")
MCRowOf(t, h) == (Score(h) + t) % Rows
MCSeeded(row, ip) == IF ip = 1 + (row % 3) THEN 0 ELSE IF ip = 4 + (row % 2) THEN 1 ELSE 1 + ip

=============================================================================
