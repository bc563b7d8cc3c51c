------------------------------- MODULE Packets -------------------------------
(***************************************************************************)
(* The packets of the network stack: Ethernet, ARP, IPv4, ICMP echo, UDP,  *)
(* TCP and DHCP, with their checksums.  Addresses and payloads are         *)
(* sequences of bytes.  The room in the output buffer is left out.         *)
(***************************************************************************)
EXTENDS Wire

Octets(o, s) == {<<o + i - 1, s[i]>> : i \in DOMAIN s}
OctetsAt(f, o, n) == [i \in 1..n |-> ByteAt(f, o + i - 1)]
Tail0(f, o) == OctetsAt(f, o, f.size - o)

Short == 65535     \* the largest length that a 16-bit field holds

\* The sum of the 16-bit words of the first n bytes; an odd one is padded.
partial(f, n) == Sum([i \in 1..n |-> ByteAt(f, i - 1) * (IF i % 2 = 1 THEN 256 ELSE 1)])
Folded(sum) == LET once == (sum % 65536) + sum \div 65536 IN (once % 65536) + once \div 65536
checksum(f, n) == 65535 - Folded(partial(f, n))
checksum_valid(f, n) == checksum(f, n) = 0

\* A frame whose checksum at offset o covers its first n bytes.
Summed(f, o, n) == [f EXCEPT !.bytes = @ \union {b \in BE(o, 2, checksum(f, n)) : b[2] # 0}]

-----------------------------------------------------------------------------
(* Ethernet and ARP *)

ETHERNET_HEADER_LEN == 14
ETHERTYPE_IPV4 == 2048
ETHERTYPE_ARP == 2054
BROADCAST_MAC == [i \in 1..6 |-> 255]
valid_unicast_mac(mac) == mac # [i \in 1..6 |-> 0] /\ mac # BROADCAST_MAC /\ mac[1] % 2 = 0

Mine == <<2, 0, 0, 0, 0, 1>>
Payloads == {<<>>, <<7>>, <<0, 255, 1>>}

\* The encoder leaves the source to its caller, who has an address of a device.
EthernetHeader ==
  [destination : {BROADCAST_MAC, Mine}, source : {Mine}, ethertype : {ETHERTYPE_IPV4, ETHERTYPE_ARP}, payload : Payloads]
EthernetHeader_encode(v) ==
  {Frame(ETHERNET_HEADER_LEN + Len(v.payload),
         {Octets(0, v.destination), Octets(6, v.source), BE(12, 2, v.ethertype), Octets(14, v.payload)}, {})}
EthernetHeader_decode(f) ==
  When(f.size >= ETHERNET_HEADER_LEN /\ valid_unicast_mac(OctetsAt(f, 6, 6)),
       [destination |-> OctetsAt(f, 0, 6), source |-> OctetsAt(f, 6, 6), ethertype |-> BigNum(f, 12, 2),
        payload |-> Tail0(f, ETHERNET_HEADER_LEN)])

ARP_LEN == 28
ARP_REQUEST == 1
ARP_REPLY == 2
ArpPacket ==
  [operation : {ARP_REQUEST, ARP_REPLY, 3}, sender_mac : {Mine, BROADCAST_MAC, <<1, 0, 0, 0, 0, 1>>},
   sender_ip : {<<10, 0, 2, 15>>}, target_mac : {[i \in 1..6 |-> 0]}, target_ip : {<<10, 0, 2, 2>>}]
ArpPacket_encode(v) ==
  When(v.operation \in {ARP_REQUEST, ARP_REPLY} /\ valid_unicast_mac(v.sender_mac),
       Frame(ARP_LEN,
             {BE(0, 2, 1), BE(2, 2, ETHERTYPE_IPV4), U8(4, 6), U8(5, 4), BE(6, 2, v.operation), Octets(8, v.sender_mac),
              Octets(14, v.sender_ip), Octets(18, v.target_mac), Octets(24, v.target_ip)}, {}))
ArpPacket_decode(f) ==
  When(/\ f.size >= ARP_LEN
       /\ BigNum(f, 0, 2) = 1 /\ BigNum(f, 2, 2) = ETHERTYPE_IPV4 /\ u8(f, 4) = 6 /\ u8(f, 5) = 4
       /\ BigNum(f, 6, 2) \in {ARP_REQUEST, ARP_REPLY} /\ valid_unicast_mac(OctetsAt(f, 8, 6)),
       [operation |-> BigNum(f, 6, 2), sender_mac |-> OctetsAt(f, 8, 6), sender_ip |-> OctetsAt(f, 14, 4),
        target_mac |-> OctetsAt(f, 18, 6), target_ip |-> OctetsAt(f, 24, 4)])

-----------------------------------------------------------------------------
(* IPv4 and ICMP echo *)

IPV4_HEADER_LEN == 20
From == <<10, 0, 2, 15>>
To == <<10, 0, 2, 2>>

\* The encoder leaves a time to live of 0 to its caller.
Ipv4Header ==
  [source : {From}, destination : {To}, protocol : {1, 17}, ttl : {1, 64}, identification : {0, 258}, payload : Payloads]
Ipv4Header_encode(v) ==
  LET total == IPV4_HEADER_LEN + Len(v.payload)
      header == Frame(IPV4_HEADER_LEN,
                      {U8(0, 69), BE(2, 2, total), BE(4, 2, v.identification), BE(6, 2, 16384), U8(8, v.ttl),
                       U8(9, v.protocol), Octets(12, v.source), Octets(16, v.destination)}, {}) IN
  When(total <= Short,
       Frame(total, {Summed(header, 10, IPV4_HEADER_LEN).bytes, Octets(IPV4_HEADER_LEN, v.payload)}, {}))
\* More fragments, or an offset, are refused; "do not fragment" may be set.
Ipv4Header_decode(f) ==
  LET total == BigNum(f, 2, 2) IN
  When(/\ f.size >= IPV4_HEADER_LEN /\ u8(f, 0) = 69 /\ total \in IPV4_HEADER_LEN..f.size
       /\ BigNum(f, 6, 2) % 16384 = 0 /\ u8(f, 8) # 0 /\ checksum_valid(f, IPV4_HEADER_LEN),
       [source |-> OctetsAt(f, 12, 4), destination |-> OctetsAt(f, 16, 4), protocol |-> u8(f, 9), ttl |-> u8(f, 8),
        identification |-> BigNum(f, 4, 2), payload |-> OctetsAt(f, IPV4_HEADER_LEN, total - IPV4_HEADER_LEN)])

EchoPacket == [reply : BOOLEAN, identifier : {0, 65535}, sequence : {1, 256}, payload : Payloads]
EchoPacket_encode(v) ==
  LET size == 8 + Len(v.payload) IN
  {Summed(Frame(size, {U8(0, IF v.reply THEN 0 ELSE 8), BE(4, 2, v.identifier), BE(6, 2, v.sequence), Octets(8, v.payload)},
                {}), 2, size)}
EchoPacket_decode(f) ==
  When(f.size >= 8 /\ u8(f, 0) \in {0, 8} /\ u8(f, 1) = 0 /\ checksum_valid(f, f.size),
       [reply |-> u8(f, 0) = 0, identifier |-> BigNum(f, 4, 2), sequence |-> BigNum(f, 6, 2), payload |-> Tail0(f, 8)])

-----------------------------------------------------------------------------
(* UDP and TCP, between From and To *)

\* The sum over the addresses, the protocol and the length.
Pseudo(protocol, length) == partial(Frame(12, {Octets(0, From), Octets(4, To), U8(9, protocol), BE(10, 2, length)}, {}), 12)

UdpDatagram == [source_port : {68, 49152}, destination_port : {67}, payload : Payloads \union {<<231, 66>>}]
\* A checksum of 0 is sent as its other form: 0 means that there is none.
UdpDatagram_encode(v) ==
  LET size == 8 + Len(v.payload)
      f == Frame(size, {BE(0, 2, v.source_port), BE(2, 2, v.destination_port), BE(4, 2, size), Octets(8, v.payload)}, {})
      c == 65535 - Folded(Pseudo(17, size) + partial(f, size)) IN
  When(size <= Short, Frame(size, {f.bytes, BE(6, 2, IF c = 0 THEN 65535 ELSE c)}, {}))
checksum_parts_valid(protocol, f, length) == Folded(Pseudo(protocol, length) + partial(f, length)) = 65535
UdpDatagram_decode(f) ==
  LET length == BigNum(f, 4, 2) IN
  When(/\ f.size >= 8 /\ length \in 8..f.size
       /\ BigNum(f, 6, 2) # 0 => checksum_parts_valid(17, f, length),
       [source_port |-> BigNum(f, 0, 2), destination_port |-> BigNum(f, 2, 2), payload |-> OctetsAt(f, 8, length - 8)])

TCP_PROTOCOL == 6
TCP_HEADER_LEN == 20
\* FIN, SYN, RST, PSH and ACK.
TCP_SUPPORTED_FLAGS == 31
\* The maximum segment size is a set: it is there or not.
TcpSegment ==
  Vary([source_port |-> 49152, destination_port |-> 80, sequence |-> 65536, acknowledgment |-> 255, flags |-> 16, window |-> 512,
        options |-> {}, payload |-> <<7>>],
       [flags |-> {0, 2, 31, 32, 256}, options |-> {{}, {1460}, {0}}, payload |-> Payloads, sequence |-> {0, 16777215}])
tcp_checksum(f) == 65535 - Folded(Pseudo(TCP_PROTOCOL, f.size) + partial(f, f.size))
TcpSegment_encode(v) ==
  LET header == TCP_HEADER_LEN + (IF v.options = {} THEN 0 ELSE 4)
      size == header + Len(v.payload)
      f == Frame(size,
                 {BE(0, 2, v.source_port), BE(2, 2, v.destination_port), BE(4, 4, v.sequence), BE(8, 4, v.acknowledgment),
                  U8(12, (header \div 4) * 16), U8(13, v.flags), BE(14, 2, v.window), Octets(header, v.payload)}
                 \union UNION {{U8(20, 2), U8(21, 4), BE(22, 2, mss)} : mss \in v.options}, {}) IN
  When(Within(v.flags, TCP_SUPPORTED_FLAGS) /\ size <= Short,
       Frame(size, {f.bytes, BE(16, 2, tcp_checksum(f))}, {}))

\* The options between TCP_HEADER_LEN and `end`: the maximum segment sizes
\* among them in order, or -1 where they are malformed.
parse_options(f, end) ==
  LET at[o \in Nat] ==
        LET length == u8(f, o + 1) IN
        CASE o >= end \/ u8(f, o) = 0 -> <<>>
          [] u8(f, o) = 1 -> at[o + 1]
          [] o + 1 >= end \/ length < 2 \/ o + length > end \/ (u8(f, o) = 2 /\ length # 4) -> <<-1>>
          [] u8(f, o) = 2 -> <<BigNum(f, o + 2, 2)>> \o at[o + length]
          [] OTHER -> at[o + length] IN
  at[TCP_HEADER_LEN]
TcpSegment_decode(f) ==
  LET words == u8(f, 12) \div 16
      sizes == parse_options(f, 4 * words)
      flags == u8(f, 13) + 256 * (u8(f, 12) % 2) IN
  When(/\ f.size \in TCP_HEADER_LEN..Short /\ words \in 5..15 /\ 4 * words <= f.size
       /\ checksum_parts_valid(TCP_PROTOCOL, f, f.size)
       /\ Within(flags, TCP_SUPPORTED_FLAGS) /\ Zero(f, 18, 2)
       /\ \A i \in DOMAIN sizes : sizes[i] # -1,
       [source_port |-> BigNum(f, 0, 2), destination_port |-> BigNum(f, 2, 2), sequence |-> BigNum(f, 4, 4),
        acknowledgment |-> BigNum(f, 8, 4), flags |-> flags, window |-> BigNum(f, 14, 2),
        options |-> IF sizes = <<>> THEN {} ELSE {sizes[Len(sizes)]}, payload |-> Tail0(f, 4 * words)])

-----------------------------------------------------------------------------
(* DHCP: a request, the answer of a server, and what the client reads *)

DHCP_FIXED_LEN == 240
Discover == 1
Offer == 2
Request == 3
Ack == 5
Nak == 6
Xid == 7
COOKIE == <<99, 130, 83, 99>>
Unset == <<0, 0, 0, 0>>

Option(o, code, body) == Octets(o, <<code, Len(body)>> \o body)
\* Options one after the other from offset o, and where they end.
Options(o, options) ==
  LET sizes == [i \in DOMAIN options |-> 2 + Len(options[i][2])] IN
  [fields |-> UNION {Option(o + Sum(SubSeq(sizes, 1, i - 1)), options[i][1], options[i][2]) : i \in DOMAIN options},
   end |-> o + Sum(sizes)]

\* `requested` and `server` are there or not.
encode_request(kind, xid, mac, requested, server) ==
  LET optional(code, S) == IF S = {} THEN <<>> ELSE <<<<code, CHOOSE a \in S : TRUE>>>>
      listed == Options(240, <<<<53, <<kind>>>>>> \o optional(50, requested) \o optional(54, server)
                             \o <<<<55, <<1, 3, 6, 51, 54, 58>>>>>>) IN
  When(kind \in {Discover, Request},
       Frame(listed.end + 1,
             {Octets(0, <<1, 1, 6>>), BE(4, 4, xid), BE(10, 2, 32768), Octets(28, mac), Octets(236, COOKIE),
              listed.fields, U8(listed.end, 255)}, {}))

\* Code, place and length of the options of a message, or a code of -1
\* where they are malformed.  At most 128 are read.
OptionsOf(f) ==
  LET from[o \in Nat, count \in Nat] ==
        CASE o >= f.size \/ count = 128 \/ u8(f, o) = 255 -> <<>>
          [] u8(f, o) = 0 -> from[o + 1, count + 1]
          [] o + 1 >= f.size \/ o + 2 + u8(f, o + 1) > f.size -> <<<<-1, 0, 0>>>>
          [] OTHER -> <<<<u8(f, o), o + 2, u8(f, o + 1)>>>> \o from[o + 2 + u8(f, o + 1), count + 1] IN
  from[240, 0]
\* The last option with this code and one of these lengths, or zeros.
LastOption(f, options, code, lengths) ==
  LET found == {i \in DOMAIN options : options[i][1] = code /\ options[i][3] \in lengths} IN
  IF found = {} THEN Unset ELSE OctetsAt(f, options[CHOOSE i \in found : \A j \in found : j <= i][2], 4)

decode_reply(f, xid, mac) ==
  LET options == OptionsOf(f)
      kinds == {options[i] : i \in {j \in DOMAIN options : options[j][1] = 53 /\ options[j][3] = 1}}
      kind == LastOption(f, options, 53, {1})[1]
      server == LastOption(f, options, 54, {4})
      address == OctetsAt(f, 16, 4) IN
  When(/\ f.size >= DHCP_FIXED_LEN /\ OctetsAt(f, 0, 3) = <<2, 1, 6>>
       /\ BigNum(f, 4, 4) = xid /\ OctetsAt(f, 28, 6) = mac /\ OctetsAt(f, 236, 4) = COOKIE
       /\ \A i \in DOMAIN options : options[i][1] # -1
       /\ kinds # {} /\ \A k \in kinds : u8(f, k[2]) \in {Offer, Ack, Nak}
       /\ server # Unset /\ (kind # Nak => address # Unset),
       [message_type |-> kind, address |-> address, subnet_mask |-> LastOption(f, options, 1, {4}),
        gateway |-> LastOption(f, options, 3, 4..255), dns |-> LastOption(f, options, 6, 4..255),
        lease_seconds |-> LastOption(f, options, 51, {4}), server |-> server])

\* A server: it takes the transaction and the hardware address from the
\* request, answers with an offer, or grants or refuses what is requested.
DhcpMessage ==
  [message_type : {Offer, Ack}, address : {From}, subnet_mask : {<<255, 255, 255, 0>>}, gateway : {To, Unset},
   dns : {<<10, 0, 2, 3>>}, lease_seconds : {<<0, 0, 14, 16>>}, server : {To}] \union
  [message_type : {Nak}, address : {Unset}, subnet_mask : {Unset}, gateway : {Unset}, dns : {Unset},
   lease_seconds : {Unset}, server : {To}]
Requested(v) ==
  IF v.message_type = Offer THEN encode_request(Discover, Xid, Mine, {}, {})
  ELSE encode_request(Request, Xid, Mine, {From}, {v.server})
ServerReply(v) ==
  LET given == SelectSeq(<<<<1, v.subnet_mask>>, <<3, v.gateway>>, <<6, v.dns>>, <<51, v.lease_seconds>>>>,
                         LAMBDA option : option[2] # Unset)
      listed == Options(240, <<<<53, <<v.message_type>>>>>> \o given \o <<<<54, v.server>>>>) IN
  {Frame(listed.end + 1,
         {Octets(0, <<2, 1, 6>>), BE(4, 4, BigNum(q, 4, 4)), Octets(16, v.address), Octets(28, OctetsAt(q, 28, 6)),
          Octets(236, OctetsAt(q, 236, 4)), listed.fields, U8(listed.end, 255)}, {}) : q \in Requested(v)}
DhcpReply_decode(f) == decode_reply(f, Xid, Mine)

-----------------------------------------------------------------------------
ExchangeEthernetFrames ==
  Exchange("ethernet", EthernetHeader, EthernetHeader_encode, EthernetHeader_decode)
ExchangeArpPackets ==
  Exchange("arp", ArpPacket, ArpPacket_encode, ArpPacket_decode)
ExchangeIpv4Packets ==
  Exchange("ipv4", Ipv4Header, Ipv4Header_encode, Ipv4Header_decode)
ExchangeEchoMessages ==
  Exchange("echo", EchoPacket, EchoPacket_encode, EchoPacket_decode)
ExchangeUdpDatagrams ==
  Exchange("udp", UdpDatagram, UdpDatagram_encode, UdpDatagram_decode)
ExchangeTcpSegments ==
  Exchange("tcp", TcpSegment, TcpSegment_encode, TcpSegment_decode)
ExchangeDhcpMessages ==
  Exchange("dhcp", DhcpMessage, ServerReply, DhcpReply_decode)

Next ==
  \/ ExchangeEthernetFrames \/ ExchangeArpPackets \/ ExchangeIpv4Packets
  \/ ExchangeEchoMessages \/ ExchangeUdpDatagrams \/ ExchangeTcpSegments
  \/ ExchangeDhcpMessages
=============================================================================
