----------------------------- MODULE MapPackets -----------------------------
(***************************************************************************)
(* The packets of NAT-PMP and PCP: what the encoders of the requests write *)
(* and what the decoders of the responses make of a datagram.              *)
(*                                                                         *)
(* A buffer is a sequence of bytes; number and address fields stay the     *)
(* bytes they travel in, since from_be_bytes loses nothing.  The decoders  *)
(* of both protocols are run on any datagram, on the requests of this      *)
(* client and on what a gateway answers with.                              *)
(***************************************************************************)
EXTENDS Naturals, Sequences, Computation

Bytes(buf, i, j) == SubSeq(buf, i + 1, j)     \* buf[i..j]
Zeros(n) == [k \in 1..n |-> 0]
Mapped(ip) == Zeros(10) \o <<255, 255>> \o ip  \* to_ipv6_mapped

RESPONSE_INDICATOR == 128
IsResponse(byte) == byte \div RESPONSE_INDICATOR = 1

-----------------------------------------------------------------------------
(* NAT-PMP.                                                                *)

NatPmpVersion == 0
NatPmpOpcode == [DetermineExternalAddress |-> 0, MapUdp |-> 1, MapTcp |-> 2]
NatPmpErrors == <<"UnsupportedVersion", "NotAuthorizedOrRefused", "NetworkFailure",
                  "OutOfResources", "UnsupportedOpcode">>
NatPmpMinSize == 12
NatPmpMaxSize == 16

ExternalAddressEncode == <<NatPmpVersion, NatPmpOpcode.DetermineExternalAddress>>

MappingEncode(q) ==
    <<NatPmpVersion,
      IF q.proto = "udp" THEN NatPmpOpcode.MapUdp ELSE NatPmpOpcode.MapTcp, 0, 0>>
        \o q.local_port \o q.external_port \o q.lifetime

\* Mutant: the two ports are read in the wrong order.
decode_map_swapped(buf, proto) ==
    IF Len(buf) # NatPmpMaxSize THEN Err("Malformed")
    ELSE Ok([t |-> "map", proto |-> proto, epoch |-> Bytes(buf, 4, 8),
             private_port |-> Bytes(buf, 10, 12), external_port |-> Bytes(buf, 8, 10),
             lifetime |-> Bytes(buf, 12, 16)])

decode_map(buf, proto) ==
    IF Len(buf) # NatPmpMaxSize THEN Err("Malformed")
    ELSE Ok([t |-> "map", proto |-> proto, epoch |-> Bytes(buf, 4, 8),
             private_port |-> Bytes(buf, 8, 10), external_port |-> Bytes(buf, 10, 12),
             lifetime |-> Bytes(buf, 12, 16)])

\* Mutant: the version is not looked at.
NatPmpDecodeAnyVersion(buf) ==
    IF Len(buf) \notin NatPmpMinSize..NatPmpMaxSize THEN Err("Malformed")
    ELSE IF ~ IsResponse(buf[2]) THEN Err("NotAResponse")
    ELSE IF buf[2] % RESPONSE_INDICATOR > 2 THEN Err("InvalidOpcode")
    ELSE IF buf[3] # 0 \/ buf[4] # 0 THEN Err("InvalidResultCode")
    ELSE IF buf[2] % RESPONSE_INDICATOR = 0 THEN Ok([t |-> "address"])
    ELSE decode_map(buf, "udp")

NatPmpDecode(buf) ==
    IF Len(buf) \notin NatPmpMinSize..NatPmpMaxSize THEN Err("Malformed")
    ELSE IF buf[1] # NatPmpVersion THEN Err("InvalidVersion")
    ELSE IF ~ IsResponse(buf[2]) THEN Err("NotAResponse")
    ELSE LET opcode == buf[2] % RESPONSE_INDICATOR
             code == 256 * buf[3] + buf[4]
         IN IF opcode > NatPmpOpcode.MapTcp THEN Err("InvalidOpcode")
            ELSE IF code > Len(NatPmpErrors) THEN Err("InvalidResultCode")
            ELSE IF code # 0 THEN Err(NatPmpErrors[code])
            ELSE IF opcode = NatPmpOpcode.DetermineExternalAddress
                    THEN Ok([t |-> "address", epoch |-> Bytes(buf, 4, 8),
                             public_ip |-> Bytes(buf, 8, 12)])
            ELSE decode_map(buf, IF opcode = NatPmpOpcode.MapUdp THEN "udp" ELSE "tcp")

-----------------------------------------------------------------------------
(* PCP.                                                                    *)

PcpVersion == 2
PcpOpcode == [Announce |-> 0, Map |-> 1]
PcpProtocol == [udp |-> 17, tcp |-> 6]
PcpMaxErrorCode == 13
PcpMinSize == 24
PcpMaxSize == 1100
MapDataSize == 36

MapDataEncode(d) ==
    d.nonce \o <<PcpProtocol[d.proto]>> \o Zeros(3)
        \o d.local_port \o d.external_port \o d.external_address

\* Announce has no data.
EncodeInto(d) == IF d.t = "announce" THEN <<>> ELSE MapDataEncode(d)

PcpEncode(q) ==
    <<PcpVersion, IF q.data.t = "announce" THEN PcpOpcode.Announce ELSE PcpOpcode.Map, 0, 0>>
        \o q.lifetime \o q.client_addr \o EncodeInto(q.data)

PcpAnnounce(client_addr) ==
    [lifetime |-> Zeros(4), client_addr |-> client_addr, data |-> [t |-> "announce"]]

\* None, as a preferred port or address, is sent as zero.
PcpMapping(nonce, proto, local_port, local_ip, port, ip, lifetime) ==
    [lifetime |-> lifetime, client_addr |-> Mapped(local_ip),
     data |-> [t |-> "map", nonce |-> nonce, proto |-> proto, local_port |-> local_port,
               external_port |-> IF port = <<>> THEN Zeros(2) ELSE port,
               external_address |-> Mapped(IF ip = <<>> THEN Zeros(4) ELSE ip)]]

\* Mutant: a buffer one byte short passes the test of the size.
MapDataDecodeShort(buf) ==
    IF Len(buf) < MapDataSize - 1 THEN Err("InvalidOpcodeData")
    ELSE IF \A p \in DOMAIN PcpProtocol : buf[13] # PcpProtocol[p] THEN Err("InvalidOpcodeData")
    ELSE IF Len(buf) - 20 # 16 THEN Panic
    ELSE Ok([t |-> "map"])

\* The address is all that is left after byte 20, and must be 16 bytes.
MapDataDecode(buf) ==
    IF Len(buf) < MapDataSize THEN Err("InvalidOpcodeData")
    ELSE IF \A p \in DOMAIN PcpProtocol : buf[13] # PcpProtocol[p] THEN Err("InvalidOpcodeData")
    ELSE IF Len(buf) - 20 # 16 THEN Panic
    ELSE Ok([t |-> "map", nonce |-> Bytes(buf, 0, 12),
             proto |-> CHOOSE p \in DOMAIN PcpProtocol : buf[13] = PcpProtocol[p],
             local_port |-> Bytes(buf, 16, 18), external_port |-> Bytes(buf, 18, 20),
             external_address |-> Bytes(buf, 20, 36)])

OpcodeDataDecode(opcode, buf) ==
    IF opcode = PcpOpcode.Announce THEN Ok([t |-> "announce"]) ELSE MapDataDecode(buf)

PcpDecode(buf) ==
    IF Len(buf) \notin PcpMinSize..PcpMaxSize THEN Err("Malformed")
    ELSE IF buf[1] # PcpVersion THEN Err("InvalidVersion")
    ELSE IF ~ IsResponse(buf[2]) THEN Err("NotAResponse")
    ELSE IF buf[2] % RESPONSE_INDICATOR > PcpOpcode.Map THEN Err("InvalidOpcode")
    ELSE IF buf[4] > PcpMaxErrorCode THEN Err("InvalidResultCode")
    ELSE IF buf[4] # 0 THEN Err(buf[4])
    ELSE LET data == OpcodeDataDecode(buf[2] % RESPONSE_INDICATOR, Bytes(buf, 24, Len(buf)))
         IN IF data.r = "ok"
               THEN Ok([lifetime |-> Bytes(buf, 4, 8), epoch |-> Bytes(buf, 8, 12),
                        data |-> data.v])
               ELSE data

-----------------------------------------------------------------------------
(* The sockets: recv fills a buffer of MAX_SIZE bytes, and the rest of a   *)
(* longer datagram is dropped.                                             *)

Received(d, max) == IF Len(d) > max THEN SubSeq(d, 1, max) ELSE d
NatPmpRecv(d) == NatPmpDecode(Received(d, NatPmpMaxSize))
PcpRecv(d) == PcpDecode(Received(d, PcpMaxSize))

-----------------------------------------------------------------------------
(* The codecs at work.                                                     *)

Field(n) == [1..n -> Byte]

CONSTANTS Datagrams,     \* what may be received
          Ports, Seconds, Ips, Addresses, MapNonces
                         \* the fields: ports, lifetimes and epochs, IPv4 and
                         \* IPv6 addresses, the nonces of MAP

ASSUME FieldsAssumption ==
    /\ Datagrams \subseteq Seq(Byte)
    /\ Ports \subseteq Field(2) /\ Seconds \subseteq Field(4) /\ Ips \subseteq Field(4)
    /\ Addresses \subseteq Field(16) /\ MapNonces \subseteq Field(12)

Protocols == {"udp", "tcp"}
MapDatas == [t : {"map"}, nonce : MapNonces, proto : Protocols, local_port : Ports,
             external_port : Ports, external_address : Addresses]

\* What a gateway answers with, as values.
PmpResponses ==
    [t : {"address"}, epoch : Seconds, public_ip : Ips]
    \cup [t : {"map"}, proto : Protocols, epoch : Seconds, private_port : Ports,
          external_port : Ports, lifetime : Seconds]
PcpResponses == [lifetime : Seconds, epoch : Seconds, data : MapDatas \cup {[t |-> "announce"]}]

\* The same as datagrams.
PmpDatagram(v) ==
    IF v.t = "address" THEN <<0, 128, 0, 0>> \o v.epoch \o v.public_ip
    ELSE <<0, IF v.proto = "udp" THEN 129 ELSE 130, 0, 0>>
            \o v.epoch \o v.private_port \o v.external_port \o v.lifetime
PcpDatagram(v) ==
    <<2, IF v.data.t = "map" THEN 129 ELSE 128, 0, 0>> \o v.lifetime \o v.epoch \o Zeros(12)
        \o EncodeInto(v.data)

\* The requests of this client; no preferred port or address is <<>>.
Requests ==
    {ExternalAddressEncode}
    \cup {MappingEncode(q) : q \in [proto : Protocols, local_port : Ports,
                                    external_port : Ports, lifetime : Seconds]}
    \cup {PcpEncode(PcpAnnounce(a)) : a \in Addresses}
    \cup {PcpEncode(PcpMapping(n, p, local, ip, port, ext, lifetime)) :
            n \in MapNonces, p \in Protocols, local \in Ports, ip \in Ips,
            port \in Ports \cup {<<>>}, ext \in Ips \cup {<<>>}, lifetime \in Seconds}

PacketInit ==
    \/ \E d \in Datagrams : input = [kind |-> "packet", d |-> d]
    \/ \E d \in Requests : input = [kind |-> "request", d |-> d]
    \/ \E v \in PmpResponses : input = [kind |-> "pmp", v |-> v, d |-> PmpDatagram(v)]
    \/ \E v \in PcpResponses : input = [kind |-> "pcp", v |-> v, d |-> PcpDatagram(v)]
    \/ \E v \in MapDatas : input = [kind |-> "map", v |-> v]

PacketKinds == {"packet", "request", "pmp", "pcp"}

Decode ==
    \E kind \in PacketKinds :
        Compute(kind, [pmp |-> NatPmpRecv(input.d), pcp |-> PcpRecv(input.d)])
EncodeMapData ==
    Compute("map", [decoded |-> OpcodeDataDecode(PcpOpcode.Map, MapDataEncode(input.v))])

PacketSpec == PacketInit /\ output = Pending /\ [][Decode \/ EncodeMapData]_vars

\* What a gateway answers reaches the client unchanged: Response::decode reads
\* every field from where the gateway put it, for both protocols and for MapData
\* as this client itself encodes it.
PacketsUnderstood ==
    /\ Done("pmp") => output.pmp = Ok(input.v)
    /\ Done("pcp") => output.pcp = Ok(input.v)
    /\ Done("map") => output.decoded = Ok(input.v)

\* The protocols share the server's port and local ports are reused, so a
\* datagram of one may reach the socket of the other, cut to its buffer.  None
\* is accepted by both decoders, and a request that comes back is accepted by
\* neither.
ProtocolsApart ==
    /\ \A kind \in PacketKinds : Done(kind) => ~ (output.pmp.r = "ok" /\ output.pcp.r = "ok")
    /\ Done("request") => output.pmp.r # "ok" /\ output.pcp.r # "ok"

\* The expects of the decoders hold for every datagram, except for the one on
\* the external address ("buffer size was verified"): it fails for a successful
\* MAP response that goes on after its 60 bytes, as one with options does.
PanicsOnlyOnOptions ==
    \A kind \in PacketKinds : Done(kind) =>
        /\ output.pmp.r # "panic"
        /\ output.pcp.r = "panic" <=>
              /\ Len(input.d) > 60 /\ input.d[1] = 2 /\ input.d[2] = 129 /\ input.d[4] = 0
              /\ input.d[37] \in {6, 17}
=============================================================================
