---------------------------- MODULE CodecProofs ----------------------------
(***************************************************************************)
(* The decoders, on bytes of any number and any value.                     *)
(*                                                                         *)
(* NAT-PMP and PCP: what a gateway answers is understood, the two          *)
(* protocols are told apart, and the only expect that fails is the one on  *)
(* options.                                                                *)
(*                                                                         *)
(* The routing information base: parse_rib never indexes out of range, and *)
(* each message of a read is parsed and announced for itself.              *)
(***************************************************************************)
EXTENDS MapPackets, RouteMessages, WellFoundedInduction, TLAPS

-----------------------------------------------------------------------------
(* The packets of NAT-PMP and PCP.                                         *)

Datagram == Seq(Byte)

\* The sizes of the buffers and of the smallest packets.
LEMMA Sizes ==
    /\ NatPmpMinSize = 12 /\ NatPmpMaxSize = 16
    /\ PcpMinSize = 24 /\ PcpMaxSize \in Nat /\ PcpMaxSize > 60
    BY DEF NatPmpMinSize, NatPmpMaxSize, PcpMinSize, PcpMaxSize

\* A receive buffer that is not empty keeps the beginning of the datagram.
LEMMA ReceivedFacts ==
    ASSUME NEW d \in Datagram, NEW max \in Nat
    PROVE  /\ Received(d, max) \in Datagram
           /\ Len(Received(d, max)) = IF Len(d) > max THEN max ELSE Len(d)
           /\ \A k \in 1..Len(Received(d, max)) : Received(d, max)[k] = d[k]
    BY DEF Received, Datagram

\* The checks of Response::decode of PCP, and the data it decodes then.
Passes(b) ==
    /\ Len(b) \in PcpMinSize..PcpMaxSize /\ b[1] = PcpVersion /\ IsResponse(b[2])
    /\ ~ (b[2] % RESPONSE_INDICATOR > PcpOpcode.Map) /\ ~ (b[4] > PcpMaxErrorCode)
    /\ b[4] = 0
Data(b) == OpcodeDataDecode(b[2] % RESPONSE_INDICATOR, Bytes(b, 24, Len(b)))

\* The data is looked at only when all the checks have passed, and then decides.
LEMMA PcpCases ==
    ASSUME NEW b
    PROVE  /\ ~ Passes(b) => PcpDecode(b).r = "err"
           /\ Passes(b) => (PcpDecode(b).r = "ok" <=> Data(b).r = "ok")
           /\ Passes(b) => (PcpDecode(b).r = "panic" <=> Data(b).r = "panic")
<1>1. ASSUME ~ Passes(b) PROVE PcpDecode(b).r = "err"
    <2>1. \E e : PcpDecode(b) = Err(e)
        BY <1>1, Zenon DEF Passes, PcpDecode
    <2> QED BY <2>1 DEF Err
<1>2. ASSUME Passes(b)
      PROVE  /\ PcpDecode(b).r = "ok" <=> Data(b).r = "ok"
             /\ PcpDecode(b).r = "panic" <=> Data(b).r = "panic"
    <2>1. PcpDecode(b) = IF Data(b).r = "ok"
                            THEN Ok([lifetime |-> Bytes(b, 4, 8), epoch |-> Bytes(b, 8, 12),
                                     data |-> Data(b).v])
                            ELSE Data(b)
        BY <1>2, Zenon DEF Passes, PcpDecode, Data
    <2>2. \A v : Ok(v).r = "ok"
        BY DEF Ok
    <2> QED BY <2>1, <2>2
<1> QED BY <1>1, <1>2

\* The version comes first, and each decoder insists on its own.
LEMMA VersionOfAccepted ==
    ASSUME NEW d \in Datagram
    PROVE  /\ NatPmpRecv(d).r = "ok" => d[1] = NatPmpVersion /\ IsResponse(d[2])
           /\ PcpRecv(d).r = "ok" => d[1] = PcpVersion /\ IsResponse(d[2])
<1>1. ASSUME NatPmpRecv(d).r = "ok" PROVE d[1] = NatPmpVersion /\ IsResponse(d[2])
    <2> DEFINE b == Received(d, NatPmpMaxSize)
    <2>1. NatPmpDecode(b).r = "ok"
        BY <1>1 DEF NatPmpRecv
    <2>2. Len(b) \in NatPmpMinSize..NatPmpMaxSize /\ b[1] = NatPmpVersion /\ IsResponse(b[2])
        BY <2>1 DEF NatPmpDecode, Err
    <2>3. 1 \in 1..Len(b) /\ 2 \in 1..Len(b)
        BY <2>2, Sizes
    <2> QED BY <2>2, <2>3, ReceivedFacts, Sizes
<1>2. ASSUME PcpRecv(d).r = "ok" PROVE d[1] = PcpVersion /\ IsResponse(d[2])
    <2> DEFINE b == Received(d, PcpMaxSize)
    <2>1. PcpDecode(b).r = "ok"
        BY <1>2 DEF PcpRecv
    <2>2. Len(b) \in PcpMinSize..PcpMaxSize /\ b[1] = PcpVersion /\ IsResponse(b[2])
        BY <2>1, PcpCases DEF Passes
    <2>3. 1 \in 1..Len(b) /\ 2 \in 1..Len(b)
        BY <2>2, Sizes
    <2> QED BY <2>2, <2>3, ReceivedFacts, Sizes
<1> QED BY <1>1, <1>2

\* No datagram, of whatever length, is taken for a response by the sockets of
\* both protocols, and none without the response bit by either: a request that
\* comes back is refused.
THEOREM NeverBoth ==
    \A d \in Datagram :
        /\ ~ (NatPmpRecv(d).r = "ok" /\ PcpRecv(d).r = "ok")
        /\ NatPmpRecv(d).r = "ok" \/ PcpRecv(d).r = "ok" => d[2] \div 128 = 1
    BY VersionOfAccepted DEF NatPmpVersion, PcpVersion, IsResponse, RESPONSE_INDICATOR

\* The checks of Response::decode of NAT-PMP leave no index out of range.
LEMMA NatPmpNoPanic ==
    ASSUME NEW b PROVE NatPmpDecode(b).r # "panic"
    BY DEF NatPmpDecode, decode_map, Ok, Err

\* What Response::decode of PCP makes of the data of a MAP response: the expect
\* of MapData::decode fails exactly when the buffer goes on after the address.
LEMMA MapDataPanics ==
    ASSUME NEW b \in Datagram
    PROVE  MapDataDecode(b).r = "panic" <=> Len(b) > MapDataSize /\ b[13] \in {6, 17}
<1>1. (\A p \in DOMAIN PcpProtocol : b[13] # PcpProtocol[p]) <=> b[13] \notin {6, 17}
    <2>1. /\ DOMAIN PcpProtocol = {"udp", "tcp"}
          /\ PcpProtocol["udp"] = 17 /\ PcpProtocol["tcp"] = 6
        BY DEF PcpProtocol
    <2> QED BY <2>1
<1>2. Len(b) \in Nat /\ (Len(b) >= 36 => (Len(b) - 20 # 16 <=> Len(b) > 36))
    <2>1. Len(b) \in Nat
        BY DEF Datagram
    <2>2. \A n \in Nat : n >= 36 => (n - 20 # 16 <=> n > 36)
        OBVIOUS
    <2> QED BY <2>1, <2>2, Zenon
<1>3. CASE Len(b) < 36
    BY <1>2, <1>3 DEF MapDataDecode, MapDataSize, Err
<1>4. CASE Len(b) >= 36 /\ b[13] \notin {6, 17}
    BY <1>1, <1>2, <1>4 DEF MapDataDecode, MapDataSize, Err
<1>5. CASE Len(b) >= 36 /\ b[13] \in {6, 17}
    BY <1>1, <1>2, <1>5 DEF MapDataDecode, MapDataSize, Ok, Panic
<1> QED BY <1>2, <1>3, <1>4, <1>5

\* NAT-PMP's decoder never panics, and PCP's only on a successful MAP response
\* to a known protocol with more than 36 bytes of data, which a response with
\* options has.
THEOREM PanicsExactly ==
    \A d \in Datagram :
        /\ NatPmpRecv(d).r # "panic"
        /\ PcpRecv(d).r = "panic" <=>
              Len(d) > 60 /\ d[1] = 2 /\ d[2] = 129 /\ d[4] = 0 /\ d[37] \in {6, 17}
<1> SUFFICES ASSUME NEW d \in Datagram
             PROVE  PcpRecv(d).r = "panic" <=>
                       Len(d) > 60 /\ d[1] = 2 /\ d[2] = 129 /\ d[4] = 0 /\ d[37] \in {6, 17}
    BY NatPmpNoPanic DEF NatPmpRecv
<1> DEFINE b == Received(d, PcpMaxSize)
           data == Bytes(b, 24, Len(b))
<1>1. /\ b \in Datagram /\ Len(b) \in Nat /\ Len(d) \in Nat
      /\ Len(b) = IF Len(d) > PcpMaxSize THEN PcpMaxSize ELSE Len(d)
      /\ \A k \in 1..Len(b) : b[k] = d[k] /\ b[k] \in Nat /\ b[k] < 256
    <2>1. /\ b \in Datagram /\ \A k \in 1..Len(b) : b[k] = d[k]
          /\ Len(b) = IF Len(d) > PcpMaxSize THEN PcpMaxSize ELSE Len(d)
        BY ReceivedFacts, Sizes
    <2> HIDE DEF b
    <2>2. Len(b) \in Nat /\ Len(d) \in Nat /\ \A k \in 1..Len(b) : b[k] \in Byte
        BY <2>1 DEF Datagram
    <2>3. \A x \in Byte : x \in Nat /\ x < 256
        BY DEF Byte
    <2> QED BY <2>1, <2>2, <2>3
<1> HIDE DEF b
<1>2. CASE Len(b) < 24
    <2>1. Len(b) \notin PcpMinSize..PcpMaxSize /\ Len(d) < 24
        BY <1>1, <1>2, Sizes
    <2>2. PcpDecode(b) = Err("Malformed")
        BY <2>1, Zenon DEF PcpDecode
    <2> QED BY <1>1, <2>1, <2>2 DEF PcpRecv, Err, b
<1>3. CASE Len(b) >= 24
    <2>1. b[1] = d[1] /\ b[2] = d[2] /\ b[4] = d[4] /\ b[2] \in Nat /\ b[2] < 256 /\ b[4] \in Nat
        BY <1>1, <1>3
    <2>2. data \in Datagram /\ Len(data) = Len(b) - 24
          /\ (Len(data) > 36 => data[13] = d[37])
        BY <1>1, <1>3 DEF Bytes, Datagram
    <2> HIDE DEF data
    <2>3. OpcodeDataDecode(b[2] % 128, data).r = "panic" <=>
              b[2] % 128 # 0 /\ Len(b) > 60 /\ d[37] \in {6, 17}
        <3>1. CASE b[2] % 128 = 0
            BY <3>1 DEF OpcodeDataDecode, PcpOpcode, Ok
        <3>2. CASE b[2] % 128 # 0
            <4>1. OpcodeDataDecode(b[2] % 128, data) = MapDataDecode(data)
                BY <3>2 DEF OpcodeDataDecode, PcpOpcode
            <4>2. Len(data) > 36 <=> Len(b) > 60
                BY <1>1, <2>2
            <4> QED BY <2>2, <3>2, <4>1, <4>2, MapDataPanics DEF MapDataSize
        <3> QED BY <3>1, <3>2
    <2>4. Len(b) > 60 <=> Len(d) > 60
        BY <1>1, Sizes
    <2>5. /\ b[2] \div 128 = 1 /\ b[2] % 128 <= 1 /\ b[2] % 128 # 0 <=> b[2] = 129
        BY <2>1
    <2>6. PcpDecode(b).r = "panic" <=>
              b[1] = 2 /\ b[2] \div 128 = 1 /\ b[2] % 128 <= 1 /\ b[4] = 0
                 /\ OpcodeDataDecode(b[2] % 128, data).r = "panic"
        <3>1. Passes(b) <=> b[1] = 2 /\ b[2] \div 128 = 1 /\ b[2] % 128 <= 1 /\ b[4] = 0
            BY <1>1, <1>3, <2>1, Sizes DEF Passes, PcpVersion, IsResponse,
                RESPONSE_INDICATOR, PcpOpcode, PcpMaxErrorCode
        <3>2. Data(b) = OpcodeDataDecode(b[2] % 128, data)
            BY DEF Data, data, RESPONSE_INDICATOR
        <3> QED BY <3>1, <3>2, PcpCases
    <2> QED BY <2>1, <2>3, <2>4, <2>5, <2>6 DEF PcpRecv, b
<1> QED BY <1>1, <1>2, <1>3

-----------------------------------------------------------------------------
(* What the encoders write and where the decoders find it.                 *)

\* A field is a datagram of its length, and so are zeros.
LEMMA FieldIsDatagram ==
    ASSUME NEW n \in Nat
    PROVE  /\ \A f \in Field(n) : f \in Datagram /\ Len(f) = n
           /\ Zeros(n) \in Field(n)
<1>1. \A f \in [1..n -> Byte] : f \in Seq(Byte) /\ Len(f) = n
    OBVIOUS
<1>2. 0 \in Byte
    BY DEF Byte
<1> QED BY <1>1, <1>2 DEF Field, Datagram, Zeros

\* c is the m bytes of a and then b, n bytes in all: what Bytes takes from it
\* before and after the seam.
Joins(a, b, c, m, n) ==
    /\ c \in Datagram /\ Len(c) = n
    /\ \A k \in 1..m : c[k] = a[k]
    /\ \A k \in (m + 1)..n : c[k] = b[k - m]
    /\ \A i, j \in 0..m : Bytes(c, i, j) = Bytes(a, i, j)
    /\ Bytes(c, m, n) = b

LEMMA Joined ==
    ASSUME NEW a \in Datagram, NEW b \in Datagram, NEW m \in Nat, NEW l \in Nat,
           NEW n \in Nat, Len(a) = m, Len(b) = l, m + l = n
    PROVE  Joins(a, b, a \o b, m, n)
<1> DEFINE c == a \o b
<1>1. /\ c \in Datagram /\ Len(c) = n
      /\ \A k \in 1..m : c[k] = a[k]
      /\ \A k \in 1..Len(b) : c[m + k] = b[k]
    BY DEF Datagram
<1>2. Len(b) \in Nat
    BY DEF Datagram
<1> HIDE DEF c
<1>3. \A i, j \in 0..m : Bytes(c, i, j) = Bytes(a, i, j)
    BY <1>1, <1>2 DEF Bytes, Datagram
<1>4. Bytes(c, m, n) = b
    BY <1>1, <1>2 DEF Bytes, Datagram
<1>5. \A k \in (m + 1)..n : c[k] = b[k - m]
    BY <1>1, <1>2
<1> QED BY <1>1, <1>3, <1>4, <1>5 DEF c, Joins

\* A header, in which version and opcode come first and the result is success.
IsHeader(h, w, x) ==
    h \in Datagram /\ Len(h) = 4 /\ h[1] = w /\ h[2] = x /\ h[3] = 0 /\ h[4] = 0

LEMMA Header ==
    ASSUME NEW w \in Byte, NEW x \in Byte
    PROVE  IsHeader(<<w, x, 0, 0>>, w, x)
    BY DEF Datagram, Byte, IsHeader

\* The fields of the records a gateway answers with.
LEMMA ResponseFields ==
    /\ \A v \in [t : {"address"}, epoch : Seconds, public_ip : Ips] :
          /\ v = [t |-> "address", epoch |-> v.epoch, public_ip |-> v.public_ip]
          /\ v.t = "address" /\ v.epoch \in Field(4) /\ v.public_ip \in Field(4)
    /\ \A v \in [t : {"map"}, proto : Protocols, epoch : Seconds, private_port : Ports,
                 external_port : Ports, lifetime : Seconds] :
          /\ v = [t |-> "map", proto |-> v.proto, epoch |-> v.epoch,
                  private_port |-> v.private_port, external_port |-> v.external_port,
                  lifetime |-> v.lifetime]
          /\ v.t = "map" /\ v.proto \in Protocols /\ v.epoch \in Field(4)
          /\ v.private_port \in Field(2) /\ v.external_port \in Field(2)
          /\ v.lifetime \in Field(4)
    /\ \A v \in MapDatas :
          /\ v = [t |-> "map", nonce |-> v.nonce, proto |-> v.proto,
                  local_port |-> v.local_port, external_port |-> v.external_port,
                  external_address |-> v.external_address]
          /\ v.t = "map" /\ v.proto \in Protocols /\ v.nonce \in Field(12)
          /\ v.local_port \in Field(2) /\ v.external_port \in Field(2)
          /\ v.external_address \in Field(16)
    BY FieldsAssumption DEF MapDatas

\* A response of 12 bytes: the header and two fields of four.
Fields12(d, x, a, b) ==
    /\ d \in Datagram /\ Len(d) = 12 /\ d[1] = 0 /\ d[2] = x /\ d[3] = 0 /\ d[4] = 0
    /\ Bytes(d, 4, 8) = a /\ Bytes(d, 8, 12) = b

LEMMA AddressPacket ==
    ASSUME NEW h, NEW x, IsHeader(h, 0, x), NEW a \in Field(4), NEW b \in Field(4)
    PROVE  Fields12(h \o a \o b, x, a, b)
<1> DEFINE p == h \o a
           d == p \o b
<1>0. 4 \in Nat /\ 8 \in Nat /\ 12 \in Nat /\ 4 + 4 = 8 /\ 8 + 4 = 12
    OBVIOUS
<1>1. /\ a \in Datagram /\ Len(a) = 4 /\ b \in Datagram /\ Len(b) = 4
    BY <1>0, FieldIsDatagram, Zenon
<1>2. Joins(h, a, p, 4, 8)
    BY <1>0, <1>1, Joined, Zenon DEF IsHeader
<1> HIDE DEF p
<1>3. Joins(p, b, d, 8, 12)
    <2>1. p \in Datagram /\ Len(p) = 8
        BY <1>2 DEF Joins
    <2> QED BY <1>0, <1>1, <2>1, Joined, Zenon
<1> HIDE DEF d
<1>4. d[1] = 0 /\ d[2] = x /\ d[3] = 0 /\ d[4] = 0
    BY <1>2, <1>3 DEF Joins, IsHeader
<1>5. Bytes(d, 4, 8) = a /\ Bytes(d, 8, 12) = b
    BY <1>2, <1>3 DEF Joins
<1>6. Fields12(d, x, a, b)
    BY <1>3, <1>4, <1>5 DEF Fields12, Joins
<1> QED BY <1>6 DEF d, p

\* A response of 16 bytes: the header, an epoch, two ports and a lifetime.
Fields16(d, x, a, b, c, e) ==
    /\ d \in Datagram /\ Len(d) = 16 /\ d[1] = 0 /\ d[2] = x /\ d[3] = 0 /\ d[4] = 0
    /\ Bytes(d, 4, 8) = a /\ Bytes(d, 8, 10) = b /\ Bytes(d, 10, 12) = c
    /\ Bytes(d, 12, 16) = e

LEMMA MapPacket ==
    ASSUME NEW h, NEW x, IsHeader(h, 0, x), NEW a \in Field(4), NEW b \in Field(2),
           NEW c \in Field(2), NEW e \in Field(4)
    PROVE  Fields16(h \o a \o b \o c \o e, x, a, b, c, e)
<1> DEFINE p == h \o a
           q == p \o b
           r == q \o c
           d == r \o e
<1>0. /\ 2 \in Nat /\ 4 \in Nat /\ 8 \in Nat /\ 10 \in Nat /\ 12 \in Nat /\ 16 \in Nat
      /\ 4 + 4 = 8 /\ 8 + 2 = 10 /\ 10 + 2 = 12 /\ 12 + 4 = 16
    OBVIOUS
<1>1. /\ a \in Datagram /\ Len(a) = 4 /\ b \in Datagram /\ Len(b) = 2
      /\ c \in Datagram /\ Len(c) = 2 /\ e \in Datagram /\ Len(e) = 4
    BY <1>0, FieldIsDatagram, Zenon
<1>2. Joins(h, a, p, 4, 8)
    BY <1>0, <1>1, Joined, Zenon DEF IsHeader
<1> HIDE DEF p
<1>3. Joins(p, b, q, 8, 10)
    <2>1. p \in Datagram /\ Len(p) = 8
        BY <1>2 DEF Joins
    <2> QED BY <1>0, <1>1, <2>1, Joined, Zenon
<1> HIDE DEF q
<1>4. Joins(q, c, r, 10, 12)
    <2>1. q \in Datagram /\ Len(q) = 10
        BY <1>3 DEF Joins
    <2> QED BY <1>0, <1>1, <2>1, Joined, Zenon
<1> HIDE DEF r
<1>5. Joins(r, e, d, 12, 16)
    <2>1. r \in Datagram /\ Len(r) = 12
        BY <1>4 DEF Joins
    <2> QED BY <1>0, <1>1, <2>1, Joined, Zenon
<1> HIDE DEF d
<1>6. d[1] = 0 /\ d[2] = x /\ d[3] = 0 /\ d[4] = 0
    BY <1>2, <1>3, <1>4, <1>5 DEF Joins, IsHeader
<1>7. Bytes(d, 4, 8) = a /\ Bytes(d, 8, 10) = b /\ Bytes(d, 10, 12) = c
    BY <1>2, <1>3, <1>4, <1>5 DEF Joins
<1>8. Fields16(d, x, a, b, c, e)
    BY <1>5, <1>6, <1>7 DEF Fields16, Joins
<1> QED BY <1>8 DEF d, r, q, p

\* A NAT-PMP response is decoded to what the gateway encoded.
LEMMA PmpUnderstood ==
    ASSUME NEW v \in PmpResponses
    PROVE  PmpDatagram(v) \in Datagram /\ NatPmpRecv(PmpDatagram(v)) = Ok(v)
<1> DEFINE d == PmpDatagram(v)
<1>1. /\ 128 \div 128 = 1 /\ 129 \div 128 = 1 /\ 130 \div 128 = 1
      /\ 128 % 128 = 0 /\ 129 % 128 = 1 /\ 130 % 128 = 2
      /\ 128 \in Byte /\ 129 \in Byte /\ 130 \in Byte
    BY DEF Byte
<1>4. \A x \in Byte : IsHeader(<<0, x, 0, 0>>, 0, x)
    <2>1. 0 \in Byte
        BY DEF Byte
    <2> QED BY <2>1, Header, Zenon
<1>2. CASE v \in [t : {"address"}, epoch : Seconds, public_ip : Ips]
    <2>1. /\ d = <<0, 128, 0, 0>> \o v.epoch \o v.public_ip
          /\ v = [t |-> "address", epoch |-> v.epoch, public_ip |-> v.public_ip]
        BY <1>2, ResponseFields, Zenon DEF PmpDatagram
    <2>2. Fields12(d, 128, v.epoch, v.public_ip)
        <3>1. IsHeader(<<0, 128, 0, 0>>, 0, 128)
            BY <1>1, <1>4, Zenon
        <3>2. v.epoch \in Field(4) /\ v.public_ip \in Field(4)
            BY <1>2, ResponseFields
        <3> HIDE DEF d
        <3> QED BY <2>1, <3>1, <3>2, AddressPacket, Zenon
    <2> HIDE DEF d
    <2>3. NatPmpRecv(d) = NatPmpDecode(d)
        BY <2>2, Sizes DEF NatPmpRecv, Received, Fields12
    <2>4. NatPmpDecode(d) = Ok([t |-> "address", epoch |-> v.epoch, public_ip |-> v.public_ip])
        BY <1>1, <2>2, Sizes DEF NatPmpDecode, NatPmpVersion, IsResponse, RESPONSE_INDICATOR,
            NatPmpOpcode, NatPmpErrors, Fields12
    <2> QED BY <2>1, <2>2, <2>3, <2>4 DEF d, Fields12
<1>3. CASE v \in [t : {"map"}, proto : Protocols, epoch : Seconds, private_port : Ports,
                  external_port : Ports, lifetime : Seconds]
    <2> DEFINE x == IF v.proto = "udp" THEN 129 ELSE 130
    <2>1. /\ d = <<0, x, 0, 0>> \o v.epoch \o v.private_port \o v.external_port \o v.lifetime
          /\ v = [t |-> "map", proto |-> v.proto, epoch |-> v.epoch,
                  private_port |-> v.private_port, external_port |-> v.external_port,
                  lifetime |-> v.lifetime]
          /\ v.proto \in {"udp", "tcp"}
        BY <1>3, ResponseFields DEF PmpDatagram, Protocols
    <2>2. /\ x \in Byte /\ x \div 128 = 1 /\ x % 128 = (IF v.proto = "udp" THEN 1 ELSE 2)
        BY <1>1
    <2> HIDE DEF x
    <2>3. Fields16(d, x, v.epoch, v.private_port, v.external_port, v.lifetime)
        <3>1. IsHeader(<<0, x, 0, 0>>, 0, x)
            BY <1>4, <2>2, Zenon
        <3>2. /\ v.epoch \in Field(4) /\ v.private_port \in Field(2)
              /\ v.external_port \in Field(2) /\ v.lifetime \in Field(4)
            BY <1>3, ResponseFields, Zenon
        <3> HIDE DEF d
        <3> QED BY <2>1, <3>1, <3>2, MapPacket, Zenon
    <2> HIDE DEF d
    <2>4. NatPmpRecv(d) = NatPmpDecode(d)
        BY <2>3, Sizes DEF NatPmpRecv, Received, Fields16
    <2>5. NatPmpDecode(d) = decode_map(d, v.proto)
        <3>1. /\ Len(d) \in NatPmpMinSize..NatPmpMaxSize /\ d[1] = NatPmpVersion
              /\ IsResponse(d[2]) /\ 256 * d[3] + d[4] = 0 /\ ~ (0 > Len(NatPmpErrors))
            BY <2>2, <2>3, Sizes DEF Fields16, NatPmpVersion, IsResponse,
                RESPONSE_INDICATOR, NatPmpErrors
        <3>2. /\ ~ (d[2] % RESPONSE_INDICATOR > NatPmpOpcode.MapTcp)
              /\ d[2] % RESPONSE_INDICATOR # NatPmpOpcode.DetermineExternalAddress
              /\ d[2] % RESPONSE_INDICATOR = NatPmpOpcode.MapUdp <=> v.proto = "udp"
            BY <2>2, <2>3 DEF Fields16, RESPONSE_INDICATOR, NatPmpOpcode
        <3> QED BY <2>1, <3>1, <3>2, Zenon DEF NatPmpDecode
    <2>6. decode_map(d, v.proto) = Ok(v)
        BY <2>1, <2>3, Sizes, Zenon DEF decode_map, Fields16
    <2> QED BY <2>3, <2>4, <2>5, <2>6 DEF d, Fields16
<1> QED BY <1>2, <1>3 DEF PmpResponses

\* The data of MAP is decoded to what MapData::encode_into was given.
LEMMA MapDataUnderstood ==
    ASSUME NEW v \in MapDatas
    PROVE  /\ MapDataEncode(v) \in Datagram /\ Len(MapDataEncode(v)) = 36
           /\ MapDataDecode(MapDataEncode(v)) = Ok(v)
<1> DEFINE p == PcpProtocol[v.proto]
           a == v.nonce \o <<p>>
           b == a \o Zeros(3)
           c == b \o v.local_port
           e == c \o v.external_port
           d == e \o v.external_address
<1>1. /\ v = [t |-> "map", nonce |-> v.nonce, proto |-> v.proto,
              local_port |-> v.local_port, external_port |-> v.external_port,
              external_address |-> v.external_address]
      /\ v.proto \in {"udp", "tcp"}
    BY ResponseFields DEF Protocols
<1>0. /\ 1 \in Nat /\ 2 \in Nat /\ 3 \in Nat /\ 12 \in Nat /\ 13 \in Nat /\ 16 \in Nat
      /\ 18 \in Nat /\ 20 \in Nat /\ 36 \in Nat
      /\ 12 + 1 = 13 /\ 13 + 3 = 16 /\ 16 + 2 = 18 /\ 18 + 2 = 20 /\ 20 + 16 = 36
    OBVIOUS
<1>2. /\ v.nonce \in Datagram /\ Len(v.nonce) = 12
      /\ Zeros(3) \in Datagram /\ Len(Zeros(3)) = 3
      /\ v.local_port \in Datagram /\ Len(v.local_port) = 2
      /\ v.external_port \in Datagram /\ Len(v.external_port) = 2
      /\ v.external_address \in Datagram /\ Len(v.external_address) = 16
    <2>1. /\ v.nonce \in Field(12) /\ v.local_port \in Field(2) /\ v.external_port \in Field(2)
          /\ v.external_address \in Field(16)
        BY ResponseFields
    <2> QED BY <1>0, <2>1, FieldIsDatagram, Zenon
<1>3. /\ p \in {6, 17} /\ p \in Byte
      /\ \A o \in DOMAIN PcpProtocol : p = PcpProtocol[o] <=> o = v.proto
      /\ v.proto \in DOMAIN PcpProtocol
    BY <1>1 DEF PcpProtocol, Byte
<1> HIDE DEF p
<1>4. Joins(v.nonce, <<p>>, a, 12, 13) /\ a[13] = p
    <2>1. <<p>> \in Datagram /\ Len(<<p>>) = 1
        BY <1>3 DEF Datagram
    <2>2. Joins(v.nonce, <<p>>, a, 12, 13)
        BY <1>0, <1>2, <2>1, Joined, Zenon
    <2> HIDE DEF a
    <2> QED BY <2>2 DEF Joins
<1> HIDE DEF a
<1>5. Joins(a, Zeros(3), b, 13, 16)
    <2>1. a \in Datagram /\ Len(a) = 13
        BY <1>4 DEF Joins
    <2> QED BY <1>0, <1>2, <2>1, Joined, Zenon
<1> HIDE DEF b
<1>6. Joins(b, v.local_port, c, 16, 18)
    <2>1. b \in Datagram /\ Len(b) = 16
        BY <1>5 DEF Joins
    <2> QED BY <1>0, <1>2, <2>1, Joined, Zenon
<1> HIDE DEF c
<1>7. Joins(c, v.external_port, e, 18, 20)
    <2>1. c \in Datagram /\ Len(c) = 18
        BY <1>6 DEF Joins
    <2> QED BY <1>0, <1>2, <2>1, Joined, Zenon
<1> HIDE DEF e
<1>8. Joins(e, v.external_address, d, 20, 36)
    <2>1. e \in Datagram /\ Len(e) = 20
        BY <1>7 DEF Joins
    <2> QED BY <1>0, <1>2, <2>1, Joined, Zenon
<1>9. d = MapDataEncode(v)
    BY DEF MapDataEncode, d, e, c, b, a, p
<1> HIDE DEF d
<1>10. /\ d \in Datagram /\ Len(d) = 36 /\ d[13] = p
       /\ Bytes(d, 16, 18) = v.local_port /\ Bytes(d, 18, 20) = v.external_port
       /\ Bytes(d, 20, 36) = v.external_address /\ Bytes(d, 0, 12) = Bytes(v.nonce, 0, 12)
    <2>1. Bytes(a, 0, 12) = Bytes(v.nonce, 0, 12)
        BY <1>4 DEF Joins
    <2>2. b[13] = p /\ Bytes(b, 0, 12) = Bytes(v.nonce, 0, 12)
        BY <1>4, <1>5, <2>1 DEF Joins
    <2>3. /\ c[13] = p /\ Bytes(c, 0, 12) = Bytes(v.nonce, 0, 12)
          /\ Bytes(c, 16, 18) = v.local_port
        BY <1>6, <2>2 DEF Joins
    <2>4. /\ e[13] = p /\ Bytes(e, 0, 12) = Bytes(v.nonce, 0, 12)
          /\ Bytes(e, 16, 18) = v.local_port /\ Bytes(e, 18, 20) = v.external_port
        BY <1>7, <2>3 DEF Joins
    <2> QED BY <1>8, <2>4 DEF Joins
<1>11. Bytes(d, 0, 12) = v.nonce
    <2>2. Bytes(v.nonce, 0, 12) = v.nonce
        BY <1>2 DEF Bytes, Datagram
    <2> QED BY <1>10, <2>2
<1>12. (CHOOSE o \in DOMAIN PcpProtocol : d[13] = PcpProtocol[o]) = v.proto
    BY <1>3, <1>10, Zenon
<1>13. MapDataDecode(d) = Ok(v)
    <2>1. ~ (Len(d) < MapDataSize) /\ ~ (Len(d) - 20 # 16)
        BY <1>10 DEF MapDataSize
    <2>2. ~ \A o \in DOMAIN PcpProtocol : d[13] # PcpProtocol[o]
        BY <1>3, <1>10, Zenon
    <2> QED BY <1>1, <1>10, <1>11, <1>12, <2>1, <2>2, Zenon DEF MapDataDecode
<1> QED BY <1>9, <1>10, <1>13

\* A PCP response is decoded to what the gateway encoded.
LEMMA PcpUnderstood ==
    ASSUME NEW v \in PcpResponses
    PROVE  PcpDatagram(v) \in Datagram /\ PcpRecv(PcpDatagram(v)) = Ok(v)
<1> DEFINE x == IF v.data.t = "map" THEN 129 ELSE 128
           h == <<2, x, 0, 0>>
           z == EncodeInto(v.data)
           a == h \o v.lifetime
           b == a \o v.epoch
           c == b \o Zeros(12)
           d == c \o z
<1>1. /\ v = [lifetime |-> v.lifetime, epoch |-> v.epoch, data |-> v.data]
      /\ v.lifetime \in Field(4) /\ v.epoch \in Field(4)
      /\ v.data \in MapDatas \/ v.data = [t |-> "announce"]
    BY FieldsAssumption DEF PcpResponses
<1>2. /\ x \in Byte /\ x \div 128 = 1 /\ x % 128 = (IF v.data.t = "map" THEN 1 ELSE 0)
    BY DEF Byte
<1> HIDE DEF x
<1>3. /\ z \in Datagram /\ Len(z) \in {0, 36}
      /\ OpcodeDataDecode(x % 128, z) = Ok(v.data)
    <2>1. CASE v.data \in MapDatas
        <3>1. v.data.t = "map"
            BY <2>1, ResponseFields
        <3>2. z = MapDataEncode(v.data)
            BY <3>1 DEF EncodeInto
        <3>3. OpcodeDataDecode(x % 128, z) = MapDataDecode(z)
            BY <1>2, <3>1 DEF OpcodeDataDecode, PcpOpcode
        <3> QED BY <2>1, <3>2, <3>3, MapDataUnderstood
    <2>2. CASE v.data = [t |-> "announce"]
        <3>1. v.data.t = "announce" /\ x % 128 = 0
            BY <1>2, <2>2
        <3>2. z = <<>> /\ z \in Datagram /\ Len(z) = 0
            BY <3>1 DEF EncodeInto, Datagram
        <3> QED BY <2>2, <3>1, <3>2 DEF OpcodeDataDecode, PcpOpcode
    <2> QED BY <1>1, <2>1, <2>2
<1> HIDE DEF z
<1>4. IsHeader(h, 2, x)
    <2>1. 2 \in Byte
        BY DEF Byte
    <2> QED BY <1>2, <2>1, Header, Zenon
<1>5. /\ v.lifetime \in Datagram /\ Len(v.lifetime) = 4
      /\ v.epoch \in Datagram /\ Len(v.epoch) = 4
      /\ Zeros(12) \in Datagram /\ Len(Zeros(12)) = 12
    <2>1. 4 \in Nat /\ 12 \in Nat
        OBVIOUS
    <2> QED BY <1>1, <2>1, FieldIsDatagram, Zenon
<1> HIDE DEF h
<1>6. Joins(h, v.lifetime, a, 4, 8)
    <2>1. h \in Datagram /\ Len(h) = 4
        BY <1>4, Zenon DEF IsHeader
    <2>2. v.lifetime \in Datagram /\ Len(v.lifetime) = 4
        BY <1>5, Zenon
    <2>3. 4 \in Nat /\ 8 \in Nat /\ 4 + 4 = 8
        OBVIOUS
    <2> QED BY <2>1, <2>2, <2>3, Joined, Zenon
<1> HIDE DEF a
<1>7. Joins(a, v.epoch, b, 8, 12)
    <2>1. a \in Datagram /\ Len(a) = 8
        BY <1>6 DEF Joins
    <2>2. v.epoch \in Datagram /\ Len(v.epoch) = 4
        BY <1>5, Zenon
    <2>3. 4 \in Nat /\ 8 \in Nat /\ 12 \in Nat /\ 8 + 4 = 12
        OBVIOUS
    <2> QED BY <2>1, <2>2, <2>3, Joined, Zenon
<1> HIDE DEF b
<1>8. Joins(b, Zeros(12), c, 12, 24)
    <2>1. b \in Datagram /\ Len(b) = 12
        BY <1>7 DEF Joins
    <2>2. Zeros(12) \in Datagram /\ Len(Zeros(12)) = 12
        BY <1>5, Zenon
    <2>3. 12 \in Nat /\ 24 \in Nat /\ 12 + 12 = 24
        OBVIOUS
    <2> QED BY <2>1, <2>2, <2>3, Joined, Zenon
<1> HIDE DEF c
<1>9. PICK n \in {24, 60} : Joins(c, z, d, 24, n)
    <2>0. z \in Datagram /\ Len(z) \in {0, 36}
        BY <1>3, Zenon
    <2>1. c \in Datagram /\ Len(c) = 24
        BY <1>8 DEF Joins
    <2>2. \A l, n \in Nat : Len(z) = l /\ 24 + l = n => Joins(c, z, d, 24, n)
        <3>1. 24 \in Nat
            OBVIOUS
        <3> QED BY <2>0, <2>1, <3>1, Joined, Zenon
    <2> HIDE DEF d
    <2>3. \A l \in {0, 36} : l \in Nat /\ 24 + l \in Nat /\ 24 + l \in {24, 60}
        OBVIOUS
    <2>4. Joins(c, z, d, 24, 24 + Len(z))
        <3>1. Len(z) \in Nat /\ 24 + Len(z) \in Nat
            BY <2>0, <2>3, Zenon
        <3> QED BY <2>2, <3>1, Zenon
    <2>5. 24 + Len(z) \in {24, 60}
        BY <2>0, <2>3, Zenon
    <2> QED BY <2>4, <2>5, Zenon
<1>10. d = PcpDatagram(v)
    BY DEF PcpDatagram, d, c, b, a, h, x, z
<1> HIDE DEF d
<1>11. /\ d \in Datagram /\ Len(d) = n /\ d[1] = 2 /\ d[2] = x /\ d[4] = 0
    BY <1>4, <1>6, <1>7, <1>8, <1>9 DEF Joins, IsHeader
<1>12. /\ Bytes(d, 4, 8) = v.lifetime /\ Bytes(d, 8, 12) = v.epoch
       /\ Bytes(d, 24, Len(d)) = z
    BY <1>6, <1>7, <1>8, <1>9, SMTT(20) DEF Joins
<1>13. PcpRecv(d) = PcpDecode(d)
    <2>1. ~ (Len(d) > PcpMaxSize)
        BY <1>9, <1>11, Sizes
    <2> QED BY <2>1, Zenon DEF PcpRecv, Received
<1>14. PcpDecode(d) = Ok([lifetime |-> v.lifetime, epoch |-> v.epoch, data |-> v.data])
    <2>1. /\ Len(d) \in PcpMinSize..PcpMaxSize /\ d[1] = PcpVersion /\ IsResponse(d[2])
          /\ ~ (d[2] % RESPONSE_INDICATOR > PcpOpcode.Map) /\ ~ (d[4] > PcpMaxErrorCode)
          /\ ~ (d[4] # 0)
        <3>1. Len(d) \in PcpMinSize..PcpMaxSize
            BY <1>9, <1>11, Sizes
        <3> QED BY <1>2, <1>11, <3>1 DEF PcpVersion, IsResponse, RESPONSE_INDICATOR,
                PcpOpcode, PcpMaxErrorCode
    <2>2. OpcodeDataDecode(d[2] % RESPONSE_INDICATOR, Bytes(d, 24, Len(d))) = Ok(v.data)
        BY <1>3, <1>11, <1>12 DEF RESPONSE_INDICATOR
    <2>3. Ok(v.data).r = "ok" /\ Ok(v.data).v = v.data
        BY DEF Ok
    <2> QED BY <1>12, <2>1, <2>2, <2>3, Zenon DEF PcpDecode
<1> QED BY <1>1, <1>10, <1>11, <1>13, <1>14

\* The second byte, the opcode's, stays what it is when fields are added.
Begins(d, x) == d \in Datagram /\ Len(d) >= 4 /\ d[2] = x

LEMMA Continued ==
    ASSUME NEW a \in Datagram, NEW b \in Datagram
    PROVE  /\ a \o b \in Datagram
           /\ \A x : Begins(a, x) => Begins(a \o b, x)
    BY DEF Begins, Datagram

\* A field of this client's requests, absent ones included, is a datagram.
LEMMA FieldsAreDatagrams ==
    /\ \A f \in Ports \cup Seconds \cup Ips \cup Addresses \cup MapNonces : f \in Datagram
    /\ \A n \in Nat : Zeros(n) \in Datagram
    /\ \A f \in Datagram : Mapped(f) \in Datagram
<1>1. 2 \in Nat /\ 4 \in Nat /\ 10 \in Nat /\ 12 \in Nat /\ 16 \in Nat
    OBVIOUS
<1>2. \A f \in Ports \cup Seconds \cup Ips \cup Addresses \cup MapNonces : f \in Datagram
    BY <1>1, FieldsAssumption, FieldIsDatagram, Zenon
<1>3. \A n \in Nat : Zeros(n) \in Datagram
    BY FieldIsDatagram, Zenon
<1>4. <<255, 255>> \in Datagram
    BY DEF Datagram, Byte
<1>5. \A f \in Datagram : Mapped(f) \in Datagram
    <2>1. Zeros(10) \in Datagram
        BY <1>1, <1>3, Zenon
    <2>2. Zeros(10) \o <<255, 255>> \in Datagram
        BY <1>4, <2>1, Continued, Zenon
    <2> QED BY <2>2, Continued, Zenon DEF Mapped
<1> QED BY <1>2, <1>3, <1>5, Zenon

LEMMA PcpRequestBegins ==
    ASSUME NEW q, q.lifetime \in Datagram, q.client_addr \in Datagram,
           EncodeInto(q.data) \in Datagram
    PROVE  \E x \in 0..127 : Begins(PcpEncode(q), x)
<1> DEFINE x == IF q.data.t = "announce" THEN 0 ELSE 1
           h == <<2, x, 0, 0>>
<1>1. x \in 0..127 /\ h \in Datagram /\ Begins(h, x)
    BY DEF Begins, Datagram, Byte
<1>2. PcpEncode(q) = h \o q.lifetime \o q.client_addr \o EncodeInto(q.data)
    BY Zenon DEF PcpEncode, PcpVersion, PcpOpcode
<1> HIDE DEF h, x
<1>3. h \o q.lifetime \in Datagram /\ Begins(h \o q.lifetime, x)
    BY <1>1, Continued, Zenon
<1>4. /\ h \o q.lifetime \o q.client_addr \in Datagram
      /\ Begins(h \o q.lifetime \o q.client_addr, x)
    BY <1>3, Continued, Zenon
<1>5. Begins(PcpEncode(q), x)
    BY <1>2, <1>4, Continued, Zenon
<1> QED BY <1>1, <1>5

\* The requests of this client are datagrams without the response bit.
LEMMA RequestsAreNot ==
    ASSUME NEW d \in Requests
    PROVE  d \in Datagram /\ d[2] \div 128 # 1
<1>1. ASSUME \E x \in 0..127 : Begins(d, x) PROVE d \in Datagram /\ d[2] \div 128 # 1
    BY <1>1 DEF Begins
<1>2. CASE d = ExternalAddressEncode
    <2>1. d = <<0, 0>>
        BY <1>2 DEF ExternalAddressEncode, NatPmpVersion, NatPmpOpcode
    <2> QED BY <2>1 DEF Datagram, Byte
<1>3. CASE \E q \in [proto : Protocols, local_port : Ports, external_port : Ports,
                     lifetime : Seconds] : d = MappingEncode(q)
    <2>1. PICK q \in [proto : Protocols, local_port : Ports, external_port : Ports,
                      lifetime : Seconds] : d = MappingEncode(q)
        BY <1>3
    <2> DEFINE x == IF q.proto = "udp" THEN 1 ELSE 2
               h == <<0, x, 0, 0>>
    <2>2. x \in 0..127 /\ h \in Datagram /\ Begins(h, x)
        BY DEF Begins, Datagram, Byte
    <2>3. d = h \o q.local_port \o q.external_port \o q.lifetime
        BY <2>1 DEF MappingEncode, NatPmpVersion, NatPmpOpcode
    <2>4. q.local_port \in Datagram /\ q.external_port \in Datagram /\ q.lifetime \in Datagram
        BY <2>1, FieldsAreDatagrams
    <2> HIDE DEF h, x
    <2>5. h \o q.local_port \in Datagram /\ Begins(h \o q.local_port, x)
        BY <2>2, <2>4, Continued, Zenon
    <2>6. /\ h \o q.local_port \o q.external_port \in Datagram
          /\ Begins(h \o q.local_port \o q.external_port, x)
        BY <2>4, <2>5, Continued, Zenon
    <2>7. Begins(d, x)
        BY <2>3, <2>4, <2>6, Continued, Zenon
    <2> QED BY <1>1, <2>2, <2>7
<1>4. CASE \E a \in Addresses : d = PcpEncode(PcpAnnounce(a))
    <2>1. PICK a \in Addresses : d = PcpEncode(PcpAnnounce(a))
        BY <1>4
    <2> DEFINE q == PcpAnnounce(a)
    <2>2. /\ q.lifetime = Zeros(4) /\ q.client_addr = a /\ EncodeInto(q.data) = <<>>
          /\ <<>> \in Datagram
        BY DEF PcpAnnounce, EncodeInto, Datagram
    <2>3. q.lifetime \in Datagram /\ q.client_addr \in Datagram /\ EncodeInto(q.data) \in Datagram
        BY <2>2, FieldsAreDatagrams
    <2> QED BY <1>1, <2>1, <2>3, PcpRequestBegins
<1>5. CASE \E n \in MapNonces, p \in Protocols, local \in Ports, ip \in Ips,
              port \in Ports \cup {<<>>}, ext \in Ips \cup {<<>>}, lifetime \in Seconds :
                 d = PcpEncode(PcpMapping(n, p, local, ip, port, ext, lifetime))
    <2>1. PICK n \in MapNonces, p \in Protocols, local \in Ports, ip \in Ips,
               port \in Ports \cup {<<>>}, ext \in Ips \cup {<<>>}, lifetime \in Seconds :
                  d = PcpEncode(PcpMapping(n, p, local, ip, port, ext, lifetime))
        BY <1>5
    <2> DEFINE q == PcpMapping(n, p, local, ip, port, ext, lifetime)
               eport == IF port = <<>> THEN Zeros(2) ELSE port
               eip == IF ext = <<>> THEN Zeros(4) ELSE ext
               pr == PcpProtocol[p]
    <2>2. /\ q.lifetime = lifetime /\ q.client_addr = Mapped(ip)
          /\ EncodeInto(q.data) = n \o <<pr>> \o Zeros(3) \o local \o eport \o Mapped(eip)
        BY Zenon DEF PcpMapping, EncodeInto, MapDataEncode
    <2>3. n \in Datagram /\ local \in Datagram /\ lifetime \in Datagram /\ ip \in Datagram
        BY FieldsAreDatagrams
    <2>4. eport \in Datagram /\ eip \in Datagram /\ Zeros(3) \in Datagram
        BY FieldsAreDatagrams
    <2>5. Mapped(ip) \in Datagram /\ Mapped(eip) \in Datagram
        BY <2>3, <2>4, FieldsAreDatagrams, Zenon
    <2>6. <<pr>> \in Datagram
        <3>1. pr \in Byte
            <4>1. p = "udp" \/ p = "tcp"
                BY DEF Protocols
            <4>2. PcpProtocol["udp"] \in Byte /\ PcpProtocol["tcp"] \in Byte
                BY DEF PcpProtocol, Byte
            <4> QED BY <4>1, <4>2
        <3> HIDE DEF pr
        <3> QED BY <3>1 DEF Datagram
    <2> HIDE DEF eport, eip, pr
    <2>7. n \o <<pr>> \o Zeros(3) \o local \o eport \o Mapped(eip) \in Datagram
        BY <2>3, <2>4, <2>5, <2>6, Continued, Zenon
    <2>8. q.lifetime \in Datagram /\ q.client_addr \in Datagram /\ EncodeInto(q.data) \in Datagram
        BY <2>2, <2>3, <2>5, <2>7, Zenon
    <2> HIDE DEF q
    <2>9. \E x \in 0..127 : Begins(PcpEncode(q), x)
        BY <2>8, PcpRequestBegins, Zenon
    <2> QED BY <1>1, <2>1, <2>9, Zenon DEF q
<1> QED BY <1>2, <1>3, <1>4, <1>5 DEF Requests

-----------------------------------------------------------------------------
(* The codecs at work.                                                     *)

\* What is decoded, and the answer when there is one.
Answered ==
    /\ input.kind \in PacketKinds =>
          /\ input.d \in Datagram
          /\ output \in {Pending, [pmp |-> NatPmpRecv(input.d), pcp |-> PcpRecv(input.d)]}
    /\ input.kind = "request" => input.d[2] \div 128 # 1
    /\ input.kind = "pmp" => NatPmpRecv(input.d) = Ok(input.v)
    /\ input.kind = "pcp" => PcpRecv(input.d) = Ok(input.v)
    /\ input.kind = "map" =>
          /\ input.v \in MapDatas
          /\ output \in {Pending,
                [decoded |-> OpcodeDataDecode(PcpOpcode.Map, MapDataEncode(input.v))]}

LEMMA AlwaysAnswered == PacketSpec => []Answered
<1>1. PacketInit /\ output = Pending => Answered
    <2> SUFFICES ASSUME PacketInit, output = Pending PROVE Answered
        OBVIOUS
    <2>1. ASSUME NEW d \in Datagrams, input = [kind |-> "packet", d |-> d] PROVE Answered
        <3>1. d \in Datagram
            BY FieldsAssumption DEF Datagram
        <3> QED BY <2>1, <3>1 DEF Answered, PacketKinds
    <2>2. ASSUME NEW d \in Requests, input = [kind |-> "request", d |-> d] PROVE Answered
        <3>1. d \in Datagram /\ d[2] \div 128 # 1
            BY RequestsAreNot
        <3> QED BY <2>2, <3>1 DEF Answered, PacketKinds
    <2>3. ASSUME NEW v \in PmpResponses,
                 input = [kind |-> "pmp", v |-> v, d |-> PmpDatagram(v)]
          PROVE  Answered
        <3>1. input.kind = "pmp" /\ input.v = v /\ input.d = PmpDatagram(v)
            BY <2>3
        <3>2. input.d \in Datagram /\ NatPmpRecv(input.d) = Ok(input.v)
            BY <3>1, PmpUnderstood
        <3> QED BY <3>1, <3>2 DEF Answered
    <2>4. ASSUME NEW v \in PcpResponses,
                 input = [kind |-> "pcp", v |-> v, d |-> PcpDatagram(v)]
          PROVE  Answered
        <3>1. input.kind = "pcp" /\ input.v = v /\ input.d = PcpDatagram(v)
            BY <2>4
        <3>2. input.d \in Datagram /\ PcpRecv(input.d) = Ok(input.v)
            BY <3>1, PcpUnderstood
        <3> QED BY <3>1, <3>2 DEF Answered
    <2>5. ASSUME NEW v \in MapDatas, input = [kind |-> "map", v |-> v] PROVE Answered
        BY <2>5 DEF Answered, PacketKinds
    <2> QED BY <2>1, <2>2, <2>3, <2>4, <2>5 DEF PacketInit
<1>2. Answered /\ [Decode \/ EncodeMapData]_vars => Answered'
    <2> SUFFICES ASSUME Answered, [Decode \/ EncodeMapData]_vars PROVE Answered'
        OBVIOUS
    <2>1. /\ input' = input
          /\ \/ output' = output
             \/ /\ input.kind \in PacketKinds
                /\ output' = [pmp |-> NatPmpRecv(input.d), pcp |-> PcpRecv(input.d)]
             \/ /\ input.kind = "map"
                /\ output' = [decoded |-> OpcodeDataDecode(PcpOpcode.Map,
                                                           MapDataEncode(input.v))]
        BY DEF Decode, EncodeMapData, Compute, vars
    <2>2. "map" \notin PacketKinds
        BY DEF PacketKinds
    <2> QED BY <2>1, <2>2 DEF Answered
<1> QED BY <1>1, <1>2, PTL DEF PacketSpec

\* What a gateway answers reaches the client unchanged, for all values of all
\* fields: Response::decode and MapData::decode invert the encoding.
THEOREM GatewayUnderstood == PacketSpec => []PacketsUnderstood
<1>1. Answered => PacketsUnderstood
    <2> SUFFICES ASSUME Answered PROVE PacketsUnderstood
        OBVIOUS
    <2>1. Done("pmp") => output.pmp = Ok(input.v)
        BY DEF Answered, Done, PacketKinds
    <2>2. Done("pcp") => output.pcp = Ok(input.v)
        BY DEF Answered, Done, PacketKinds
    <2>3. Done("map") => output.decoded = Ok(input.v)
        <3>1. OpcodeDataDecode(PcpOpcode.Map, MapDataEncode(input.v)) =
                 MapDataDecode(MapDataEncode(input.v))
            BY DEF OpcodeDataDecode, PcpOpcode
        <3>2. input.v \in MapDatas => MapDataDecode(MapDataEncode(input.v)) = Ok(input.v)
            BY MapDataUnderstood
        <3> QED BY <3>1, <3>2 DEF Answered, Done
    <2> QED BY <2>1, <2>2, <2>3 DEF PacketsUnderstood
<1> QED BY <1>1, AlwaysAnswered, PTL

\* No datagram is accepted by the sockets of both protocols, and no request of
\* this client by either.
THEOREM ProtocolsNeverMixed == PacketSpec => []ProtocolsApart
<1>1. Answered => ProtocolsApart
    <2> SUFFICES ASSUME Answered PROVE ProtocolsApart
        OBVIOUS
    <2>1. ASSUME NEW kind \in PacketKinds, Done(kind)
          PROVE  ~ (output.pmp.r = "ok" /\ output.pcp.r = "ok")
        BY <2>1, NeverBoth DEF Answered, Done
    <2>2. Done("request") => output.pmp.r # "ok" /\ output.pcp.r # "ok"
        BY NeverBoth DEF Answered, Done, PacketKinds
    <2> QED BY <2>1, <2>2 DEF ProtocolsApart
<1> QED BY <1>1, AlwaysAnswered, PTL

\* The expects of the decoders hold for every datagram, except for the one on
\* the external address of a successful MAP response longer than 60 bytes.
THEOREM ExpectsHold == PacketSpec => []PanicsOnlyOnOptions
<1>1. Answered => PanicsOnlyOnOptions
    <2> SUFFICES ASSUME Answered, NEW kind \in PacketKinds, Done(kind)
                 PROVE  /\ output.pmp.r # "panic"
                        /\ output.pcp.r = "panic" <=>
                              /\ Len(input.d) > 60 /\ input.d[1] = 2 /\ input.d[2] = 129
                              /\ input.d[4] = 0 /\ input.d[37] \in {6, 17}
        BY DEF PanicsOnlyOnOptions
    <2>1. /\ input.d \in Datagram
          /\ output.pmp = NatPmpRecv(input.d) /\ output.pcp = PcpRecv(input.d)
        BY DEF Answered, Done
    <2> QED BY <2>1, PanicsExactly
<1> QED BY <1>1, AlwaysAnswered, PTL

-----------------------------------------------------------------------------
(* The routing information base.                                           *)

\* A set of numbers that is not empty has a least one.
LEMMA LeastNumber ==
    ASSUME NEW T \in SUBSET Nat, T # {}
    PROVE  \E x \in T : \A y \in T : x <= y
<1>1. \E x \in T : \A y \in T : ~ (<<y, x>> \in OpToRel(<, Nat))
    <2> DEFINE less == OpToRel(<, Nat)
    <2>1. IsWellFoundedOn(less, Nat)
        BY NatLessThanWellFounded
    <2> HIDE DEF less
    <2>2. \E x \in T : \A y \in T : ~ (<<y, x>> \in less)
        BY <2>1, WFMin, Zenon
    <2> QED BY <2>2 DEF less
<1>2. \A x, y \in Nat : <<y, x>> \in OpToRel(<, Nat) <=> y < x
    BY DEF OpToRel
<1>3. \E x \in T : \A y \in T : ~ (y < x)
    BY <1>1, <1>2, Zenon
<1> QED BY <1>3

-----------------------------------------------------------------------------
(* Bytes.                                                                  *)

\* A range from zero, for a bound that is not a numeral.
LEMMA RangeIs ==
    ASSUME NEW n \in Nat
    PROVE  \A x : x \in 0..n <=> x \in Nat /\ x <= n
    OBVIOUS

\* A byte, by its bounds.
LEMMA ByteIs == \A x : x \in Byte <=> x \in Nat /\ x <= 255
<1>1. 255 \in Nat
    OBVIOUS
<1> QED BY <1>1, RangeIs, Zenon DEF Byte

\* A byte of a name.
LEMMA CharIs == \A x : x \in Char <=> x \in Nat /\ x <= 127
<1>1. 127 \in Nat
    OBVIOUS
<1> QED BY <1>1, RangeIs, Zenon DEF Char

\* A u16.
LEMMA WordIs == \A x : x \in Word <=> x \in Nat /\ x <= 65535
    BY DEF Word

\* A sequence of n bytes is an array of n bytes.
LEMMA ArrayIs ==
    ASSUME NEW n \in Nat
    PROVE  \A s : s \in [1..n -> Byte] <=> s \in Seq(Byte) /\ Len(s) = n
    OBVIOUS

\* An index within a buffer gives a byte.
LEMMA ByteAt ==
    ASSUME NEW b \in Seq(Byte), NEW k \in 1..Len(b)
    PROVE  b[k] \in Byte /\ b[k] \in Nat /\ b[k] <= 255
<1>1. b[k] \in Byte
    OBVIOUS
<1> QED BY <1>1, ByteIs

\* b[i..j] where the slice is within b.
LEMMA SliceFacts ==
    ASSUME NEW b \in Seq(Byte), NEW i \in Nat, NEW j \in Nat, i <= j, j <= Len(b)
    PROVE  /\ Slice(b, i, j) \in Seq(Byte) /\ Len(Slice(b, i, j)) = j - i
           /\ \A k \in 1..(j - i) : Slice(b, i, j)[k] = b[i + k]
    BY DEF Slice

\* b[n..] where n is within b.
LEMMA DropFacts ==
    ASSUME NEW b \in Seq(Byte), NEW n \in Nat, n <= Len(b)
    PROVE  /\ Drop(b, n) \in Seq(Byte) /\ Len(Drop(b, n)) = Len(b) - n
           /\ \A k \in 1..(Len(b) - n) : Drop(b, n)[k] = b[n + k]
    BY DEF Drop

\* Two bytes make a u16.
LEMMA U16Range ==
    ASSUME NEW b \in Seq(Byte), NEW i \in Nat, i + 2 <= Len(b)
    PROVE  u16(b, i) \in Word /\ u16(b, i) \in Nat
<1>1. /\ b[i + 1] \in Nat /\ b[i + 1] <= 255
      /\ b[i + 2] \in Nat /\ b[i + 2] <= 255
    BY ByteAt
<1>2. u16(b, i) \in Nat /\ u16(b, i) <= 65535
    BY <1>1, SMTT(20) DEF u16
<1> QED BY <1>2, WordIs

-----------------------------------------------------------------------------
(* The platforms.                                                          *)

\* The header of a format is at least as long as the fields read from it.
HeaderHolds(stack, w) ==
    /\ w.typ \in InterfaceTypes \cup {"Route", "InterfaceAnnounce"}
    /\ w.body_off \in Nat /\ w.body_off >= 16
    /\ w.typ = "InterfaceAnnounce" => w.body_off >= 22
    /\ w.typ = "InterfaceAddr" /\ stack.netbsd => w.body_off >= 18

IsStack(stack) ==
    /\ stack.rtax_max \in Nat
    /\ stack.kernel_align \in {4, 8}
    /\ \A w \in stack.wire_formats : HeaderHolds(stack, w)

\* Each platform's headers are long enough for what parse reads from them.
LEMMA StacksAre ==
    ASSUME NEW name \in DOMAIN Stacks
    PROVE  IsStack(Stacks[name])
<1>1. name \in {"macos", "freebsd", "netbsd"}
    BY DEF Stacks
<1>2. CASE name = "macos"
    <2>1. Stacks[name] = macos
        BY <1>2 DEF Stacks
    <2>2. \A w \in macos.wire_formats : HeaderHolds(macos, w)
        BY DEF macos, HeaderHolds, Formats, InterfaceTypes
    <2>3. macos.rtax_max \in Nat /\ macos.kernel_align \in {4, 8}
        BY DEF macos
    <2> QED BY <2>1, <2>2, <2>3, Zenon DEF IsStack
<1>3. CASE name = "freebsd"
    <2>1. Stacks[name] = freebsd
        BY <1>3 DEF Stacks
    <2>2. \A w \in freebsd.wire_formats : HeaderHolds(freebsd, w)
        BY DEF freebsd, HeaderHolds, Formats, InterfaceTypes
    <2>3. freebsd.rtax_max \in Nat /\ freebsd.kernel_align \in {4, 8}
        BY DEF freebsd
    <2> QED BY <2>1, <2>2, <2>3, Zenon DEF IsStack
<1>4. CASE name = "netbsd"
    <2>1. Stacks[name] = netbsd
        BY <1>4 DEF Stacks
    <2>2. \A w \in netbsd.wire_formats : HeaderHolds(netbsd, w)
        BY DEF netbsd, HeaderHolds, Formats, InterfaceTypes
    <2>3. netbsd.rtax_max \in Nat /\ netbsd.kernel_align \in {4, 8}
        BY DEF netbsd
    <2> QED BY <2>1, <2>2, <2>3, Zenon DEF IsStack
<1> QED BY <1>1, <1>2, <1>3, <1>4

\* roundup never gives less than it was given, nor less than four.
LEMMA RoundupFacts ==
    ASSUME NEW stack, IsStack(stack), NEW l \in Nat
    PROVE  roundup(stack, l) \in Nat /\ roundup(stack, l) >= l /\ roundup(stack, l) >= 4
<1>1. CASE stack.kernel_align = 4
    BY <1>1 DEF roundup
<1>2. CASE stack.kernel_align = 8
    BY <1>2 DEF roundup
<1> QED BY <1>1, <1>2 DEF IsStack

-----------------------------------------------------------------------------
(* Addresses.                                                              *)

RouteError == {"InvalidAddress", "InvalidMessage", "MessageTooShort"}
IsResult(a) == a \in [r : {"err"}, v : RouteError] \cup [r : {"ok"}, v : Addr]

\* Each error of the parser is a result.
LEMMA ErrIsResult == \A e \in RouteError : IsResult(Err(e))
    BY DEF Err, IsResult

\* An IPv4 address of four bytes.
LEMMA Inet4IsResult ==
    ASSUME NEW ip \in Seq(Byte), Len(ip) = 4
    PROVE  IsResult(Ok(Inet4(ip)))
<1>1. ip \in [1..4 -> Byte]
    BY ArrayIs
<1> QED BY <1>1 DEF Inet4, Ok, IsResult, Addr

\* An IPv6 address of sixteen bytes.
LEMMA Inet6IsResult ==
    ASSUME NEW ip \in Seq(Byte), Len(ip) = 16
    PROVE  IsResult(Ok(Inet6(ip)))
<1>1. ip \in [1..16 -> Byte]
    BY ArrayIs, Zenon
<1> QED BY <1>1 DEF Inet6, Ok, IsResult, Addr

\* parse_inet_addr compares the length with all it reads.
LEMMA InetAddr ==
    ASSUME NEW b \in Seq(Byte), Len(b) >= 4
    PROVE  IsResult(parse_inet_addr(b))
<1>1. ASSUME Len(b) >= 16 PROVE IsResult(Ok(Inet4(Slice(b, 4, 8))))
    <2>1. Slice(b, 4, 8) \in Seq(Byte) /\ Len(Slice(b, 4, 8)) = 4
        BY <1>1 DEF Slice
    <2> QED BY <2>1, Inet4IsResult
<1>2. ASSUME Len(b) >= 28 PROVE IsResult(Ok(Inet6(WithoutZone(Slice(b, 8, 24)))))
    <2> DEFINE oc == Slice(b, 8, 24)
    <2>1. oc \in Seq(Byte) /\ Len(oc) = 16
        BY <1>2, SMTT(20) DEF Slice
    <2> HIDE DEF oc
    <2>2. [oc EXCEPT ![3] = 0, ![4] = 0] \in Seq(Byte) /\ Len([oc EXCEPT ![3] = 0, ![4] = 0]) = 16
        <3>1. 0 \in Byte
            BY ByteIs
        <3>2. oc \in [1..16 -> Byte]
            BY <2>1, ArrayIs, Zenon
        <3>3. [oc EXCEPT ![3] = 0, ![4] = 0] \in [1..16 -> Byte]
            BY <3>1, <3>2
        <3> QED BY <3>3, ArrayIs, Zenon
    <2>3. WithoutZone(oc) \in Seq(Byte) /\ Len(WithoutZone(oc)) = 16
        BY <2>1, <2>2 DEF WithoutZone
    <2> QED BY <2>3, Inet6IsResult DEF oc
<1> QED BY <1>1, <1>2, ErrIsResult
        DEF RouteError, parse_inet_addr, SIZEOF_SOCKADDR_INET, SIZEOF_SOCKADDR_INET6

\* The bytes of an address in kernel form, where the length is within the buffer.
LEMMA Octets ==
    ASSUME NEW b \in Seq(Byte), NEW l \in Nat, l >= 1, l <= Len(b)
    PROVE  IsResult(KernelOctets(b, l))
<1>1. CASE l - 1 < 4
    <2> DEFINE s == Slice(b, 1, l)
               z == [k \in 1..(5 - l) |-> 0]
    <2>1. s \in Seq(Byte) /\ Len(s) = l - 1
        BY SliceFacts
    <2>2. z \in Seq(Byte) /\ Len(z) = 5 - l
        <3>1. 0 \in Byte
            BY ByteIs
        <3> QED BY <1>1, <3>1
    <2> HIDE DEF s, z
    <2>3. s \o z \in Seq(Byte) /\ Len(s \o z) = 4
        BY <2>1, <2>2
    <2>4. IsResult(Ok(Inet4(s \o z)))
        BY <2>3, Inet4IsResult, Zenon
    <2>5. KernelOctets(b, l) = Ok(Inet4(s \o z))
        BY <1>1 DEF KernelOctets, s, z
    <2> QED BY <2>4, <2>5
<1>2. CASE ~ (l - 1 < 4)
    <2>1. Slice(b, l - 4, l) \in Seq(Byte) /\ Len(Slice(b, l - 4, l)) = 4
        BY <1>2 DEF Slice
    <2> QED BY <1>2, <2>1, Inet4IsResult DEF KernelOctets
<1> QED BY <1>1, <1>2

\* The length of an address in kernel form is never zero.
LEMMA KernelLengthFacts ==
    ASSUME NEW stack, IsStack(stack), NEW b \in Seq(Byte), Len(b) >= 4
    PROVE  /\ KernelLength(stack, b) \in Nat /\ KernelLength(stack, b) >= 1
           /\ KernelLength(stack, b) <= Len(b) =>
                 b[1] <= Len(b) /\ (b[1] = 0 => roundup(stack, b[1]) <= Len(b))
<1>1. b[1] \in Nat /\ Len(b) \in Nat
    BY ByteAt
<1>2. /\ roundup(stack, b[1]) \in Nat /\ roundup(stack, b[1]) >= b[1]
      /\ roundup(stack, b[1]) >= 4
    BY <1>1, RoundupFacts, Zenon
<1> QED BY <1>1, <1>2 DEF KernelLength

\* parse_kernel_inet_addr: the length is never zero where it is subtracted from.
LEMMA KernelInetAddr ==
    ASSUME NEW stack, IsStack(stack), NEW b \in Seq(Byte), Len(b) >= 4
    PROVE  IsResult(parse_kernel_inet_addr(stack, b))
<1> DEFINE l == KernelLength(stack, b)
<1>1. l \in Nat /\ l >= 1
    BY KernelLengthFacts
<1>2. ASSUME Len(b) >= 24 PROVE IsResult(Ok(Inet6(Slice(b, 8, 24))))
    <2>1. Slice(b, 8, 24) \in Seq(Byte) /\ Len(Slice(b, 8, 24)) = 16
        BY <1>2 DEF Slice
    <2> QED BY <2>1, Inet6IsResult
<1>3. ASSUME Len(b) >= 8 PROVE IsResult(Ok(Inet4(Slice(b, 4, 8))))
    <2>1. Slice(b, 4, 8) \in Seq(Byte) /\ Len(Slice(b, 4, 8)) = 4
        BY <1>3 DEF Slice
    <2> QED BY <2>1, Inet4IsResult
<1> HIDE DEF l
<1>4. ASSUME l <= Len(b) PROVE IsResult(KernelOctets(b, l))
    BY <1>1, <1>4, Octets
<1> QED BY <1>1, <1>2, <1>3, <1>4, ErrIsResult DEF RouteError, parse_kernel_inet_addr, l

\* parse_kernel_link_addr: the name is within the buffer, whatever the lengths say.
LEMMA KernelLinkAddr ==
    ASSUME NEW b \in Seq(Byte), Len(b) >= 4
    PROVE  IsResult(parse_kernel_link_addr(b))
<1> DEFINE length(n) == IF n = 255 THEN 0 ELSE n
           name == Slice(b, 4, 4 + length(b[2]))
<1>1. \A k \in 2..4 : length(b[k]) \in Nat
    BY ByteAt
<1>2. ASSUME Len(b) >= 4 + length(b[2]) + length(b[3]) + length(b[4]),
             ~ \E k \in DOMAIN name : name[k] > 127
      PROVE  IsResult(Ok([t |-> "link", name |-> name]))
    <2>1. 4 + length(b[2]) \in Nat /\ 4 + length(b[2]) <= Len(b)
        BY <1>1, <1>2
    <2>2. name \in Seq(Byte)
        BY <2>1 DEF Slice
    <2> HIDE DEF name
    <2>3. \A k \in 1..Len(name) : name[k] \in Char
        BY <1>2, <2>2, ByteAt, CharIs
    <2>4. name \in Seq(Char)
        BY <2>2, <2>3
    <2> QED BY <2>4 DEF Ok, IsResult, Addr
<1> QED BY <1>1, <1>2, ErrIsResult DEF RouteError, parse_kernel_link_addr

\* parse_link_addr gives it enough bytes.
LEMMA LinkAddr ==
    ASSUME NEW b \in Seq(Byte)
    PROVE  IsResult(parse_link_addr(b))
    BY DropFacts, KernelLinkAddr, ErrIsResult DEF RouteError, parse_link_addr

\* parse_default_addr looks at the first two bytes only when they are there.
LEMMA DefaultAddr ==
    ASSUME NEW b \in Seq(Byte), Len(b) >= 4
    PROVE  IsResult(parse_default_addr(b))
<1>1. b[2] \in Byte
    BY ByteAt
<1> QED BY <1>1, ErrIsResult DEF RouteError, parse_default_addr, Ok, IsResult, Addr

-----------------------------------------------------------------------------
(* The loop over the addresses.                                            *)

\* What the loop has after a round: what is left of the bytes, and the addresses
\* or an error.
Progress == [r : {"ok"}, b : Seq(Byte), v : Seq(Addr)]
            \cup [r : {"err"}, b : Seq(Byte), v : RouteError]

\* Whatever the family, an attribute's address is a result.
LEMMA AddrAtIs ==
    ASSUME NEW stack, IsStack(stack), NEW b \in Seq(Byte), Len(b) >= 4, NEW i \in Nat
    PROVE  /\ IsResult(AddrAt(stack, b, i))
           /\ InKernelForm(stack, b, i) => AddrAt(stack, b, i) = parse_kernel_inet_addr(stack, b)
<1>1. CASE i > RTAX_BRD
    BY <1>1, DefaultAddr DEF AddrAt, InKernelForm, RTAX_BRD
<1>2. CASE InKernelForm(stack, b, i)
    <2>1. AddrAt(stack, b, i) = parse_kernel_inet_addr(stack, b)
        BY <1>2 DEF AddrAt, InKernelForm, RTAX_BRD
    <2> QED BY <2>1, KernelInetAddr
<1>3. CASE i <= RTAX_BRD /\ b[2] = AF_LINK
    BY <1>3, LinkAddr DEF AddrAt, InKernelForm, RTAX_BRD
<1>4. CASE i <= RTAX_BRD /\ b[2] # AF_LINK /\ b[2] \in {AF_INET, stack.inet6}
    BY <1>4, InetAddr DEF AddrAt, InKernelForm, RTAX_BRD
<1> QED BY <1>1, <1>2, <1>3, <1>4 DEF InKernelForm, RTAX_BRD

\* A round of the loop consumes part of the buffer, or ends in an error.
LEMMA StepKeeps ==
    ASSUME NEW stack, IsStack(stack), NEW acc \in Progress, acc.r = "ok",
           Len(acc.b) >= roundup(stack, 0), NEW i \in Nat
    PROVE  AddrStep(stack, acc, i) \in Progress
<1> DEFINE b == acc.b
           a == AddrAt(stack, b, i)
           kernel == InKernelForm(stack, b, i)
           l == roundup(stack, b[1])
           n == IF kernel /\ Len(b) < l THEN b[1] ELSE l
<1>1. b \in Seq(Byte) /\ acc.v \in Seq(Addr)
    BY DEF Progress
<1>2. Len(b) >= 4
    BY <1>1, RoundupFacts, SMTT(20)
<1>3. IsResult(a)
    BY <1>1, <1>2, AddrAtIs
<1>4. b[1] \in Nat /\ l \in Nat /\ n \in Nat
    <2>1. b[1] \in Nat
        BY <1>1, <1>2, ByteAt
    <2>2. l \in Nat
        BY <2>1, RoundupFacts, Zenon
    <2> QED BY <2>1, <2>2
<1>5. ASSUME kernel, a.r = "ok" PROVE n <= Len(b)
    <2>1. a = parse_kernel_inet_addr(stack, b)
        BY <1>1, <1>2, <1>5, AddrAtIs
    <2>2. KernelLength(stack, b) \in Nat /\ Len(b) \in Nat
        BY <1>1, <1>2, KernelLengthFacts
    <2>3. ~ (Len(b) < KernelLength(stack, b))
        BY <1>5, <2>1 DEF parse_kernel_inet_addr, Err
    <2>4. b[1] <= Len(b)
        BY <1>1, <1>2, <2>2, <2>3, KernelLengthFacts
    <2> HIDE DEF b, l, kernel
    <2> QED BY <1>4, <1>5, <2>2, <2>4
<1>6. CASE a.r # "ok"
    <2>1. AddrStep(stack, acc, i) = [r |-> a.r, b |-> b, v |-> a.v]
        BY <1>6 DEF AddrStep
    <2>2. a.r = "err" /\ a.v \in RouteError
        BY <1>3, <1>6 DEF IsResult
    <2> HIDE DEF a, b
    <2> QED BY <1>1, <2>1, <2>2 DEF Progress
<1>7. CASE a.r = "ok" /\ Len(b) < n
    <2>1. ~ kernel
        BY <1>1, <1>4, <1>5, <1>7
    <2>2. AddrStep(stack, acc, i) = [r |-> "err", b |-> b, v |-> "MessageTooShort"]
        BY <1>7, <2>1 DEF AddrStep
    <2> HIDE DEF a, b
    <2> QED BY <1>1, <2>2 DEF Progress, RouteError
<1>8. CASE a.r = "ok" /\ ~ (Len(b) < n)
    <2>1. AddrStep(stack, acc, i) = [r |-> "ok", b |-> Drop(b, n), v |-> Append(acc.v, a.v)]
        BY <1>8 DEF AddrStep
    <2>2. a.v \in Addr
        BY <1>3, <1>8 DEF IsResult
    <2> HIDE DEF a, b, n
    <2>3. Drop(b, n) \in Seq(Byte)
        BY <1>1, <1>4, <1>8, DropFacts
    <2>4. Append(acc.v, a.v) \in Seq(Addr)
        BY <1>1, <2>2
    <2> QED BY <2>1, <2>3, <2>4 DEF Progress
<1> QED BY <1>6, <1>7, <1>8

-----------------------------------------------------------------------------
(* Loops.                                                                  *)

\* f has what a loop makes of each of the first m numbers, from p0 on: of n what
\* g[n] makes of what it made of q[n].
Unrolls(f, P, m, p0, g, q) ==
    /\ f \in [0..m -> P]
    /\ f[0] = p0
    /\ \A n \in 1..m : f[n] = g[n][f[q[n]]]

\* What the equation of a loop says of its first rounds determines one more.
LEMMA LoopExtends ==
    ASSUME NEW P, NEW N \in Nat, NEW p0 \in P, NEW g \in [1..N -> [P -> P]],
           NEW q \in [1..N -> 0..N], \A n \in 1..N : q[n] < n,
           NEW m \in 1..N, NEW f, Unrolls(f, P, m - 1, p0, g, q)
    PROVE  \E h : Unrolls(h, P, m, p0, g, q)
<1> DEFINE new == g[m][f[q[m]]]
           h == [n \in 0..m |-> IF n = m THEN new ELSE f[n]]
<1>1. m \in Nat /\ m # 0 /\ m <= N
    OBVIOUS
<1>2. f \in [0..(m - 1) -> P] /\ f[0] = p0 /\ \A n \in 1..(m - 1) : f[n] = g[n][f[q[n]]]
    BY Zenon DEF Unrolls
<1>3. \A n \in 1..m : q[n] \in 0..(m - 1) /\ q[n] < n
    BY <1>1
<1>4. f[q[m]] \in P
    BY <1>1, <1>2, <1>3
<1>5. new \in P
    BY <1>4
<1> HIDE DEF new
<1>6. h \in [0..m -> P]
    BY <1>1, <1>2, <1>5
<1>7. h[0] = p0
    BY <1>1, <1>2
<1>8. \A n \in 0..(m - 1) : h[n] = f[n]
    BY <1>1
<1>9. h[m] = new
    BY <1>1
<1> HIDE DEF h
<1>10. ASSUME NEW n \in 1..m PROVE h[n] = g[n][h[q[n]]]
    <2>1. h[q[n]] = f[q[n]]
        BY <1>3, <1>8
    <2>2. CASE n = m
        BY <1>9, <2>1, <2>2 DEF new
    <2>3. CASE n # m
        <3>1. n \in 1..(m - 1) /\ n \in 0..(m - 1)
            BY <1>1, <2>3
        <3> QED BY <1>2, <1>8, <2>1, <3>1
    <2> QED BY <2>2, <2>3
<1> QED BY <1>6, <1>7, <1>10, Zenon DEF Unrolls

\* Every such loop makes something of each number.
LEMMA LoopEnds ==
    ASSUME NEW P, NEW N \in Nat, NEW p0 \in P, NEW g \in [1..N -> [P -> P]],
           NEW q \in [1..N -> 0..N], \A n \in 1..N : q[n] < n
    PROVE  \E f : Unrolls(f, P, N, p0, g, q)
<1> DEFINE T == {m \in 0..N : ~ \E f : Unrolls(f, P, m, p0, g, q)}
<1> SUFFICES ASSUME N \in T PROVE FALSE
    OBVIOUS
<1>1. PICK m \in T : \A y \in T : m <= y
    <2>1. T \in SUBSET Nat
        OBVIOUS
    <2>2. T # {}
        BY Zenon
    <2> HIDE DEF T
    <2> QED BY <2>1, <2>2, LeastNumber, Zenon
<1>2. m \in 0..N /\ ~ \E f : Unrolls(f, P, m, p0, g, q)
    OBVIOUS
<1>3. m # 0
    <2> SUFFICES ASSUME m = 0 PROVE FALSE
        OBVIOUS
    <2> DEFINE f == [n \in 0..0 |-> p0]
    <2>1. f \in [0..0 -> P]
        BY Zenon
    <2>4. 0 \in 0..0
        OBVIOUS
    <2>5. f[0] = p0
        BY <2>4, Zenon
    <2>2. \A n \in 1..0 : FALSE
        OBVIOUS
    <2> HIDE DEF f
    <2>3. Unrolls(f, P, 0, p0, g, q)
        BY <2>1, <2>2, <2>5 DEF Unrolls
    <2> QED BY <1>2, <2>3
<1>4. m \in 1..N /\ m - 1 \in 0..N /\ ~ (m <= m - 1)
    BY <1>2, <1>3
<1>5. m - 1 \notin T
    BY <1>1, <1>4, Zenon
<1>6. PICK f : Unrolls(f, P, m - 1, p0, g, q)
    BY <1>4, <1>5
<1> QED BY <1>2, <1>4, <1>6, LoopExtends

-----------------------------------------------------------------------------
(* The loop over the addresses as a function.                              *)

\* What a round makes of what there was before.
LEMMA RoundKeeps ==
    ASSUME NEW stack, IsStack(stack), NEW attrs, NEW data, NEW i \in Nat, i # 0,
           NEW acc \in Progress
    PROVE  AddrRound(stack, attrs, data, i, acc) \in Progress
<1>1. ASSUME acc.r = "ok", Len(acc.b) >= roundup(stack, 0)
      PROVE  AddrStep(stack, acc, i - 1) \in Progress
    BY <1>1, StepKeeps
<1> QED BY <1>1 DEF AddrRound

\* The equation of parse_addrs' recursive function.
After(f, stack, attrs, data) ==
    f = [i \in 0..stack.rtax_max |->
            AddrRound(stack, attrs, data, i, IF i = 0 THEN <<>> ELSE f[i - 1])]

\* parse_addrs' loop computes something: its recursive function exists.
LEMMA AfterExists ==
    ASSUME NEW stack, IsStack(stack), NEW attrs, NEW data \in Seq(Byte)
    PROVE  \E f : After(f, stack, attrs, data)
<1> DEFINE N == stack.rtax_max
           p0 == [r |-> "ok", b |-> data, v |-> <<>>]
           g == [i \in 1..N |-> [acc \in Progress |-> AddrRound(stack, attrs, data, i, acc)]]
           q == [i \in 1..N |-> i - 1]
<1>1. N \in Nat
    BY DEF IsStack
<1>2. p0 \in Progress
    BY DEF Progress
<1>3. g \in [1..N -> [Progress -> Progress]]
    <2>1. ASSUME NEW i \in 1..N, NEW acc \in Progress
          PROVE  AddrRound(stack, attrs, data, i, acc) \in Progress
        <3>1. i \in Nat /\ i # 0
            OBVIOUS
        <3> QED BY <3>1, RoundKeeps
    <2> QED BY <2>1, Zenon
<1>4. q \in [1..N -> 0..N] /\ \A i \in 1..N : q[i] < i
    BY <1>1
<1>5. \A i \in 1..N : q[i] = i - 1
    OBVIOUS
<1>6. \A i \in 1..N : \A acc \in Progress : g[i][acc] = AddrRound(stack, attrs, data, i, acc)
    BY Zenon
<1> HIDE DEF N, p0, g, q
<1>7. PICK f : Unrolls(f, Progress, N, p0, g, q)
    BY <1>1, <1>2, <1>3, <1>4, LoopEnds, Zenon
<1>8. f \in [0..N -> Progress] /\ f[0] = p0 /\ \A i \in 1..N : f[i] = g[i][f[q[i]]]
    BY <1>7, Zenon DEF Unrolls
<1> DEFINE Value(i) == AddrRound(stack, attrs, data, i, IF i = 0 THEN <<>> ELSE f[i - 1])
<1>9. ASSUME NEW i \in 0..N PROVE f[i] = Value(i)
    <2>1. CASE i = 0
        BY <1>8, <2>1 DEF AddrRound, p0
    <2>2. CASE i # 0
        <3>1. i \in 1..N /\ i - 1 \in 0..N
            BY <1>1, <2>2
        <3>2. f[i - 1] \in Progress
            BY <1>8, <3>1
        <3>3. f[i] = g[i][f[i - 1]]
            BY <1>5, <1>8, <3>1
        <3> QED BY <1>6, <2>2, <3>1, <3>2, <3>3
    <2> QED BY <2>1, <2>2
<1> HIDE DEF Value
<1>10. f = [i \in 0..N |-> Value(i)]
    BY <1>8, <1>9
<1> QED BY <1>10, Zenon DEF After, Value, N

\* parse_addrs gives addresses or an error.
LEMMA ParsesAddrs ==
    ASSUME NEW stack, IsStack(stack), NEW attrs, NEW data \in Seq(Byte)
    PROVE  parse_addrs(stack, attrs, data) \in
              [r : {"ok"}, v : Seq(Addr)] \cup [r : {"err"}, v : RouteError]
<1> DEFINE f == CHOOSE f : After(f, stack, attrs, data)
<1>1. After(f, stack, attrs, data)
    BY AfterExists, Zenon
<1>2. parse_addrs(stack, attrs, data) =
         [r |-> f[stack.rtax_max].r, v |-> f[stack.rtax_max].v]
    BY Zenon DEF parse_addrs, After
<1> HIDE DEF f
<1> DEFINE N == stack.rtax_max
           T == {i \in 0..N : f[i] \notin Progress}
<1>3. N \in Nat
    BY DEF IsStack
<1>4. \A i \in 0..N :
         f[i] = AddrRound(stack, attrs, data, i, IF i = 0 THEN <<>> ELSE f[i - 1])
    BY <1>1, Zenon DEF After
<1> HIDE DEF N
<1>5. f[0] \in Progress
    <2>1. 0 \in 0..N
        BY <1>3
    <2>2. f[0] = [r |-> "ok", b |-> data, v |-> <<>>]
        BY <1>4, <2>1, Zenon DEF AddrRound
    <2> QED BY <2>2 DEF Progress
<1>6. ASSUME NEW i \in 1..N, f[i - 1] \in Progress PROVE f[i] \in Progress
    <2>1. i \in 0..N /\ i \in Nat /\ i # 0
        BY <1>3
    <2>2. f[i] = AddrRound(stack, attrs, data, i, f[i - 1])
        BY <1>4, <2>1
    <2> QED BY <1>6, <2>1, <2>2, RoundKeeps
<1>7. T = {}
    <2> SUFFICES ASSUME T # {} PROVE FALSE
        OBVIOUS
    <2>1. PICK m \in T : \A y \in T : m <= y
        <3>1. T \in SUBSET Nat
            BY <1>3
        <3> QED BY <3>1, LeastNumber, Zenon
    <2>2. m \in 0..N /\ f[m] \notin Progress
        OBVIOUS
    <2>3. m \in 1..N /\ m - 1 \in 0..N /\ ~ (m <= m - 1)
        BY <1>3, <1>5, <2>2
    <2>4. f[m - 1] \in Progress
        BY <2>1, <2>3
    <2> QED BY <1>6, <2>2, <2>3, <2>4
<1>8. f[N] \in Progress
    <2>1. N \in 0..N
        BY <1>3
    <2> QED BY <1>7, <2>1
<1> QED BY <1>2, <1>8 DEF Progress, N

-----------------------------------------------------------------------------
(* Messages.                                                               *)

\* What parse_rib returns: messages or an error, never Panic.
Outcome == [r : {"ok"}, v : Seq(WireMessages)] \cup [r : {"err"}, v : RouteError]

\* Each error of the parser is an outcome.
LEMMA ErrIsOutcome == \A e \in RouteError : Err(e) \in Outcome
    BY DEF Err, Outcome

\* No message.
LEMMA NoneIsOutcome == Ok(<<>>) \in Outcome
    BY DEF Ok, Outcome

\* One message.
LEMMA MessageIsOutcome ==
    ASSUME NEW m \in WireMessages
    PROVE  Ok(<<m>>) \in Outcome
<1>1. <<m>> \in Seq(WireMessages)
    OBVIOUS
<1> QED BY <1>1 DEF Ok, Outcome

\* The message of an interface or of its addresses.
LEMMA InterfaceIsMessage ==
    ASSUME NEW t \in InterfaceTypes, NEW addrs \in Seq(Addr), NEW index \in Word
    PROVE  [t |-> t, addrs |-> addrs, index |-> index] \in WireMessages
    BY DEF WireMessages

\* The name in an announcement lies in the header.
LEMMA NameIs ==
    ASSUME NEW data \in Seq(Byte), Len(data) >= 22
    PROVE  AnnouncedName(data) \in Seq(Byte)
<1> DEFINE Ends(i) == data[7 + i] = 0 /\ \A j \in 0..(i - 1) : data[7 + j] # 0
           n == CHOOSE i \in 0..15 : Ends(i)
<1>1. ASSUME \E i \in 0..15 : Ends(i) PROVE Slice(data, 6, 6 + n) \in Seq(Byte)
    <2>1. n \in 0..15
        BY <1>1, Zenon
    <2> HIDE DEF n
    <2>2. n \in Nat /\ n <= 15
        BY <2>1
    <2> QED BY <2>2 DEF Slice
<1>2. <<>> \in Seq(Byte)
    OBVIOUS
<1> QED BY <1>1, <1>2, Zenon DEF AnnouncedName

\* A format whose header is complete gives a message, nothing or an error.
LEMMA ParseIs ==
    ASSUME NEW stack, IsStack(stack), NEW w \in stack.wire_formats, NEW data \in Seq(Byte)
    PROVE  parse(stack, w, data) \in Outcome
<1> DEFINE body == Drop(data, w.body_off)
           attrs == Attrs(stack, data, IF w.typ = "Route" THEN 12 ELSE 4)
           addrs == parse_addrs(stack, attrs, body)
           ifp == parse_link_addr(body)
           at == IF w.typ = "InterfaceAddr" /\ stack.netbsd THEN 16 ELSE 12
           route == [t |-> w.typ, addrs |-> addrs.v, index |-> u16(data, 4),
                     gateway |-> Bit(data, 8, RTF_GATEWAY),
                     ifscope |-> Bit(data, 8, RTF_IFSCOPE)]
           interface == [t |-> w.typ, addrs |-> <<ifp.v>>, index |-> u16(data, 12)]
           address == [t |-> w.typ, addrs |-> addrs.v, index |-> u16(data, at)]
           name == AnnouncedName(data)
           announce == [t |-> w.typ, addrs |-> <<>>, index |-> u16(data, 4), name |-> name]
<1>1. HeaderHolds(stack, w)
    BY DEF IsStack
<1>2. CASE Len(data) < w.body_off
    <2>1. parse(stack, w, data) = Err("MessageTooShort")
        BY <1>2, Zenon DEF parse
    <2> QED BY <2>1, ErrIsOutcome DEF RouteError
<1>3. CASE ~ (Len(data) < w.body_off) /\ Len(data) < u16(data, 0)
    <2>1. parse(stack, w, data) = Err("InvalidMessage")
        BY <1>3, Zenon DEF parse
    <2> QED BY <2>1, ErrIsOutcome DEF RouteError
<1>4. CASE ~ (Len(data) < w.body_off) /\ ~ (Len(data) < u16(data, 0))
    <2>1. w.body_off \in Nat /\ w.body_off >= 16 /\ w.body_off <= Len(data)
        BY <1>1, <1>4 DEF HeaderHolds
    <2>2. body \in Seq(Byte)
        BY <2>1, DropFacts
    <2>3. addrs \in [r : {"ok"}, v : Seq(Addr)] \cup [r : {"err"}, v : RouteError]
        BY <2>2, ParsesAddrs
    <2>4. IsResult(ifp)
        BY <2>2, LinkAddr
    <2>5. u16(data, 4) \in Word /\ u16(data, 12) \in Word
        BY <2>1, U16Range
    <2>6. w.typ \in InterfaceTypes \cup {"Route", "InterfaceAnnounce"}
        BY <1>1 DEF HeaderHolds
    <2>7. CASE w.typ = "Route"
        <3>1. parse(stack, w, data) =
                 IF data[16] >= 128 THEN Err("InvalidMessage") ELSE Parsed(addrs, route)
            BY <1>4, <2>7, Zenon DEF parse
        <3> HIDE DEF addrs
        <3>2. addrs.r = "ok" => addrs.v \in Seq(Addr)
            BY <2>3
        <3>3. Bit(data, 8, RTF_GATEWAY) \in BOOLEAN /\ Bit(data, 8, RTF_IFSCOPE) \in BOOLEAN
            BY DEF Bit
        <3>4. addrs.r = "ok" => route \in WireMessages
            BY <2>5, <2>7, <3>2, <3>3 DEF WireMessages
        <3> HIDE DEF route
        <3>5. addrs.r = "ok" => Parsed(addrs, route) \in Outcome
            BY <3>4, MessageIsOutcome DEF Parsed
        <3>6. addrs.r # "ok" => Parsed(addrs, route) \in Outcome
            BY <2>3 DEF Parsed, Outcome
        <3> QED BY <3>1, <3>5, <3>6, ErrIsOutcome DEF RouteError
    <2>8. CASE w.typ = "Interface"
        <3>1. parse(stack, w, data) =
                 IF ~ Bit(data, 4, RTAX_IFP) THEN Ok(<<>>) ELSE Parsed(ifp, interface)
            BY <1>4, <2>8, Zenon DEF parse
        <3> HIDE DEF ifp
        <3>2. ifp.r = "ok" => <<ifp.v>> \in Seq(Addr)
            BY <2>4 DEF IsResult
        <3>3. ifp.r = "ok" => interface \in WireMessages
            BY <2>5, <2>8, <3>2, InterfaceIsMessage, Zenon DEF InterfaceTypes
        <3> HIDE DEF interface
        <3>4. ifp.r = "ok" => Parsed(ifp, interface) \in Outcome
            BY <3>3, MessageIsOutcome DEF Parsed
        <3>5. ifp.r # "ok" => Parsed(ifp, interface) \in Outcome
            BY <2>4 DEF Parsed, Outcome, IsResult
        <3> QED BY <3>1, <3>4, <3>5, NoneIsOutcome
    <2>9. CASE w.typ \in {"InterfaceAddr", "InterfaceMulticastAddr"}
        <3>1. parse(stack, w, data) = Parsed(addrs, address)
            BY <1>4, <2>9, Zenon DEF parse
        <3>2. u16(data, at) \in Word
            <4>1. stack.netbsd /\ w.typ = "InterfaceAddr" => Len(data) >= 18
                BY <1>1, <2>1 DEF HeaderHolds
            <4> QED BY <2>5, <4>1, U16Range
        <3> HIDE DEF addrs, at
        <3>3. addrs.r = "ok" => addrs.v \in Seq(Addr)
            BY <2>3
        <3>4. addrs.r = "ok" => address \in WireMessages
            BY <2>9, <3>2, <3>3, InterfaceIsMessage DEF InterfaceTypes
        <3> HIDE DEF address
        <3>5. addrs.r = "ok" => Parsed(addrs, address) \in Outcome
            BY <3>4, MessageIsOutcome DEF Parsed
        <3>6. addrs.r # "ok" => Parsed(addrs, address) \in Outcome
            BY <2>3 DEF Parsed, Outcome
        <3> QED BY <3>1, <3>5, <3>6
    <2>10. CASE w.typ = "InterfaceAnnounce"
        <3>1. parse(stack, w, data) =
                 IF \E k \in DOMAIN name : name[k] > 127 THEN Err("InvalidAddress")
                 ELSE Ok(<<announce>>)
            BY <1>4, <2>10, Zenon DEF parse
        <3>2. name \in Seq(Byte)
            <4>1. Len(data) >= 22
                BY <1>1, <2>1, <2>10 DEF HeaderHolds
            <4> QED BY <4>1, NameIs
        <3> HIDE DEF name
        <3>3. ASSUME ~ \E k \in DOMAIN name : name[k] > 127
              PROVE  announce \in WireMessages
            <4>1. \A k \in 1..Len(name) : name[k] \in Char
                BY <3>2, <3>3, ByteAt, CharIs
            <4>2. name \in Seq(Char)
                BY <3>2, <4>1
            <4>3. <<>> \in Seq(Addr)
                OBVIOUS
            <4> QED BY <2>5, <2>10, <4>2, <4>3 DEF WireMessages
        <3> HIDE DEF announce
        <3> QED BY <3>1, <3>3, MessageIsOutcome, ErrIsOutcome DEF RouteError
    <2> QED BY <2>6, <2>7, <2>8, <2>9, <2>10 DEF InterfaceTypes
<1> QED BY <1>2, <1>3, <1>4

\* The first message of a buffer is parsed or skipped.
LEMMA FirstMessageIs ==
    ASSUME NEW stack, IsStack(stack), NEW b \in Seq(Byte), Len(b) > 4, u16(b, 0) <= Len(b)
    PROVE  FirstMessage(stack, b) \in Outcome
<1>1. ASSUME \E w \in stack.wire_formats : b[4] \in w.types
      PROVE  parse(stack, wire_format(stack, b[4]), Slice(b, 0, u16(b, 0))) \in Outcome
    <2>1. wire_format(stack, b[4]) \in stack.wire_formats
        BY <1>1, Zenon DEF wire_format
    <2>2. u16(b, 0) \in Nat
        BY U16Range
    <2>3. Slice(b, 0, u16(b, 0)) \in Seq(Byte)
        BY <2>2, SliceFacts
    <2> QED BY <2>1, <2>3, ParseIs, Zenon
<1> QED BY <1>1, NoneIsOutcome, Zenon DEF FirstMessage

\* The first message and what follows it make an outcome.
LEMMA FollowedIs ==
    ASSUME NEW m \in Outcome, NEW rest \in Outcome
    PROVE  Followed(m, rest) \in Outcome
<1>1. ASSUME m.r = "ok", rest.r = "ok" PROVE m.v \o rest.v \in Seq(WireMessages)
    <2>1. m.v \in Seq(WireMessages) /\ rest.v \in Seq(WireMessages)
        BY <1>1 DEF Outcome, RouteError
    <2> QED BY <2>1
<1> QED BY <1>1 DEF Followed, Ok, Outcome

-----------------------------------------------------------------------------
(* The loop over the messages.                                             *)

\* The round ends the loop.
Last(b) == Len(b) <= 4 \/ u16(b, 0) = 0 \/ Len(b) < u16(b, 0)

\* A round of parse_rib's loop.
LEMMA RibRoundIs ==
    ASSUME NEW stack, IsStack(stack), NEW b \in Seq(Byte)
    PROVE  /\ \A rest \in Outcome : RibRound(stack, b, rest) \in Outcome
           /\ Last(b) => \A x, y : RibRound(stack, b, x) = RibRound(stack, b, y)
<1>1. ASSUME NEW rest \in Outcome PROVE RibRound(stack, b, rest) \in Outcome
    <2>1. CASE Len(b) <= 4
        BY <2>1, NoneIsOutcome DEF RibRound
    <2>2. CASE ~ (Len(b) <= 4) /\ u16(b, 0) = 0
        BY <2>2, ErrIsOutcome DEF RibRound, RouteError
    <2>3. CASE ~ (Len(b) <= 4) /\ u16(b, 0) # 0 /\ Len(b) < u16(b, 0)
        BY <2>3, ErrIsOutcome DEF RibRound, RouteError
    <2>4. CASE ~ (Len(b) <= 4) /\ u16(b, 0) # 0 /\ ~ (Len(b) < u16(b, 0))
        <3>1. Len(b) > 4 /\ u16(b, 0) <= Len(b)
            BY <2>4, U16Range
        <3>2. Followed(FirstMessage(stack, b), rest) \in Outcome
            BY <1>1, <3>1, FirstMessageIs, FollowedIs
        <3> QED BY <2>4, <3>2, Zenon DEF RibRound
    <2> QED BY <2>1, <2>2, <2>3, <2>4
<1>2. Last(b) => \A x, y : RibRound(stack, b, x) = RibRound(stack, b, y)
    BY Zenon DEF Last, RibRound
<1> QED BY <1>1, <1>2

\* What is left when n bytes are, and the equation of parse_rib's recursive
\* function.
Rest(data, n) == Drop(data, Len(data) - n)
From(f, stack, data) ==
    f = [n \in 0..Len(data) |->
            RibRound(stack, Rest(data, n), f[n - u16(Rest(data, n), 0)])]

\* What is left is part of the buffer, and less of it is left after each round.
LEMMA RestFacts ==
    ASSUME NEW data \in Seq(Byte), NEW n \in 0..Len(data)
    PROVE  /\ Rest(data, n) \in Seq(Byte) /\ Len(Rest(data, n)) = n
           /\ ~ Last(Rest(data, n)) => /\ n # 0
                                       /\ n - u16(Rest(data, n), 0) \in 0..Len(data)
                                       /\ n - u16(Rest(data, n), 0) < n
<1> DEFINE k == Len(data) - n
<1>1. k \in Nat /\ k <= Len(data) /\ n \in Nat /\ Len(data) \in Nat /\ Len(data) - k = n
    OBVIOUS
<1>2. Rest(data, n) \in Seq(Byte) /\ Len(Rest(data, n)) = n
    <2>1. Rest(data, n) = Drop(data, k)
        BY DEF Rest
    <2> HIDE DEF k
    <2> QED BY <1>1, <2>1, DropFacts, SMTT(20)
<1> DEFINE l == u16(Rest(data, n), 0)
<1>3. ASSUME ~ Last(Rest(data, n)) PROVE l \in Nat /\ l # 0 /\ l <= n /\ n > 4
    <2>1. ~ (n <= 4) /\ l # 0 /\ ~ (n < l)
        BY <1>2, <1>3, Zenon DEF Last
    <2>2. l \in Nat
        BY <1>1, <1>2, <2>1, U16Range
    <2> QED BY <1>1, <2>1, <2>2
<1> HIDE DEF l
<1>4. ~ Last(Rest(data, n)) => n # 0 /\ n - l \in 0..Len(data) /\ n - l < n
    BY <1>1, <1>3
<1> QED BY <1>2, <1>4 DEF l

\* parse_rib's loop computes something: its recursive function exists.
LEMMA FromExists ==
    ASSUME NEW stack, IsStack(stack), NEW data \in Seq(Byte)
    PROVE  \E f : From(f, stack, data)
<1> DEFINE N == Len(data)
           p0 == Ok(<<>>)
           g == [n \in 1..N |-> [rest \in Outcome |-> RibRound(stack, Rest(data, n), rest)]]
           q == [n \in 1..N |-> IF Last(Rest(data, n)) THEN 0
                                ELSE n - u16(Rest(data, n), 0)]
<1>1. N \in Nat
    OBVIOUS
<1>2. p0 \in Outcome
    BY NoneIsOutcome
<1>3. g \in [1..N -> [Outcome -> Outcome]]
    <2>1. ASSUME NEW n \in 1..N, NEW rest \in Outcome
          PROVE  RibRound(stack, Rest(data, n), rest) \in Outcome
        <3>1. n \in 0..Len(data)
            OBVIOUS
        <3>2. Rest(data, n) \in Seq(Byte)
            BY <3>1, RestFacts
        <3> QED BY <3>2, RibRoundIs
    <2> QED BY <2>1, Zenon
<1>4. ASSUME NEW n \in 1..N PROVE q[n] \in 0..N /\ q[n] < n
    <2>1. n \in 0..Len(data) /\ 0 \in 0..N /\ 0 < n
        OBVIOUS
    <2>2. CASE Last(Rest(data, n))
        <3>1. q[n] = 0
            BY <2>2, Zenon
        <3> QED BY <2>1, <3>1
    <2>3. CASE ~ Last(Rest(data, n))
        <3>1. q[n] = n - u16(Rest(data, n), 0)
            BY <2>3, Zenon
        <3> QED BY <2>1, <2>3, <3>1, RestFacts
    <2> QED BY <2>2, <2>3
<1>5. q \in [1..N -> 0..N]
    <2>1. \A n \in 1..N : q[n] \in 0..N
        BY <1>4
    <2>2. q = [n \in 1..N |-> q[n]]
        BY Zenon
    <2> HIDE DEF q
    <2> QED BY <2>1, <2>2, Zenon
<1>6. \A n \in 1..N : ~ Last(Rest(data, n)) => q[n] = n - u16(Rest(data, n), 0)
    BY Zenon
<1>7. \A n \in 1..N : \A rest \in Outcome : g[n][rest] = RibRound(stack, Rest(data, n), rest)
    BY Zenon
<1>8. \A n \in 1..N : q[n] < n
    BY <1>4
<1> HIDE DEF N, p0, g, q
<1>9. PICK f : Unrolls(f, Outcome, N, p0, g, q)
    BY <1>1, <1>2, <1>3, <1>5, <1>8, LoopEnds, Zenon
<1>10. f \in [0..N -> Outcome] /\ f[0] = p0 /\ \A n \in 1..N : f[n] = g[n][f[q[n]]]
    BY <1>9, Zenon DEF Unrolls
<1> DEFINE Value(n) == RibRound(stack, Rest(data, n), f[n - u16(Rest(data, n), 0)])
<1>11. ASSUME NEW n \in 0..N PROVE f[n] = Value(n)
    <2>1. /\ Rest(data, n) \in Seq(Byte) /\ Len(Rest(data, n)) = n
          /\ ~ Last(Rest(data, n)) => n # 0
        BY RestFacts DEF N
    <2>2. CASE n = 0
        <3>1. Len(Rest(data, n)) <= 4
            BY <2>1, <2>2
        <3>2. Value(n) = Ok(<<>>)
            BY <3>1, Zenon DEF RibRound
        <3> QED BY <1>10, <2>2, <3>2 DEF p0
    <2>3. CASE n # 0
        <3>1. n \in 1..N
            BY <1>1, <2>3
        <3>2. f[q[n]] \in Outcome
            BY <1>5, <1>10, <3>1
        <3>3. f[n] = RibRound(stack, Rest(data, n), f[q[n]])
            BY <1>7, <1>10, <3>1, <3>2
        <3>4. CASE Last(Rest(data, n))
            BY <2>1, <3>3, <3>4, RibRoundIs
        <3>5. CASE ~ Last(Rest(data, n))
            BY <1>6, <3>1, <3>3, <3>5
        <3> QED BY <3>4, <3>5
    <2> QED BY <2>2, <2>3
<1> HIDE DEF Value
<1>12. f = [n \in 0..N |-> Value(n)]
    BY <1>10, <1>11
<1> QED BY <1>12, Zenon DEF From, Value, N

\* The recursive function of parse_rib: each value of it is an outcome.
LEMMA FromIs ==
    ASSUME NEW stack, IsStack(stack), NEW data \in Seq(Byte), NEW f, From(f, stack, data),
           NEW n \in 0..Len(data)
    PROVE  /\ f[n] = RibRound(stack, Rest(data, n), f[n - u16(Rest(data, n), 0)])
           /\ f[n] \in Outcome
<1> DEFINE N == Len(data)
           Before(i) == i - u16(Rest(data, i), 0)
           T == {i \in 0..N : f[i] \notin Outcome}
<1>1. N \in Nat
    OBVIOUS
<1>2. \A i \in 0..N : f[i] = RibRound(stack, Rest(data, i), f[Before(i)])
    BY Zenon DEF From
<1>3. \A i \in 0..N : /\ Rest(data, i) \in Seq(Byte)
                      /\ ~ Last(Rest(data, i)) => Before(i) \in 0..N /\ Before(i) < i
    BY RestFacts
<1> HIDE DEF N, Before
<1>4. ASSUME T # {} PROVE FALSE
    <2>1. PICK m \in T : \A y \in T : m <= y
        <3>1. T \in SUBSET Nat
            BY <1>1
        <3> QED BY <1>4, <3>1, LeastNumber, Zenon
    <2>2. m \in 0..N /\ f[m] \notin Outcome
        OBVIOUS
    <2>3. CASE Last(Rest(data, m))
        <3>1. f[m] = RibRound(stack, Rest(data, m), Ok(<<>>))
            BY <1>2, <1>3, <2>2, <2>3, RibRoundIs
        <3> QED BY <1>3, <2>2, <3>1, RibRoundIs, NoneIsOutcome
    <2>4. CASE ~ Last(Rest(data, m))
        <3>1. Before(m) \in 0..N /\ Before(m) < m
            BY <1>3, <2>2, <2>4
        <3>2. Before(m) \notin T
            BY <1>1, <2>1, <2>2, <3>1
        <3>3. f[Before(m)] \in Outcome
            BY <3>1, <3>2
        <3> QED BY <1>2, <1>3, <2>2, <3>3, RibRoundIs
    <2> QED BY <2>3, <2>4
<1> QED BY <1>2, <1>4 DEF N, Before

\* parse_rib is what that function gives for all of the buffer.
LEMMA ParseRibFrom ==
    ASSUME NEW stack, IsStack(stack), NEW data \in Seq(Byte)
    PROVE  \E f : From(f, stack, data) /\ parse_rib(stack, data) = f[Len(data)]
<1> DEFINE f == CHOOSE f : From(f, stack, data)
<1>1. From(f, stack, data)
    BY FromExists, Zenon
<1>2. parse_rib(stack, data) = f[Len(data)]
    BY Zenon DEF parse_rib, From, Rest
<1> QED BY <1>1, <1>2, Zenon

\* Whatever the bytes are, parse_rib gives messages or an error.
LEMMA ParseRibTotal ==
    ASSUME NEW stack, IsStack(stack), NEW data \in Seq(Byte)
    PROVE  parse_rib(stack, data) \in Outcome
<1>1. PICK f : From(f, stack, data) /\ parse_rib(stack, data) = f[Len(data)]
    BY ParseRibFrom
<1>2. Len(data) \in 0..Len(data)
    OBVIOUS
<1> QED BY <1>1, <1>2, FromIs

-----------------------------------------------------------------------------

\* The bytes that were read, and what parse_rib made of them.
BytesRead ==
    /\ \E stack \in DOMAIN Stacks, b \in Seq(Byte) :
          input = [kind |-> "bytes", stack |-> stack, b |-> b]
    /\ output = Pending \/ output = parse_rib(Stacks[input.stack], input.b)

\* That is so in every state.
LEMMA AlwaysRead == BytesSpec => []BytesRead
<1>1. BytesInit /\ output = Pending => BytesRead
    BY BuffersAssumption DEF BytesInit, BytesRead
<1>2. BytesRead /\ [ReadBytes]_vars => BytesRead'
    BY DEF BytesRead, ReadBytes, Compute, vars
<1> QED BY <1>1, <1>2, PTL DEF BytesSpec

\* parse_rib neither panics nor gives a message with an address that is not
\* whole, on any platform and for any bytes.
THEOREM ParserIsTotal == BytesSpec => []ParserTotal
<1>1. BytesRead => ParserTotal
    <2> SUFFICES ASSUME BytesRead, Done("bytes") PROVE output \in Outcome
        BY DEF ParserTotal, Outcome
    <2>1. input.stack \in DOMAIN Stacks /\ input.b \in Seq(Byte)
        BY DEF BytesRead
    <2>2. IsStack(Stacks[input.stack])
        BY <2>1, StacksAre
    <2>3. output = parse_rib(Stacks[input.stack], input.b)
        BY DEF BytesRead, Done
    <2> QED BY <2>1, <2>2, <2>3, ParseRibTotal
<1> QED BY <1>1, AlwaysRead, PTL

-----------------------------------------------------------------------------
(* Several messages in one read.                                           *)

\* What is left at the end does not depend on what came before.
LEMMA RestAgrees ==
    ASSUME NEW first \in Seq(Byte), NEW rest \in Seq(Byte), NEW n \in 0..Len(rest)
    PROVE  n \in 0..Len(first \o rest) /\ Rest(first \o rest, n) = Rest(rest, n)
<1> DEFINE data == first \o rest
<1>1. data \in Seq(Byte) /\ Len(data) = Len(first) + Len(rest)
    OBVIOUS
<1>2. \A k \in 1..Len(rest) : data[Len(first) + k] = rest[k]
    OBVIOUS
<1> HIDE DEF data
<1>3. n \in 0..Len(data) /\ n \in Nat
    BY <1>1
<1>4. /\ Rest(data, n) \in Seq(Byte) /\ Len(Rest(data, n)) = n
      /\ Rest(rest, n) \in Seq(Byte) /\ Len(Rest(rest, n)) = n
    BY <1>1, <1>3, RestFacts
<1>5. ASSUME NEW k \in 1..n PROVE Rest(data, n)[k] = Rest(rest, n)[k]
    <2> DEFINE d == Len(data) - n
               e == Len(rest) - n
    <2>1. /\ d \in Nat /\ d <= Len(data) /\ k \in 1..(Len(data) - d)
          /\ e \in Nat /\ e <= Len(rest) /\ k \in 1..(Len(rest) - e)
          /\ d + k = Len(first) + (e + k) /\ e + k \in 1..Len(rest)
        BY <1>1, <1>3
    <2> HIDE DEF d, e
    <2>2. Drop(data, d)[k] = data[d + k]
        BY <1>1, <2>1, DropFacts, Zenon
    <2>3. Drop(rest, e)[k] = rest[e + k]
        BY <2>1, DropFacts, Zenon
    <2>4. data[d + k] = rest[e + k]
        BY <1>2, <2>1, SMTT(20)
    <2> QED BY <2>2, <2>3, <2>4 DEF Rest, d, e
<1>6. Rest(data, n) = Rest(rest, n)
    BY <1>4, <1>5
<1> QED BY <1>3, <1>6 DEF data

\* Nor does what the loop makes of it.
LEMMA FromAgrees ==
    ASSUME NEW stack, IsStack(stack), NEW first \in Seq(Byte), NEW rest \in Seq(Byte),
           NEW f, From(f, stack, first \o rest), NEW h, From(h, stack, rest)
    PROVE  \A n \in 0..Len(rest) : f[n] = h[n]
<1> DEFINE data == first \o rest
           Before(i) == i - u16(Rest(rest, i), 0)
           T == {i \in 0..Len(rest) : f[i] # h[i]}
<1>1. data \in Seq(Byte) /\ From(f, stack, data)
    OBVIOUS
<1>2. ASSUME NEW i \in 0..Len(rest)
      PROVE  /\ f[i] = RibRound(stack, Rest(rest, i), f[Before(i)])
             /\ h[i] = RibRound(stack, Rest(rest, i), h[Before(i)])
    <2>1. i \in 0..Len(data) /\ Rest(data, i) = Rest(rest, i)
        BY RestAgrees
    <2> HIDE DEF data
    <2>2. f[i] = RibRound(stack, Rest(data, i), f[i - u16(Rest(data, i), 0)])
        BY <1>1, <2>1, FromIs
    <2>3. h[i] = RibRound(stack, Rest(rest, i), h[i - u16(Rest(rest, i), 0)])
        BY FromIs
    <2> QED BY <2>1, <2>2, <2>3
<1>3. \A i \in 0..Len(rest) :
         /\ Rest(rest, i) \in Seq(Byte)
         /\ ~ Last(Rest(rest, i)) => Before(i) \in 0..Len(rest) /\ Before(i) < i
    BY RestFacts
<1> HIDE DEF Before
<1>4. ASSUME T # {} PROVE FALSE
    <2>1. PICK m \in T : \A y \in T : m <= y
        <3>1. T \in SUBSET Nat
            OBVIOUS
        <3> QED BY <1>4, <3>1, LeastNumber, Zenon
    <2>2. m \in 0..Len(rest) /\ f[m] # h[m]
        OBVIOUS
    <2>3. CASE Last(Rest(rest, m))
        BY <1>2, <1>3, <2>2, <2>3, RibRoundIs
    <2>4. CASE ~ Last(Rest(rest, m))
        <3>1. Before(m) \in 0..Len(rest) /\ Before(m) < m
            BY <1>3, <2>2, <2>4
        <3>2. Before(m) \notin T
            BY <2>1, <2>2, <3>1
        <3>3. f[Before(m)] = h[Before(m)]
            BY <3>1, <3>2
        <3> QED BY <1>2, <2>2, <3>3
    <2> QED BY <2>3, <2>4
<1> QED BY <1>4

\* A message by its length at the beginning of a buffer.
LEMMA FirstOfBoth ==
    ASSUME NEW stack, NEW first \in Seq(Byte), IsWhole(first), NEW rest \in Seq(Byte)
    PROVE  /\ u16(first \o rest, 0) = Len(first)
           /\ FirstMessage(stack, first \o rest) = FirstMessage(stack, first)
<1> DEFINE data == first \o rest
<1>1. Len(first) > 4 /\ u16(first, 0) = Len(first) /\ Len(first) \in Nat
    BY DEF IsWhole
<1>2. data \in Seq(Byte) /\ Len(data) >= Len(first)
    OBVIOUS
<1>3. \A k \in 1..Len(first) : data[k] = first[k]
    OBVIOUS
<1> HIDE DEF data
<1>4. data[1] = first[1] /\ data[2] = first[2] /\ data[3] = first[3] /\ data[4] = first[4]
    BY <1>1, <1>3
<1>5. u16(data, 0) = u16(first, 0)
    BY <1>4 DEF u16
<1>6. Slice(data, 0, Len(first)) = Slice(first, 0, Len(first))
    <2>1. /\ Slice(data, 0, Len(first)) \in Seq(Byte)
          /\ Len(Slice(data, 0, Len(first))) = Len(first)
          /\ \A k \in 1..Len(first) : Slice(data, 0, Len(first))[k] = data[k]
        BY <1>1, <1>2 DEF Slice
    <2>2. /\ Slice(first, 0, Len(first)) \in Seq(Byte)
          /\ Len(Slice(first, 0, Len(first))) = Len(first)
          /\ \A k \in 1..Len(first) : Slice(first, 0, Len(first))[k] = first[k]
        BY <1>1 DEF Slice
    <2> HIDE DEF Slice
    <2> QED BY <1>3, <2>1, <2>2
<1>7. FirstMessage(stack, data) = FirstMessage(stack, first)
    BY <1>1, <1>4, <1>5, <1>6, Zenon DEF FirstMessage
<1> QED BY <1>1, <1>5, <1>7 DEF data

\* One step of the loop.
LEMMA ParseRibUnrolls ==
    ASSUME NEW stack, IsStack(stack), NEW first \in Seq(Byte), IsWhole(first),
           NEW rest \in Seq(Byte)
    PROVE  parse_rib(stack, first \o rest) =
              Followed(FirstMessage(stack, first), parse_rib(stack, rest))
<1> DEFINE data == first \o rest
           N == Len(data)
<1>1. /\ data \in Seq(Byte) /\ N = Len(first) + Len(rest) /\ N \in Nat
      /\ Len(first) \in Nat /\ Len(rest) \in Nat
    OBVIOUS
<1>2. PICK f : From(f, stack, data) /\ parse_rib(stack, data) = f[N]
    BY <1>1, ParseRibFrom, Zenon
<1>3. PICK h : From(h, stack, rest) /\ parse_rib(stack, rest) = h[Len(rest)]
    BY ParseRibFrom
<1>4. u16(data, 0) = Len(first) /\ FirstMessage(stack, data) = FirstMessage(stack, first)
    BY FirstOfBoth
<1>5. f[Len(rest)] = h[Len(rest)]
    <2>1. Len(rest) \in 0..Len(rest)
        BY <1>1
    <2> QED BY <1>2, <1>3, <2>1, FromAgrees
<1> HIDE DEF data
<1>6. Rest(data, N) = data
    BY <1>1 DEF Rest, Drop
<1>7. f[N] = RibRound(stack, data, f[N - Len(first)])
    <2>1. N \in 0..N
        BY <1>1
    <2>2. f[N] = RibRound(stack, Rest(data, N), f[N - u16(Rest(data, N), 0)])
        BY <1>1, <1>2, <2>1, FromIs
    <2> QED BY <1>4, <1>6, <2>2
<1>8. N - Len(first) = Len(rest)
    BY <1>1
<1>9. ~ (N <= 4) /\ Len(first) # 0 /\ ~ (N < Len(first))
    BY <1>1 DEF IsWhole
<1>10. RibRound(stack, data, h[Len(rest)]) = Followed(FirstMessage(stack, data), h[Len(rest)])
    BY <1>4, <1>9, Zenon DEF RibRound
<1> QED BY <1>2, <1>3, <1>4, <1>5, <1>7, <1>8, <1>10 DEF data

\* parse_rib of a message and of nothing.
LEMMA ParseRibOfOne ==
    ASSUME NEW stack, IsStack(stack), NEW first \in Seq(Byte), IsWhole(first)
    PROVE  parse_rib(stack, first) = FirstMessage(stack, first)
<1>1. <<>> \in Seq(Byte) /\ first \o <<>> = first /\ Len(<<>>) = 0 /\ 0 \in 0..0
    OBVIOUS
<1>2. parse_rib(stack, <<>>) = Ok(<<>>)
    <2>1. PICK h : From(h, stack, <<>>) /\ parse_rib(stack, <<>>) = h[0]
        BY <1>1, ParseRibFrom, Zenon
    <2>2. \E x : h[0] = RibRound(stack, Rest(<<>>, 0), x)
        <3> DEFINE e == <<>>
        <3>1. e \in Seq(Byte) /\ From(h, stack, e) /\ 0 \in 0..Len(e)
            BY <1>1, <2>1
        <3> HIDE DEF e
        <3>2. h[0] = RibRound(stack, Rest(e, 0), h[0 - u16(Rest(e, 0), 0)])
            BY <3>1, FromIs
        <3> QED BY <3>2, Zenon DEF e
    <2>3. Len(Rest(<<>>, 0)) <= 4
        BY <1>1, RestFacts
    <2> QED BY <2>1, <2>2, <2>3, Zenon DEF RibRound
<1>3. FirstMessage(stack, first) \in Outcome
    <2>1. Len(first) > 4 /\ u16(first, 0) <= Len(first)
        BY DEF IsWhole
    <2> QED BY <2>1, FirstMessageIs
<1>4. ASSUME NEW m \in Outcome PROVE Followed(m, Ok(<<>>)) = m
    <2>1. CASE m.r = "ok"
        <3>1. m.v \in Seq(WireMessages) /\ m = [r |-> "ok", v |-> m.v]
            BY <2>1 DEF Outcome
        <3>2. m.v \o <<>> = m.v
            BY <3>1
        <3> QED BY <2>1, <3>1, <3>2, Zenon DEF Followed, Ok
    <2>2. CASE m.r # "ok"
        BY <2>2 DEF Followed
    <2> QED BY <2>1, <2>2
<1> QED BY <1>1, <1>2, <1>3, <1>4, ParseRibUnrolls, Zenon

\* A Change is sent for the one or the other.
LEMMA SendsForEither ==
    ASSUME NEW a \in Outcome, NEW b \in Outcome
    PROVE  SendsChange(Followed(a, b)) <=> /\ a.r = "ok" /\ b.r = "ok"
                                           /\ SendsChange(a) \/ SendsChange(b)
<1>1. CASE a.r # "ok" \/ b.r # "ok"
    BY <1>1 DEF SendsChange, Followed
<1>2. CASE a.r = "ok" /\ b.r = "ok"
    <2> DEFINE s == a.v
               t == b.v
               Some(v) == \E k \in DOMAIN v : is_interesting_message(v[k])
    <2>1. s \in Seq(WireMessages) /\ t \in Seq(WireMessages)
        BY <1>2 DEF Outcome
    <2>2. SendsChange(Followed(a, b)) <=> Some(s \o t)
        BY <1>2, Zenon DEF SendsChange, Followed, Ok
    <2>3. (SendsChange(a) <=> Some(s)) /\ (SendsChange(b) <=> Some(t))
        BY <1>2, Zenon DEF SendsChange
    <2> HIDE DEF s, t
    <2>4. /\ DOMAIN s = 1..Len(s) /\ DOMAIN t = 1..Len(t) /\ Len(s) \in Nat /\ Len(t) \in Nat
          /\ DOMAIN (s \o t) = 1..(Len(s) + Len(t))
          /\ \A k \in 1..Len(s) : (s \o t)[k] = s[k]
          /\ \A k \in 1..Len(t) : (s \o t)[Len(s) + k] = t[k]
        BY <2>1
    <2>5. Some(s) => Some(s \o t)
        <3> SUFFICES ASSUME NEW k \in 1..Len(s), is_interesting_message(s[k])
                     PROVE  Some(s \o t)
            BY <2>4
        <3>1. k \in DOMAIN (s \o t) /\ (s \o t)[k] = s[k]
            BY <2>4
        <3> QED BY <3>1, Zenon
    <2>6. Some(t) => Some(s \o t)
        <3> SUFFICES ASSUME NEW k \in 1..Len(t), is_interesting_message(t[k])
                     PROVE  Some(s \o t)
            BY <2>4
        <3>1. Len(s) + k \in DOMAIN (s \o t) /\ (s \o t)[Len(s) + k] = t[k]
            BY <2>4
        <3> QED BY <3>1, Zenon
    <2>7. Some(s \o t) => Some(s) \/ Some(t)
        <3> SUFFICES ASSUME NEW k \in 1..(Len(s) + Len(t)), is_interesting_message((s \o t)[k])
                     PROVE  Some(s) \/ Some(t)
            BY <2>4
        <3>1. CASE k \in 1..Len(s)
            <4>1. k \in DOMAIN s /\ (s \o t)[k] = s[k]
                BY <2>4, <3>1
            <4> QED BY <4>1, Zenon
        <3>2. CASE k \notin 1..Len(s)
            <4>1. k - Len(s) \in 1..Len(t) /\ Len(s) + (k - Len(s)) = k
                BY <2>4, <3>2
            <4>2. k - Len(s) \in DOMAIN t /\ (s \o t)[k] = t[k - Len(s)]
                BY <2>4, <4>1
            <4> QED BY <4>2, Zenon
        <3> QED BY <3>1, <3>2
    <2> HIDE DEF Some
    <2> QED BY <1>2, <2>2, <2>3, <2>5, <2>6, <2>7
<1> QED BY <1>1, <1>2

\* The bytes of a read and what the monitor made of them.
NewsRead ==
    /\ \E stack \in DOMAIN Stacks, first \in Seq(Byte), rest \in Seq(Byte) :
          input = [kind |-> "read", stack |-> stack, first |-> first, rest |-> rest]
    /\ \/ output = Pending
       \/ \E msgs \in {parse_rib(Stacks[input.stack], input.first \o input.rest)} :
             output = [msgs |-> msgs, change |-> SendsChange(msgs)]

\* That is so in every state.
LEMMA AlwaysNewsRead == NewsSpec => []NewsRead
<1>1. NewsInit /\ output = Pending => NewsRead
    BY ReadsAssumption DEF NewsInit, NewsRead
<1>2. NewsRead /\ [ReadNews]_vars => NewsRead'
    BY Zenon DEF NewsRead, ReadNews, Compute, vars
<1> QED BY <1>1, <1>2, PTL DEF NewsSpec

\* The messages of a read are parsed one by one, and each of them is announced,
\* whatever the read holds besides that can be parsed.
THEOREM ReadsAreApart == NewsSpec => []NewsApart
<1>1. NewsRead => NewsApart
    <2> SUFFICES ASSUME NewsRead, Done("read"), IsWhole(input.first)
                 PROVE  LET st == Stacks[input.stack]
                            first == parse_rib(st, input.first)
                            rest == parse_rib(st, input.rest)
                        IN /\ output.msgs = Followed(first, rest)
                           /\ output.change <=> /\ first.r = "ok" /\ rest.r = "ok"
                                                /\ SendsChange(first) \/ SendsChange(rest)
        BY Zenon DEF NewsApart
    <2> DEFINE st == Stacks[input.stack]
               first == parse_rib(st, input.first)
               rest == parse_rib(st, input.rest)
    <2>1. /\ input.stack \in DOMAIN Stacks
          /\ input.first \in Seq(Byte) /\ input.rest \in Seq(Byte)
        BY DEF NewsRead
    <2>2. IsStack(st)
        BY <2>1, StacksAre
    <2>3. first \in Outcome /\ rest \in Outcome
        BY <2>1, <2>2, ParseRibTotal
    <2>4. parse_rib(st, input.first \o input.rest) = Followed(first, rest)
        <3>1. first = FirstMessage(st, input.first)
            BY <2>1, <2>2, ParseRibOfOne
        <3> QED BY <2>1, <2>2, <3>1, ParseRibUnrolls
    <2>5. output.msgs = parse_rib(st, input.first \o input.rest)
          /\ output.change = SendsChange(parse_rib(st, input.first \o input.rest))
        BY DEF NewsRead, Done
    <2> HIDE DEF first, rest
    <2>6. SendsChange(Followed(first, rest)) <=> /\ first.r = "ok" /\ rest.r = "ok"
                                                 /\ SendsChange(first) \/ SendsChange(rest)
        BY <2>3, SendsForEither
    <2>7. output.msgs = Followed(first, rest) /\ output.change = SendsChange(Followed(first, rest))
        BY <2>4, <2>5
    <2> QED BY <2>6, <2>7 DEF first, rest
<1> QED BY <1>1, AlwaysNewsRead, PTL
=============================================================================
