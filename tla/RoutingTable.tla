---------------------------- MODULE RoutingTable ----------------------------
(***************************************************************************)
(* The routing information base (RIB) of BSD and macOS: how its bytes are  *)
(* parsed into messages.                                                   *)
(*                                                                         *)
(* A buffer is a sequence of bytes, little-endian.  A function that        *)
(* returns a Result gives Panic where an index, a slice or a subtraction   *)
(* fails.  The stack says which platform the code was compiled for;        *)
(* OpenBSD, whose messages have no fixed header size, is not among them.   *)
(* Fields nobody reads (id, seq, error, ext_off) are left out; a name with *)
(* a byte above 127 counts as invalid UTF-8.                               *)
(***************************************************************************)
EXTENDS Naturals, Sequences, Computation

Slice(b, i, j) == SubSeq(b, i + 1, j)        \* b[i..j]
Drop(b, n) == SubSeq(b, n + 1, Len(b))       \* b[n..]
u16(b, i) == b[i + 1] + 256 * b[i + 2]
\* Bit i of the u32 at offset o.
Bit(b, o, i) == (b[o + 1 + (i \div 8)] \div 2^(i % 8)) % 2 = 1

AF_INET == 2
AF_LINK == 18
SIZEOF_SOCKADDR_INET == 16
SIZEOF_SOCKADDR_INET6 == 28
RTAX_DST == 0
RTAX_GATEWAY == 1
RTAX_NETMASK == 2
RTAX_IFP == 4
RTAX_BRD == 7
RTF_GATEWAY == 1      \* the bit 0x2
RTF_IFSCOPE == 24     \* the bit 0x1000000

\* probe_routing_stack: the message types a platform knows, with the size of
\* their headers.
Formats(types, typ, body_off) == [types |-> types, typ |-> typ, body_off |-> body_off]
wire_format(stack, typ) == CHOOSE w \in stack.wire_formats : typ \in w.types

macos == [darwin |-> TRUE, netbsd |-> FALSE, inet6 |-> 30, rtax_max |-> 8,
          rtm_version |-> 5, kernel_align |-> 4,
          wire_formats |-> {Formats((1..8) \cup {11, 20}, "Route", 92),
                            Formats({12, 13}, "InterfaceAddr", 20),
                            Formats({14}, "Interface", 112),
                            Formats({15, 16}, "InterfaceMulticastAddr", 16),
                            Formats({18}, "Interface", 160),
                            Formats({19}, "InterfaceMulticastAddr", 20)}]

freebsd == [darwin |-> FALSE, netbsd |-> FALSE, inet6 |-> 28, rtax_max |-> 8,
            rtm_version |-> 5, kernel_align |-> 4,
            wire_formats |-> {Formats((1..8) \cup {11}, "Route", 152),
                              Formats({12, 13}, "InterfaceAddr", 20),
                              Formats({14}, "Interface", 168),
                              Formats({15, 16}, "InterfaceMulticastAddr", 16),
                              Formats({17, 18}, "InterfaceAnnounce", 24)}]

netbsd == [darwin |-> FALSE, netbsd |-> TRUE, inet6 |-> 24, rtax_max |-> 9,
           rtm_version |-> 4, kernel_align |-> 8,
           wire_formats |-> {Formats(1..8, "Route", 120),
                             Formats({22, 23}, "InterfaceAddr", 24),
                             Formats({16}, "InterfaceAnnounce", 24),
                             Formats({20}, "Interface", 152)}]

-----------------------------------------------------------------------------
(* Addresses.                                                              *)

roundup(stack, l) ==
    IF l = 0 THEN stack.kernel_align
    ELSE ((l + stack.kernel_align - 1) \div stack.kernel_align) * stack.kernel_align

Inet4(ip) == [t |-> "inet4", ip |-> ip]
Inet6(ip) == [t |-> "inet6", ip |-> ip]

\* Link-local and interface-local addresses carry the interface index in their
\* second pair of bytes, which becomes the zone.
WithoutZone(oc) ==
    IF \/ oc[1] = 254 /\ oc[2] \in 128..191
       \/ oc[1] = 255 /\ oc[2] % 16 \in {1, 2}
       THEN [oc EXCEPT ![3] = 0, ![4] = 0]
       ELSE oc

parse_inet_addr(b) ==
    IF b[2] = AF_INET
       THEN IF Len(b) < SIZEOF_SOCKADDR_INET THEN Err("InvalidAddress")
            ELSE Ok(Inet4(Slice(b, 4, 8)))
       ELSE IF Len(b) < SIZEOF_SOCKADDR_INET6 THEN Err("InvalidAddress")
            ELSE Ok(Inet6(WithoutZone(Slice(b, 8, 24))))

\* The bytes of an address in kernel form, l of them with the length byte.
KernelOctets(b, l) ==
    IF l < 1 THEN Panic
    ELSE IF l - 1 < 4 THEN Ok(Inet4(Slice(b, 1, l) \o [k \in 1..(5 - l) |-> 0]))
    ELSE Ok(Inet4(Slice(b, l - 4, l)))

\* On Darwin the length is not rounded up when nothing follows.
KernelLength(stack, b) ==
    IF stack.darwin /\ b[1] # 0 /\ Len(b) <= roundup(stack, b[1])
       THEN b[1] ELSE roundup(stack, b[1])

\* Only ever called for AF_UNSPEC.
parse_kernel_inet_addr(stack, b) ==
    LET l == KernelLength(stack, b)
    IN IF Len(b) < l THEN Err("InvalidAddress")
       ELSE IF b[1] = SIZEOF_SOCKADDR_INET6
               THEN IF Len(b) < 24 THEN Err("InvalidMessage") ELSE Ok(Inet6(Slice(b, 8, 24)))
       ELSE IF b[1] = SIZEOF_SOCKADDR_INET
               THEN IF Len(b) < 8 THEN Err("InvalidMessage") ELSE Ok(Inet4(Slice(b, 4, 8)))
       ELSE KernelOctets(b, l)

\* Mutant: the lengths are not compared with what is left.
parse_kernel_link_addr_unchecked(b) ==
    IF Len(b) < 4 \/ Len(b) < 4 + b[2] THEN Panic
    ELSE Ok([t |-> "link", name |-> Slice(b, 4, 4 + b[2])])

\* The sockaddr from its type on: type, three lengths, name, address, selector.
parse_kernel_link_addr(b) ==
    IF Len(b) < 4 THEN Panic
    ELSE LET length(n) == IF n = 255 THEN 0 ELSE n
             name == Slice(b, 4, 4 + length(b[2]))
         IN IF Len(b) < 4 + length(b[2]) + length(b[3]) + length(b[4]) THEN Err("InvalidAddress")
            ELSE IF \E k \in DOMAIN name : name[k] > 127 THEN Err("InvalidAddress")
            ELSE Ok([t |-> "link", name |-> name])

parse_link_addr(b) ==
    IF Len(b) < 8 THEN Err("InvalidAddress") ELSE parse_kernel_link_addr(Drop(b, 4))

parse_default_addr(b) ==
    IF Len(b) < 2 \/ Len(b) < b[1] THEN Err("InvalidAddress")
    ELSE Ok([t |-> "default", af |-> b[2]])

\* The address of attribute i; one of an unknown family is in kernel form.
InKernelForm(stack, b, i) == i <= RTAX_BRD /\ b[2] \notin {AF_LINK, AF_INET, stack.inet6}
AddrAt(stack, b, i) ==
    IF i > RTAX_BRD THEN parse_default_addr(b)
    ELSE IF b[2] = AF_LINK THEN parse_link_addr(b)
    ELSE IF b[2] \in {AF_INET, stack.inet6} THEN parse_inet_addr(b)
    ELSE parse_kernel_inet_addr(stack, b)

\* One round of parse_addrs' loop, for an attribute that is present: acc has
\* what is left and the addresses so far.  What is left may end after the length
\* of an address in kernel form.
AddrStep(stack, acc, i) ==
    LET b == acc.b
        a == AddrAt(stack, b, i)
        kernel == InKernelForm(stack, b, i)
        l == roundup(stack, b[1])
        n == IF kernel /\ Len(b) < l THEN b[1] ELSE l
    IN IF a.r # "ok" THEN [r |-> a.r, b |-> b, v |-> a.v]
       ELSE IF Len(b) < n
               THEN [r |-> IF kernel THEN "panic" ELSE "err", b |-> b, v |-> "MessageTooShort"]
       ELSE [r |-> "ok", b |-> Drop(b, n), v |-> Append(acc.v, a.v)]

\* The loop, after the attributes below i.  An address that is absent takes no
\* place in the result.
AddrRound(stack, attrs, data, i, before) ==
    IF i = 0 THEN [r |-> "ok", b |-> data, v |-> <<>>]
    ELSE IF before.r = "ok" /\ Len(before.b) >= roundup(stack, 0) /\ i - 1 \in attrs
            THEN AddrStep(stack, before, i - 1)
            ELSE before
parse_addrs(stack, attrs, data) ==
    LET after[i \in 0..stack.rtax_max] ==
            AddrRound(stack, attrs, data, i, IF i = 0 THEN <<>> ELSE after[i - 1])
        end == after[stack.rtax_max]
    IN [r |-> end.r, v |-> end.v]

-----------------------------------------------------------------------------
(* Messages.                                                               *)

\* The attributes whose bits are set in the u32 at offset o.
Attrs(stack, data, o) == {i \in 0..(stack.rtax_max - 1) : Bit(data, o, i)}

\* The name in an announcement ends at its first zero byte.
AnnouncedName(data) ==
    LET Ends(i) == data[7 + i] = 0 /\ \A j \in 0..(i - 1) : data[7 + j] # 0
    IN IF \E i \in 0..15 : Ends(i) THEN Slice(data, 6, 6 + CHOOSE i \in 0..15 : Ends(i)) ELSE <<>>

Parsed(addrs, m) == IF addrs.r # "ok" THEN addrs ELSE Ok(<<m>>)

\* WireFormat::parse.  None is Ok(<<>>).
parse(stack, w, data) ==
    LET body == Drop(data, w.body_off)
        addrs == parse_addrs(stack, Attrs(stack, data, IF w.typ = "Route" THEN 12 ELSE 4), body)
        ifp == parse_link_addr(body)
        name == AnnouncedName(data)
        index_at == IF w.typ = "InterfaceAddr" /\ stack.netbsd THEN 16 ELSE 12
    IN IF Len(data) < w.body_off THEN Err("MessageTooShort")
       ELSE IF Len(data) < u16(data, 0) THEN Err("InvalidMessage")
       ELSE
         CASE w.typ = "Route" ->
                IF data[16] >= 128 THEN Err("InvalidMessage")
                ELSE Parsed(addrs, [t |-> w.typ, addrs |-> addrs.v, index |-> u16(data, 4),
                                         gateway |-> Bit(data, 8, RTF_GATEWAY),
                                         ifscope |-> Bit(data, 8, RTF_IFSCOPE)])
           [] w.typ = "Interface" ->
                IF ~ Bit(data, 4, RTAX_IFP) THEN Ok(<<>>)
                ELSE Parsed(ifp, [t |-> w.typ, addrs |-> <<ifp.v>>, index |-> u16(data, 12)])
           [] w.typ \in {"InterfaceAddr", "InterfaceMulticastAddr"} ->
                Parsed(addrs, [t |-> w.typ, addrs |-> addrs.v, index |-> u16(data, index_at)])
           [] w.typ = "InterfaceAnnounce" ->
                IF \E k \in DOMAIN name : name[k] > 127 THEN Err("InvalidAddress")
                ELSE Ok(<<[t |-> w.typ, addrs |-> <<>>, index |-> u16(data, 4), name |-> name]>>)

\* The message at the beginning of b; one of another version or type is skipped.
FirstMessage(stack, b) ==
    IF b[3] = stack.rtm_version /\ \E w \in stack.wire_formats : b[4] \in w.types
       THEN parse(stack, wire_format(stack, b[4]), Slice(b, 0, u16(b, 0)))
       ELSE Ok(<<>>)

Followed(m, rest) ==
    IF m.r # "ok" THEN m ELSE IF rest.r # "ok" THEN rest ELSE Ok(m.v \o rest.v)

\* Mutant: a message of another version ends the loop.
RibRoundStops(stack, b, rest) ==
    IF Len(b) <= 4 \/ b[3] # stack.rtm_version THEN Ok(<<>>)
    ELSE IF u16(b, 0) = 0 THEN Err("InvalidMessage")
    ELSE IF Len(b) < u16(b, 0) THEN Err("MessageTooShort")
    ELSE Followed(FirstMessage(stack, b), rest)

\* What the loop makes of b when it makes rest of what follows b's first message.
RibRound(stack, b, rest) ==
    IF Len(b) <= 4 THEN Ok(<<>>)
    ELSE IF u16(b, 0) = 0 THEN Err("InvalidMessage")
    ELSE IF Len(b) < u16(b, 0) THEN Err("MessageTooShort")
    ELSE Followed(FirstMessage(stack, b), rest)

\* Every type parse_rib is called with is valid on every platform, and its last
\* comparison of counters always holds.  Up to four trailing bytes are ignored.
parse_rib(stack, data) ==
    LET from[n \in 0..Len(data)] ==
            LET b == Drop(data, Len(data) - n)
            IN RibRound(stack, b, from[n - u16(b, 0)])
    IN from[Len(data)]

-----------------------------------------------------------------------------
(* The parser at work.                                                     *)

Stacks == [macos |-> macos, freebsd |-> freebsd, netbsd |-> netbsd]

CONSTANT Buffers

\* The system call gives bytes.
ASSUME BuffersAssumption == Buffers \subseteq Seq(Byte)

BytesInit == \E stack \in DOMAIN Stacks, b \in Buffers :
                 input = [kind |-> "bytes", stack |-> stack, b |-> b]
ReadBytes == Compute("bytes", parse_rib(Stacks[input.stack], input.b))
BytesSpec == BytesInit /\ output = Pending /\ [][ReadBytes]_vars

\* What Rust's types say of an address and of a message.
Char == 0..127
Word == {n \in Nat : n < 65536}
Addr == [t : {"inet4"}, ip : [1..4 -> Byte]] \cup [t : {"inet6"}, ip : [1..16 -> Byte]]
        \cup [t : {"link"}, name : Seq(Char)] \cup [t : {"default"}, af : Byte]
InterfaceTypes == {"Interface", "InterfaceAddr", "InterfaceMulticastAddr"}
WireMessages ==
    [t : {"Route"}, addrs : Seq(Addr), index : Word, gateway : BOOLEAN, ifscope : BOOLEAN]
    \cup [t : InterfaceTypes, addrs : Seq(Addr), index : Word]
    \cup [t : {"InterfaceAnnounce"}, addrs : Seq(Addr), index : Word, name : Seq(Char)]

\* No index, slice or subtraction of parse_rib is out of range, whatever is cut
\* off and whatever the lengths in the bytes say; each address of a message it
\* returns is whole, so that is_default_gateway and is_link_local may look at the
\* bytes of any of them.
ParserTotal ==
    Done("bytes") => \/ output.r = "err"
                     \/ output.r = "ok" /\ output.v \in Seq(WireMessages)
=============================================================================
