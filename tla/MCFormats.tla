----------------------------- MODULE MCFormats -----------------------------
(***************************************************************************)
(* The pure parts of the system, run on every input of a bounded set: the  *)
(* packet codecs, the routing table parser, the interface state and the    *)
(* search for the default route.  A behaviour takes one input and computes *)
(* the output for it; the invariants compare the two.                      *)
(***************************************************************************)
EXTENDS MapPackets, RouteMessages, TableFetch, InterfaceState, DefaultRoute, SequencesExt

-----------------------------------------------------------------------------
(* Packets.                                                                *)

\* Datagrams a socket of either protocol may receive: a header with the fields
\* the decoders look at, and any length around the limits.
Filled(head, n) == [k \in 1..n |-> IF k \in DOMAIN head THEN head[k] ELSE 10 + (k % 200)]
PmpDatagrams ==
    {Filled(<<version, opcode>> \o code, n) :
        version \in {0, 1, 2}, opcode \in {0, 1, 2, 3, 128, 129, 130, 131},
        code \in {<<0, 0>>, <<0, 1>>, <<0, 5>>, <<0, 6>>, <<1, 0>>}, n \in {0, 1, 2} \cup 11..17}
PcpDatagrams ==
    {Filled(<<version, opcode, 0, code>> \o Zeros(32) \o <<proto>>, n) :
        version \in {0, 2, 3}, opcode \in {1, 128, 129, 130}, code \in {0, 1, 13, 14},
        proto \in {0, 6, 17}, n \in {0, 23, 24, 25, 59, 60, 61, 72}}
    \cup {Filled(<<2, 129, 0, 0>> \o Zeros(32) \o <<17>>, n) : n \in 1099..1101}

MCDatagrams == PmpDatagrams \cup PcpDatagrams

\* The fields of the packets.
Ip(n) == <<n, n + 1, n + 2, n + 3>>
MCPorts == {<<1, 2>>, <<3, 4>>, Zeros(2)}
MCSeconds == {<<0, 1, 2, 3>>, <<0, 4, 5, 6>>, Zeros(4)}
MCIps == {Ip(5), Ip(9)}
MCAddresses == {Mapped(Ip(5)), Mapped(Zeros(4))}
MCNonces == {[k \in 1..12 |-> 1 + k]}

-----------------------------------------------------------------------------
(* Routing tables.                                                         *)

\* The kernel's side of the format: socket addresses by name.  Masks of IPv4
\* routes end at their last byte that is not zero.
LinkSockaddr(name) ==
    LET b == <<0, 18, 1, 0, 6, Len(name), 6, 0>> \o name \o <<2, 0, 0, 0, 0, 1>>
    IN [b EXCEPT ![1] = Len(b)]
Inet4Sockaddr(ip) == <<16, 2, 0, 0>> \o ip \o Zeros(8)
Inet6Sockaddr(stack, head) ==
    <<28, Stacks[stack].inet6>> \o Zeros(6) \o head \o Zeros(20 - Len(head))
Sockaddr(stack) ==
    [any4 |-> Inet4Sockaddr(Zeros(4)), net4 |-> Inet4Sockaddr(<<10, 0, 0, 0>>),
     local4 |-> Inet4Sockaddr(<<169, 254, 0, 0>>),
     any6 |-> Inet6Sockaddr(stack, <<>>), net6 |-> Inet6Sockaddr(stack, <<32, 1>>),
     local6 |-> Inet6Sockaddr(stack, <<254, 128, 0, 4>>),
     link |-> LinkSockaddr(<<101, 110, 48>>), awdl |-> LinkSockaddr(awdl),
     mask0 |-> <<0>>, mask8 |-> <<5, 0, 0, 0, 255>>, mask24 |-> <<7, 0, 0, 0, 255, 255, 255>>]
Padded(stack, b) == b \o Zeros(roundup(Stacks[stack], b[1]) - Len(b))
Sockaddrs == [stack \in DOMAIN Stacks |->
                 [name \in DOMAIN Sockaddr(stack) |-> Padded(stack, Sockaddr(stack)[name])]]

\* A message of a type with the addresses of attrs, a function from attribute
\* numbers to names.
Body(stack, attrs) ==
    FlattenSeq([k \in 1..9 |-> IF k - 1 \in DOMAIN attrs
                               THEN Sockaddrs[stack][attrs[k - 1]] ELSE <<>>])
AttrBits(attrs) == SumSet({2^i : i \in DOMAIN attrs \cap (0..7)})
Header(stack, typ, size, index, flags, attrs) ==
    LET st == Stacks[stack]
        w == wire_format(st, typ)
        route == w.typ = "Route"
        high == IF 8 \in DOMAIN attrs THEN 1 ELSE 0
        index_at == CASE w.typ \in {"Route", "InterfaceAnnounce"} -> 4
                      [] w.typ = "InterfaceAddr" /\ st.netbsd -> 16
                      [] OTHER -> 12
        attrs_at == IF route THEN 12 ELSE 4
    IN [k \in 1..w.body_off |->
          CASE k = 1 -> size % 256 [] k = 2 -> size \div 256
            [] k = 3 -> st.rtm_version [] k = 4 -> typ
            [] k = index_at + 1 -> index
            [] k = attrs_at + 1 -> AttrBits(attrs) [] k = attrs_at + 2 -> high
            [] route /\ k = 9 -> IF "gateway" \in flags THEN 2 ELSE 0
            [] route /\ k = 12 -> IF "ifscope" \in flags THEN 1 ELSE 0
            [] OTHER -> 0]
Message(stack, m) ==
    LET body == Body(stack, m.attrs)
        size == wire_format(Stacks[stack], m.typ).body_off + Len(body)
    IN Header(stack, m.typ, size, m.index, m.flags, m.attrs) \o body
Rib(stack, ms) == FlattenSeq([k \in 1..Len(ms) |-> Message(stack, ms[k])])

RTM_GET == 4
Route(index, dst, gateway, mask, tail, flags) ==
    [typ |-> RTM_GET, index |-> index, flags |-> flags,
     attrs |-> (RTAX_DST :> dst) @@ (RTAX_GATEWAY :> gateway)
               @@ (IF mask = "none" THEN <<>> ELSE RTAX_NETMASK :> mask)
               @@ (IF tail THEN (RTAX_IFP :> "link") @@ (5 :> "net4") ELSE <<>>)]
Routes(index, dsts, gateways, masks, tails, flags) ==
    {Route(index, d, g, m, t, f) :
        d \in dsts, g \in gateways, m \in masks, t \in tails, f \in flags}

Singles == {<<r>> : r \in Routes(1, {"any4", "net4", "local4", "any6", "net6", "local6"},
                        {"net4", "local6", "link"},
                        {"none", "mask0", "mask8", "any4", "any6", "net6"},
                        BOOLEAN, {{}, {"gateway"}, {"gateway", "ifscope"}})}
Few(index) == Routes(index, {"any4"}, {"net4", "link"}, {"mask0", "mask8"}, {TRUE},
                     {{}, {"gateway"}})
              \cup Routes(index, {"any6"}, {"local6"}, {"any6", "mask0"}, {TRUE}, {{"gateway"}})
Tables == Singles \cup {<<r, q>> : r \in Few(1), q \in Few(2)}

\* What the kernel may announce: a new address, with or without the interface.
NewAddr(stack) == IF stack = "netbsd" THEN 22 ELSE 12
AddressNews(stack) ==
    {[typ |-> NewAddr(stack), index |-> 1, flags |-> {}, attrs |-> as] :
        as \in {(2 :> "mask24") @@ (4 :> i) @@ (5 :> "net4") @@ (7 :> "net4") :
                   i \in {"link", "awdl"}}
              \cup {(4 :> "link") @@ (5 :> "local6")}}
InterfaceNews(stack) ==
    {[typ |-> IF stack = "netbsd" THEN 20 ELSE 14, index |-> 1, flags |-> {}, attrs |-> as] :
        as \in {4 :> "link", <<>>}}
RouteNews == Routes(1, {"net4", "local4", "any6", "local6"}, {"link"}, {"none", "mask24"},
                    BOOLEAN, {{"gateway"}})
News(stack) == AddressNews(stack) \cup InterfaceNews(stack) \cup RouteNews

\* Messages that are not as the kernel writes them: the body is cut short, and
\* the length of its first address is another.
Damaged(stack, typ, attrs, cut, len) ==
    LET body == SubSeq(<<len>> \o Tail(Body(stack, attrs)), 1, cut)
        size == wire_format(Stacks[stack], typ).body_off + Len(body)
    IN Header(stack, typ, size, 1, {}, attrs) \o body
Lengths == {0, 1, 3, 4, 5, 16, 28, 29, 255}
Attributes(first, second) ==
    {first :> a @@ second :> b : a \in {"net4", "net6", "link", "mask24"}, b \in {"net6", "link"}}
DamagedRibs(stack, typ, first, second) ==
    UNION {{Damaged(stack, typ, attrs, cut, len) : cut \in 0..Len(Body(stack, attrs))} :
              attrs \in Attributes(first, second), len \in Lengths}
MCBuffers == DamagedRibs("macos", RTM_GET, 0, 1) \cup DamagedRibs("freebsd", 12, 2, 5)
             \cup DamagedRibs("freebsd", 14, 4, 5) \cup DamagedRibs("netbsd", 22, 5, 8)

\* Reads of two messages as some kernel writes them, the second one whole or cut,
\* or of a message whose length is wrong.
MCReads ==
    LET news == {Message("freebsd", m) : m \in AddressNews("freebsd") \cup InterfaceNews("freebsd")}
                \cup {Message("netbsd", m) : m \in AddressNews("netbsd")}
                \cup {Message("macos", m) : m \in RouteNews}
        rests == news \cup {SubSeq(m, 1, n) : m \in news, n \in {0, 4, 5, 60}}
    IN (news \X rests) \cup {<<Tail(m), m>> : m \in news}

\* The kernel's table while it is fetched: one of these at each call of sysctl.
Moments == {<<>>, <<Route(1, "any4", "net4", "mask0", TRUE, {"gateway"})>>,
            <<Route(2, "net4", "link", "mask8", TRUE, {}),
              Route(3, "any4", "net4", "mask0", TRUE, {"gateway"})>>}
MCKernelTables == {Rib("macos", ms) : ms \in Moments}

RibInit ==
    \E stack \in DOMAIN Stacks :
        \/ \E ms \in Tables :
              input = [kind |-> "table", stack |-> stack, ms |-> ms, b |-> Rib(stack, ms)]
        \/ \E m \in News(stack), n \in News(stack) :
              input = [kind |-> "news", stack |-> stack, ms |-> <<m, n>>,
                       b |-> Rib(stack, <<m, n>>)]

ReadTable ==
    /\ input.kind = "table"
    /\ \E st \in {Stacks[input.stack]} : \E msgs \in {parse_routing_table(st, input.b)} :
          Compute("table", [parsed |-> msgs.r, index |-> default_route_interface_index(st, msgs),
                            router |-> likely_home_router(st, msgs)])
AnnounceNews ==
    /\ input.kind = "news"
    /\ \E msgs \in {parse_rib(Stacks[input.stack], input.b)} :
          Compute("news", [parsed |-> msgs.r, change |-> SendsChange(msgs)])

\* A default route as the kernel writes one.
IsDefault(stack, m) ==
    /\ "gateway" \in m.flags
    /\ ~ (stack = "macos" /\ "ifscope" \in m.flags)
    /\ RTAX_NETMASK \in DOMAIN m.attrs
    /\ <<m.attrs[RTAX_DST], m.attrs[RTAX_NETMASK]>> \in
          {<<"any4", "mask0">>, <<"any4", "any4">>, <<"any6", "any6">>}

\* What the kernel writes is parsed; default_route_interface_index gives the
\* interface of the first default route of the table, and likely_home_router the
\* gateway of the first one that has an address for it: no route to a half of the
\* addresses, host route or route without a gateway is taken for it, though the
\* addresses are found by position.
DefaultGatewayExact ==
    Done("table") =>
        LET defaults == SelectSeq(input.ms, LAMBDA m : IsDefault(input.stack, m))
            routers == SelectSeq(defaults, LAMBDA m : m.attrs[RTAX_GATEWAY] # "link")
        IN /\ output.parsed = "ok"
           /\ output.index = IF defaults = <<>> THEN 0 ELSE defaults[1].index
           /\ output.router = IF routers = <<>> THEN <<>>
                              ELSE IF routers[1].attrs[RTAX_GATEWAY] = "net4" THEN <<10, 0, 0, 0>>
                              ELSE <<254, 128>> \o Zeros(14)

\* What the kernel announces is parsed, and a read from the routing socket that
\* holds a new address, or a route to somewhere that is not link-local, makes the
\* monitor send a Change, whatever the same read holds besides.
ChangesAnnounced ==
    Done("news") =>
        LET Counts(m) == \/ m.typ = NewAddr(input.stack)
                         \/ m.typ = RTM_GET /\ m.attrs[RTAX_DST] \notin {"local4", "local6"}
        IN /\ output.parsed = "ok"
           /\ output.change <=> \E k \in DOMAIN input.ms : Counts(input.ms[k])

-----------------------------------------------------------------------------
(* Interface states.                                                       *)

Net(n, fam, class) == [addr |-> [n |-> n, fam |-> fam, class |-> class], detail |-> 1]
v4 == [loopback |-> Net(1, 4, "loopback"), global |-> Net(2, 4, "global"),
       private |-> Net(3, 4, "private"), linklocal |-> Net(4, 4, "linklocal")]
v6 == [loopback |-> Net(200, 6, "loopback"), global |-> Net(201, 6, "global"),
       private |-> Net(202, 6, "private"), linklocal |-> Net(203, 6, "linklocal")]
Longer(net) == [net EXCEPT !.detail = 2]

Raw(word, number, flags, ipv4, ipv6) ==
    [name |-> [word |-> word, number |-> number], index |-> 1, flags |-> flags, mac |-> "mac",
     ipv4 |-> ipv4, ipv6 |-> ipv6]
Eth(ipv4s, ipv6s) ==
    {Raw("eth", "0", {"up"}, ipv4, ipv6) : ipv4 \in ipv4s, ipv6 \in ipv6s}
Others ==
    {Raw("lo", "", {"up", "loopback"}, <<v4.loopback>>, <<v6.loopback>>)}
    \cup {Raw("awdl", number, {"up"}, <<>>, ipv6) :
            number \in {"", "0"}, ipv6 \in {<<v6.linklocal>>, <<v6.global>>}}
\* An interface that is down, machines on which have_v4 or have_v6 and the local
\* addresses differ, and an interface with one address twice.
Odd == {Raw("eth", "0", {}, <<v4.private>>, <<v6.global>>),
        Raw("lo", "", {"up", "loopback"}, <<v4.loopback, v4.global>>, <<>>),
        Raw("tun", "0", {"up"}, <<>>, <<Net(102, 6, "mapped")>>)}
       \cup Eth({<<v4.private, Longer(v4.private)>>, <<Longer(v4.private), v4.private>>}, {<<>>})
MCMachines ==
    LET alone == Eth({<<>>, <<v4.private>>, <<Longer(v4.private)>>, <<v4.linklocal>>,
                      <<v4.global, v4.private>>, <<v4.private, v4.global>>},
                     {<<>>, <<v6.linklocal>>, <<v6.global, v6.private>>,
                      <<v6.private, v6.global>>})
        first == Eth({<<v4.linklocal>>, <<v4.global, v4.private>>, <<v4.private, v4.global>>},
                     {<<>>, <<v6.private, v6.linklocal>>})
    IN {<<>>} \cup {<<raw>> : raw \in alone \cup Others \cup Odd}
       \cup {<<eth, other>> : eth \in first, other \in Others}
       \cup {<<other, eth>> : other \in Others, eth \in first}

-----------------------------------------------------------------------------
(* The default route on Linux and Android.                                 *)

MCRouteTables == {<<>>} \cup {<<r>> : r \in LinuxRoutes({"a"})}
                 \cup {<<r, q>> : r \in LinuxRoutes({"a"}), q \in LinuxRoutes({"a", "b"})}

-----------------------------------------------------------------------------
Init ==
    /\ \/ PacketInit \/ RibInit \/ BytesInit \/ NewsInit
       \/ FetchInit \/ StateInit \/ RouteInit
    /\ output = Pending
Next ==
    \/ Decode \/ EncodeMapData
    \/ ReadTable \/ AnnounceNews \/ ReadBytes \/ ReadNews \/ Fetch
    \/ CompareStates
    \/ FindDefaultRoute
Spec == Init /\ [][Next]_vars
=============================================================================
