--------------------------- MODULE RouteMessages ---------------------------
(***************************************************************************)
(* What the messages of the routing information base are used for on BSD   *)
(* and macOS: the default route is picked from a table, and the monitor    *)
(* finds some of the news interesting.                                     *)
(***************************************************************************)
EXTENDS RoutingTable

\* Mutant: the netmask is not looked at.
is_default_gateway_any_mask(stack, m) ==
    /\ m.gateway /\ ~ (stack.darwin /\ m.ifscope)
    /\ Len(m.addrs) > RTAX_NETMASK
    /\ m.addrs[RTAX_DST + 1].t \in {"inet4", "inet6"}
    /\ \A k \in DOMAIN m.addrs[RTAX_DST + 1].ip : m.addrs[RTAX_DST + 1].ip[k] = 0

\* The destination and the netmask are looked up by their attribute numbers.
is_default_gateway(stack, m) ==
    /\ m.gateway
    /\ ~ (stack.darwin /\ m.ifscope)
    /\ Len(m.addrs) > RTAX_NETMASK
    /\ LET dst == m.addrs[RTAX_DST + 1]
           netmask == m.addrs[RTAX_NETMASK + 1]
       IN /\ dst.t = netmask.t /\ dst.t \in {"inet4", "inet6"}
          /\ \A k \in DOMAIN dst.ip : dst.ip[k] = 0
          /\ \A k \in DOMAIN netmask.ip : netmask.ip[k] = 0

\* parse_routing_table keeps the Route messages.
parse_routing_table(stack, rib) ==
    LET msgs == parse_rib(stack, rib)
    IN IF msgs.r # "ok" THEN msgs ELSE Ok(SelectSeq(msgs.v, LAMBDA m : m.t = "Route"))

DefaultGateways(stack, msgs) ==
    IF msgs.r # "ok" THEN <<>> ELSE SelectSeq(msgs.v, LAMBDA m : is_default_gateway(stack, m))

\* The index of the first default route of a parsed table, or 0.
default_route_interface_index(stack, msgs) ==
    LET gws == DefaultGateways(stack, msgs) IN IF gws = <<>> THEN 0 ELSE gws[1].index

\* The gateway of the first default route that has one with an IP address.
likely_home_router(stack, msgs) ==
    LET gws == SelectSeq(DefaultGateways(stack, msgs),
                         LAMBDA m : m.addrs[RTAX_GATEWAY + 1].t \in {"inet4", "inet6"})
    IN IF gws = <<>> THEN <<>> ELSE gws[1].addrs[RTAX_GATEWAY + 1].ip

\* is_link_local, for the bytes of an address.
is_link_local_ip(ip) == IF Len(ip) = 4 THEN ip[1] = 169 /\ ip[2] = 254
                                       ELSE ip[1] = 254 /\ ip[2] \in 128..191

llw == <<108, 108, 119>>
awdl == <<97, 119, 100, 108>>
ipsec == <<105, 112, 115, 101, 99>>

\* is_interesting_interface, for the bytes of a name.  trim_end_matches takes the
\* string "0123456789" off the end as often as it is there.
is_interesting_name(name) ==
    ~ \E base \in {llw, awdl, ipsec} :
        LET n == Len(name) - Len(base)
        IN /\ Len(name) >= Len(base) /\ Slice(name, 0, Len(base)) = base
           /\ n % 10 = 0
           /\ \A k \in 1..n : name[Len(base) + k] = 48 + ((k - 1) % 10)

\* The interface and the destination are looked up by their attribute numbers.
is_interesting_message(m) ==
    \/ m.t = "InterfaceMulticastAddr"
    \/ /\ m.t = "InterfaceAddr"
       /\ ~ /\ Len(m.addrs) > RTAX_IFP /\ m.addrs[RTAX_IFP + 1].t = "link"
            /\ ~ is_interesting_name(m.addrs[RTAX_IFP + 1].name)
    \/ /\ m.t = "Route"
       /\ ~ /\ m.addrs # <<>> /\ m.addrs[RTAX_DST + 1].t \in {"inet4", "inet6"}
            /\ is_link_local_ip(m.addrs[RTAX_DST + 1].ip)

\* Mutant: only the first message of a read is looked at.
SendsChangeFirst(msgs) ==
    msgs.r = "ok" /\ msgs.v # <<>> /\ is_interesting_message(Head(msgs.v))

\* read_available, for what parse_rib gives: whether a Change is sent.
SendsChange(msgs) ==
    msgs.r = "ok" /\ \E k \in DOMAIN msgs.v : is_interesting_message(msgs.v[k])

-----------------------------------------------------------------------------
(* The monitor's reads.                                                    *)

\* The bytes of a read, in two parts.
CONSTANT Reads

ASSUME ReadsAssumption == Reads \subseteq Seq(Byte) \X Seq(Byte)

NewsInit == \E stack \in DOMAIN Stacks, read \in Reads :
                input = [kind |-> "read", stack |-> stack, first |-> read[1], rest |-> read[2]]
ReadNews ==
    /\ input.kind = "read"
    /\ \E msgs \in {parse_rib(Stacks[input.stack], input.first \o input.rest)} :
          Compute("read", [msgs |-> msgs, change |-> SendsChange(msgs)])
NewsSpec == NewsInit /\ output = Pending /\ [][ReadNews]_vars

\* A message by its length, whatever else is in it.
IsWhole(b) == Len(b) > 4 /\ u16(b, 0) = Len(b)

\* The messages of one read do not get in each other's way: what parse_rib makes
\* of a message and what follows it is what it makes of each, also where it
\* skips the message, and read_available sends a Change exactly when it would for
\* one of them alone, unless one of them cannot be parsed.
NewsApart ==
    Done("read") /\ IsWhole(input.first) =>
        LET st == Stacks[input.stack]
            first == parse_rib(st, input.first)
            rest == parse_rib(st, input.rest)
        IN /\ output.msgs = Followed(first, rest)
           /\ output.change <=> /\ first.r = "ok" /\ rest.r = "ok"
                                /\ SendsChange(first) \/ SendsChange(rest)
=============================================================================
