--------------------------- MODULE InterfaceState ---------------------------
(***************************************************************************)
(* What State holds of the machine's interfaces, how it is assembled from  *)
(* the list netdev gives, and when two states differ in a major way.       *)
(*                                                                         *)
(* An address is a record [n, fam, class]: n orders the addresses as       *)
(* IpAddr does (below 100 the IPv4 addresses, from 100 to 199 the IPv6     *)
(* addresses that map them, from 200 the other IPv6 addresses), class is   *)
(* what the predicates on addresses tell apart.  A network is an address   *)
(* with a detail: prefix length and, for IPv6, scope and flags.  A raw     *)
(* interface is what netdev reports; its flags are a set.  A name is a     *)
(* word and a number.                                                      *)
(***************************************************************************)
EXTENDS Naturals, Sequences, FiniteSets, Functions, Computation

\* Classes: "global", "private" (RFC 1918, or fc00::/7), "linklocal", "loopback",
\* "multicast", "mapped" (an IPv4 address mapped into IPv6), "other" (IPv6 outside
\* of 2000::/3 and of all of these).
is_link_local(a) == a.class = "linklocal"
is_loopback(a) == a.class = "loopback"
is_multicast(a) == a.class = "multicast"
is_private(a) == a.class = "private"
to_canonical(a) == IF a.class = "mapped" THEN [n |-> a.n - 100, fam |-> 4, class |-> "global"]
                                            ELSE a

is_usable_v4(a) == a.fam = 4 /\ ~ is_loopback(a)
is_usable_v6(a) == a.fam = 6 /\ a.class \in {"global", "private"}

-----------------------------------------------------------------------------
(* Assembling a State.                                                     *)

\* Mutant: the addresses stay in the order netdev lists them.
to_interface_unsorted(raw) ==
    [name |-> raw.name, index |-> raw.index, flags |-> raw.flags, mac |-> raw.mac,
     addrs |-> raw.ipv4 \o raw.ipv6]

\* sort_by_key, which is stable: entry p is the one with p entries up to it.
ByAddress(nets) ==
    LET Rank(k) == Cardinality({j \in DOMAIN nets :
                        \/ nets[j].addr.n < nets[k].addr.n
                        \/ nets[j].addr.n = nets[k].addr.n /\ j <= k})
    IN [p \in DOMAIN nets |-> nets[CHOOSE k \in DOMAIN nets : Rank(k) = p]]

to_interface(raw) ==
    [name |-> raw.name, index |-> raw.index, flags |-> raw.flags, mac |-> raw.mac,
     addrs |-> ByAddress(raw.ipv4) \o ByAddress(raw.ipv6)]

\* The addresses of the interfaces that are up, by their places: interface,
\* family and number.
UpAddresses(raws) ==
    UNION {{<<k, fam, j>> : j \in DOMAIN raws[k][fam]} :
             k \in {i \in DOMAIN raws : "up" \in raws[i].flags}, fam \in {"ipv4", "ipv6"}}

IpAt(raws, at) == to_canonical(raws[at[1]][at[2]][at[3]].addr)

\* The list an address goes to.  Link-local IPv6 addresses go to none.
ListOf(raws, at) ==
    LET ip == IpAt(raws, at)
    IN IF is_loopback(ip) \/ "loopback" \in raws[at[1]].flags THEN "loopback"
       ELSE IF is_link_local(ip) THEN (IF ip.fam = 4 THEN "linklocal4" ELSE "none")
       ELSE IF ip.fam = 6 /\ is_private(ip) THEN "ula6"
       ELSE "regular"

Listed(raws, lists) == {at \in UpAddresses(raws) : ListOf(raws, at) \in lists}

\* sort: entry p is the address with fewer than p below it and at least p up to it.
SortedIps(raws, places) ==
    LET Below(at) == Cardinality({o \in places : IpAt(raws, o).n < IpAt(raws, at).n})
        UpTo(at) == Cardinality({o \in places : IpAt(raws, o).n <= IpAt(raws, at).n})
    IN [p \in 1..Cardinality(places) |->
          IpAt(raws, CHOOSE at \in places : Below(at) < p /\ p <= UpTo(at))]

\* Mutant: no fallback to link-local and unique local addresses.
local_addresses_strict(raws) ==
    [loopback |-> SortedIps(raws, Listed(raws, {"loopback"})),
     regular |-> SortedIps(raws, Listed(raws, {"regular"}))]

\* Link-local IPv4 and unique local IPv6 addresses count only when there is no
\* regular address of either family.
local_addresses(raws) ==
    [loopback |-> SortedIps(raws, Listed(raws, {"loopback"})),
     regular |-> SortedIps(raws, IF Listed(raws, {"regular"}) = {}
                                 THEN Listed(raws, {"linklocal4", "ula6"})
                                 ELSE Listed(raws, {"regular"}))]

\* Of two interfaces with the same name the later one stays.
get_state(raws, default_route) ==
    LET ifaces == [k \in 1..Len(raws) |-> to_interface(raws[k])]
        up == {k \in 1..Len(raws) : "up" \in ifaces[k].flags}
        addrs == UNION {{ifaces[k].addrs[j].addr : j \in DOMAIN ifaces[k].addrs} : k \in up}
    IN [interfaces |-> [name \in {ifaces[k].name : k \in 1..Len(raws)} |->
                          ifaces[CHOOSE k \in 1..Len(raws) :
                                   /\ ifaces[k].name = name
                                   /\ \A l \in (k + 1)..Len(raws) : ifaces[l].name # name]],
        local_addresses |-> local_addresses(raws),
        have_v4 |-> \E a \in addrs : ~ is_loopback(a) /\ is_usable_v4(a),
        have_v6 |-> \E a \in addrs : ~ is_loopback(a) /\ is_usable_v6(a),
        is_expensive |-> FALSE,
        default_route_interface |-> default_route]

-----------------------------------------------------------------------------
(* Comparing states.                                                       *)

\* PartialEq of Interface: the addresses are left out.
InterfaceEq(i, j) ==
    i.index = j.index /\ i.name = j.name /\ i.flags = j.flags /\ i.mac = j.mac

\* The derived PartialEq of State.
StateEq(s, t) ==
    /\ DOMAIN s.interfaces = DOMAIN t.interfaces
    /\ \A name \in DOMAIN s.interfaces : InterfaceEq(s.interfaces[name], t.interfaces[name])
    /\ s.local_addresses = t.local_addresses
    /\ s.have_v4 = t.have_v4 /\ s.have_v6 = t.have_v6
    /\ s.is_expensive = t.is_expensive
    /\ s.default_route_interface = t.default_route_interface

\* On BSD and macOS; elsewhere every interface is interesting.
\* trim_end_matches takes the ten digits off as one string.
is_interesting_interface(name) ==
    ~ (name.word \in {"llw", "awdl", "ipsec"} /\ name.number \in {"", "0123456789"})

prefixes_major_equal(a, b) ==
    LET Interesting(s) == SelectSeq(s, LAMBDA net :
            ~ (is_link_local(net.addr) \/ is_loopback(net.addr) \/ is_multicast(net.addr)))
    IN Interesting(a) = Interesting(b)

\* Mutant: new interfaces are not looked for.
is_major_change_old_only(self, old) ==
    \/ self.have_v6 # old.have_v6 \/ self.have_v4 # old.have_v4
    \/ self.is_expensive # old.is_expensive
    \/ self.default_route_interface # old.default_route_interface
    \/ \E name \in DOMAIN old.interfaces :
          /\ is_interesting_interface(name)
          /\ \/ name \notin DOMAIN self.interfaces
             \/ ~ InterfaceEq(old.interfaces[name], self.interfaces[name])
             \/ ~ prefixes_major_equal(old.interfaces[name].addrs, self.interfaces[name].addrs)

is_major_change(self, old) ==
    \/ self.have_v6 # old.have_v6 \/ self.have_v4 # old.have_v4
    \/ self.is_expensive # old.is_expensive
    \/ self.default_route_interface # old.default_route_interface
    \/ \E name \in DOMAIN old.interfaces :
          /\ is_interesting_interface(name)
          /\ \/ name \notin DOMAIN self.interfaces
             \/ ~ InterfaceEq(old.interfaces[name], self.interfaces[name])
             \/ ~ prefixes_major_equal(old.interfaces[name].addrs, self.interfaces[name].addrs)
    \/ \E name \in DOMAIN self.interfaces :
          is_interesting_interface(name) /\ name \notin DOMAIN old.interfaces

-----------------------------------------------------------------------------
(* Two machines, or one at two times, compared.                            *)

Classes == {"global", "private", "linklocal", "loopback", "multicast", "mapped", "other"}
Address == [n : Nat, fam : {4, 6}, class : Classes]
Network == [addr : Address, detail : Nat]

CONSTANT Machines        \* the lists netdev may give

\* Every machine is a list of interfaces with lists of networks, and n stands for
\* the address: two local addresses with the same n are the same.
ASSUME MachinesAssumption ==
    \A raws \in Machines :
        /\ raws \in Seq(Range(raws))
        /\ \A k \in DOMAIN raws : raws[k].ipv4 \in Seq(Network) /\ raws[k].ipv6 \in Seq(Network)
        /\ \A at, other \in UpAddresses(raws) :
              IpAt(raws, at).n = IpAt(raws, other).n => IpAt(raws, at) = IpAt(raws, other)

StateInit ==
    \E raws \in Machines, olds \in Machines, route \in {"None", "eth0"} :
        input = [kind |-> "states", raws |-> raws, olds |-> olds, route |-> route]

CompareStates ==
    LET new == get_state(input.raws, "eth0")
        old == get_state(input.olds, input.route)
    IN Compute("states",
          [major |-> is_major_change(new, old), major_back |-> is_major_change(old, new),
           equal |-> StateEq(new, old),
           have |-> new.have_v4 \/ new.have_v6, regular |-> new.local_addresses.regular])

StateSpec == StateInit /\ output = Pending /\ [][CompareStates]_vars

\* The same entries in another order; the same interfaces in another order, with
\* their addresses in another order.
Rearranged(s, t) ==
    \E p \in Bijection(DOMAIN s, DOMAIN t) : \A k \in DOMAIN s : s[k] = t[p[k]]
Relisted(raws, olds) ==
    \E p \in Bijection(DOMAIN raws, DOMAIN olds) : \A k \in DOMAIN raws :
        LET raw == raws[k]
            old == olds[p[k]]
        IN /\ raw.name = old.name /\ raw.index = old.index
           /\ raw.flags = old.flags /\ raw.mac = old.mac
           /\ Rearranged(raw.ipv4, old.ipv4) /\ Rearranged(raw.ipv6, old.ipv6)

\* Every interface is listed once, and in it every address of a family.
EachOnce(raws) ==
    /\ \A k, l \in DOMAIN raws : raws[k].name = raws[l].name => k = l
    /\ \A k \in DOMAIN raws : \A fam \in {"ipv4", "ipv6"} :
          \A i, j \in DOMAIN raws[k][fam] :
              raws[k][fam][i].addr.n = raws[k][fam][j].addr.n => i = j

\* Reading the same machine twice gives equal states without a major change,
\* whatever order netdev lists interfaces and addresses in ("so that comparisons
\* between successive snapshots are stable", to_interface).
SnapshotsStable ==
    Done("states") /\ input.route = "eth0" =>
        (EachOnce(input.raws) /\ Relisted(input.raws, input.olds) =>
            output.equal /\ ~ output.major)

\* A change and its undoing are both major or both minor: nothing that comes up
\* is announced whose going down is not.
MajorSymmetric == Done("states") => output.major = output.major_back

\* Interfaces with the loopback flag have loopback addresses only, and IPv6
\* addresses are of the kinds that is_usable_v6 and local_addresses both know.
Ordinary(raws) ==
    \A at \in UpAddresses(raws) :
        LET a == raws[at[1]][at[2]][at[3]].addr
        IN /\ "loopback" \in raws[at[1]].flags => is_loopback(a)
           /\ a.fam = (IF at[2] = "ipv4" THEN 4 ELSE 6)
           /\ a.fam = 6 => a.class \in {"global", "private", "linklocal", "loopback"}

\* have_v4 and have_v6, computed by get_state from the interfaces, agree with
\* the local addresses it gets from LocalAddresses::new: there is a regular
\* address to offer whenever one of them is set.
UsableAgree ==
    Done("states") /\ Ordinary(input.raws) => (output.have <=> output.regular # <<>>)
=============================================================================
