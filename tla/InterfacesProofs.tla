-------------------------- MODULE InterfacesProofs --------------------------
(***************************************************************************)
(* The default route on any routing table and whatever fails, the fetch    *)
(* of the routing table whatever the kernel's table is at each call, and   *)
(* the states get_state makes of any lists of interfaces.                  *)
(***************************************************************************)
EXTENDS TableFetch, InterfaceState, DefaultRoute, WellFoundedInduction,
        FiniteSetTheorems, TLAPS

-----------------------------------------------------------------------------
(* The first place of a search.                                            *)

\* Every set of numbers that is not empty has a least one, and Min gives it.
LEMMA LeastOne ==
    ASSUME NEW T \in SUBSET Nat, T # {}
    PROVE  Min(T) \in T /\ \A y \in T : Min(T) <= y
<1>1. \E x \in T : \A y \in T : ~ (<<y, x>> \in OpToRel(<, Nat))
    <2> DEFINE less == OpToRel(<, Nat)
    <2>1. IsWellFoundedOn(less, Nat)
        BY NatLessThanWellFounded
    <2> HIDE DEF less
    <2>2. \E x \in T : \A y \in T : ~ (<<y, x>> \in less)
        BY <2>1, WFMin, Zenon
    <2> QED BY <2>2 DEF less
<1>2. \A x, y \in Nat : <<y, x>> \in OpToRel(<, Nat) <=> y < x
    BY DEF OpToRel
<1>3. \E x \in T : \A y \in T : ~ (y < x)
    BY <1>1, <1>2, Zenon
<1>4. \E x \in T : \A y \in T : x <= y
    BY <1>3
<1> QED BY <1>4, Zenon DEF Min

-----------------------------------------------------------------------------
(* The default route on Linux and Android.                                 *)

\* A routing table, and the places of the default routes of a family in it.
Table == Seq(LinuxRoutes(Interfaces))
Places(routes, fam) ==
    {k \in DOMAIN routes : /\ routes[k].kind = "default" /\ routes[k].fam = fam
                           /\ (fam = 4 \/ routes[k].gateway)}

LEMMA RouteInTable ==
    ASSUME NEW routes \in Table, NEW k \in DOMAIN routes
    PROVE  /\ k \in Nat /\ routes[k].iface \in Interfaces /\ routes[k].kind \in RouteKinds
           /\ routes[k].fam \in {4, 6} /\ routes[k].gateway \in BOOLEAN
<1>1. k \in Nat /\ routes[k] \in LinuxRoutes(Interfaces)
    BY DEF Table
<1> QED BY <1>1 DEF LinuxRoutes

LEMMA InterfaceOfPlace ==
    ASSUME NEW routes \in Table, NEW fam \in {4, 6}
    PROVE  /\ DefaultsOf(routes, fam) # {} <=> Places(routes, fam) # {}
           /\ \A k \in Places(routes, fam) :
                 routes[k].iface \in DefaultsOf(routes, fam) /\ ~ Failed(routes[k].iface)
<1>1. \A k \in DOMAIN routes : routes[k].iface \in Interfaces
    BY RouteInTable
<1>2. DefaultsOf(routes, fam) = {routes[k].iface : k \in Places(routes, fam)}
    BY DEF DefaultsOf, Places
<1>3. \A k \in Places(routes, fam) : k \in DOMAIN routes
    BY DEF Places
<1> QED BY <1>1, <1>2, <1>3, RoutesAssumption

\* /proc/net/route gives the interface of an IPv4 default route, or it gives
\* nothing and there is none or something has failed.
LEMMA ProcRoute ==
    ASSUME NEW routes \in Table, NEW faults
    PROVE  LET proc == default_route_proc(routes, faults)
           IN /\ proc \in DefaultsOf(routes, 4) \cup {None, Error}
              /\ faults = {} /\ DefaultsOf(routes, 4) # {} => ~ Failed(proc)
<1> DEFINE v4 == {j \in DOMAIN routes : routes[j].fam = 4}
           lines == [k \in v4 |-> ProcLine(routes[k])]
           zero == {k \in DOMAIN lines :
                      "zero" \in {lines[k].destination, lines[k].gateway, lines[k].mask}}
           found == {k \in zero : IsDefaultLine(lines[k])}
<1>1. default_route_proc(routes, faults) =
         IF "proc" \in faults THEN Error
         ELSE IF "line" \in faults /\ zero # {} THEN Error
         ELSE IF found = {} THEN None ELSE lines[Min(found)].iface
    BY DEF default_route_proc
<1>2. \A k \in v4 : /\ lines[k].iface = routes[k].iface
                    /\ lines[k].destination \in {"zero", "other"}
                    /\ lines[k].mask = "zero" <=> routes[k].kind = "default"
                    /\ routes[k].kind = "default" => lines[k].destination = "zero"
    BY DEF ProcLine
<1>3. found = Places(routes, 4) /\ found \in SUBSET Nat /\ found \subseteq v4
    <2>1. DOMAIN lines = v4 /\ v4 \subseteq Nat
        BY RouteInTable
    <2> HIDE DEF lines
    <2>2. \A k \in v4 : k \in found <=> routes[k].kind = "default"
        BY <1>2, <2>1 DEF IsDefaultLine
    <2>3. found \subseteq v4
        BY <2>1
    <2>4. \A k : k \in Places(routes, 4) <=> k \in v4 /\ routes[k].kind = "default"
        BY DEF Places
    <2> QED BY <2>1, <2>2, <2>3, <2>4
<1> HIDE DEF found, zero, lines
<1>4. CASE found = {}
    BY <1>1, <1>3, <1>4, InterfaceOfPlace DEF Failed
<1>5. CASE found # {}
    <2>1. Min(found) \in found
        BY <1>3, <1>5, LeastOne
    <2>2. /\ lines[Min(found)].iface = routes[Min(found)].iface
          /\ routes[Min(found)].iface \in DefaultsOf(routes, 4)
          /\ ~ Failed(routes[Min(found)].iface)
        BY <1>2, <1>3, <2>1, InterfaceOfPlace
    <2> QED BY <1>1, <1>5, <2>2
<1> QED BY <1>4, <1>5

\* The same for the dump of one family that netlink gives, which takes only
\* routes with a gateway for default routes, and for the whole of netlink.
LEMMA NetlinkFamily ==
    ASSUME NEW routes \in Table, NEW fam \in {4, 6}, NEW faults
    PROVE  LET res == default_route_netlink_family(routes, fam, faults)
           IN /\ res \in DefaultsOf(routes, fam) \cup {None, Error}
              /\ faults = {} => res # Error
              /\ faults = {} /\ fam = 6 /\ DefaultsOf(routes, 6) # {} => ~ Failed(res)
<1> DEFINE found == {k \in DOMAIN routes : /\ routes[k].fam = fam /\ routes[k].gateway
                                           /\ routes[k].kind = "default"}
<1>1. default_route_netlink_family(routes, fam, faults) =
         IF (IF fam = 4 THEN "dump4" ELSE "dump6") \in faults THEN Error
         ELSE IF found = {} THEN None
         ELSE IF "link" \in faults THEN Error
         ELSE routes[Min(found)].iface
    BY DEF default_route_netlink_family
<1>2. /\ found \in SUBSET Nat /\ found \subseteq Places(routes, fam)
      /\ fam = 6 => found = Places(routes, fam)
    BY RouteInTable DEF Places
<1> HIDE DEF found
<1>3. CASE found = {}
    BY <1>1, <1>2, <1>3, InterfaceOfPlace DEF None, Error
<1>4. CASE found # {}
    <2>1. Min(found) \in Places(routes, fam)
        BY <1>2, <1>4, LeastOne, Zenon
    <2>2. /\ routes[Min(found)].iface \in DefaultsOf(routes, fam)
          /\ ~ Failed(routes[Min(found)].iface)
        BY <2>1, InterfaceOfPlace
    <2> QED BY <1>1, <1>4, <2>2 DEF Failed
<1> QED BY <1>3, <1>4

LEMMA NetlinkRoute ==
    ASSUME NEW routes \in Table, NEW faults
    PROVE  LET res == NetlinkDefaultRoute(routes, faults)
           IN /\ res \in DefaultsOf(routes, 4) \cup DefaultsOf(routes, 6) \cup {None, Error}
              /\ faults = {} /\ DefaultsOf(routes, 6) # {} => ~ Failed(res)
<1> DEFINE v4 == default_route_netlink_family(routes, 4, faults)
           v6 == default_route_netlink_family(routes, 6, faults)
<1>1. NetlinkDefaultRoute(routes, faults) =
         IF "netlink" \in faults THEN Error ELSE IF v4 = None THEN v6 ELSE v4
    BY DEF NetlinkDefaultRoute
<1>2. /\ v4 \in DefaultsOf(routes, 4) \cup {None, Error} /\ (faults = {} => v4 # Error)
      /\ v6 \in DefaultsOf(routes, 6) \cup {None, Error}
      /\ faults = {} /\ DefaultsOf(routes, 6) # {} => ~ Failed(v6)
    BY NetlinkFamily
<1> HIDE DEF v4, v6
<1> QED BY <1>1, <1>2 DEF Failed

\* On Android the word after "dev" is the interface of the route the line is of.
LEMMA AndroidRoute ==
    ASSUME NEW routes \in Table, NEW faults
    PROVE  AndroidDefaultRoute(routes, faults) \in DefaultsOf(routes, 4) \cup {None, Error}
<1> DEFINE v4 == {j \in DOMAIN routes : routes[j].fam = 4}
           lines == [k \in v4 |-> AndroidLine(routes[k])]
           dev(k) == {j \in DOMAIN lines[k] : lines[k][j] = "dev"}
           found == {k \in DOMAIN lines : /\ Len(lines[k]) > 1 /\ dev(k) # {}
                                          /\ lines[k][1] = "default" /\ lines[k][2] = "via"}
           line == lines[Min(found)]
           at == Min(dev(Min(found)))
<1>1. AndroidDefaultRoute(routes, faults) =
         IF "ip" \in faults THEN Error
         ELSE IF found = {} \/ at = Len(line) THEN None ELSE line[at + 1]
    BY DEF AndroidDefaultRoute, parse_android_ip_route
<1>2. CASE found # {}
    <2>1. found \in SUBSET Nat /\ found \subseteq v4
        BY RouteInTable
    <2>2. Min(found) \in found
        BY <1>2, <2>1, LeastOne, Zenon
    <2> DEFINE r == routes[Min(found)]
    <2>3. Min(found) \in v4 /\ line = AndroidLine(r)
        BY <2>1, <2>2, Zenon
    <2>4. line[1] = "default" /\ line[2] = "via" /\ Len(line) > 1
        BY <2>2, Zenon
    <2> HIDE DEF line, found
    <2>5. /\ r.kind = "default"
          /\ line = <<"default", "via", "router", "dev", r.iface, "table", "1016">>
        BY <2>3, <2>4 DEF AndroidLine
    <2>6. /\ DOMAIN line = 1..7 /\ Len(line) = 7 /\ line[4] = "dev" /\ line[5] = r.iface
          /\ line[1] # "dev" /\ line[2] # "dev" /\ line[3] # "dev"
        BY <2>5
    <2>7. dev(Min(found)) = {j \in DOMAIN line : line[j] = "dev"}
        BY DEF line
    <2> HIDE DEF dev
    <2>8. at = 4
        <3>1. /\ dev(Min(found)) \in SUBSET Nat /\ 4 \in dev(Min(found))
              /\ \A j \in dev(Min(found)) : j >= 4
            BY <2>6, <2>7
        <3>2. at \in dev(Min(found)) /\ at <= 4
            BY <3>1, LeastOne
        <3> QED BY <3>1, <3>2
    <2>9. AndroidDefaultRoute(routes, faults) \in {Error, r.iface}
        BY <1>1, <1>2, <2>6, <2>8
    <2>10. r.iface \in DefaultsOf(routes, 4)
        BY <2>3, <2>5 DEF DefaultsOf
    <2> QED BY <2>9, <2>10
<1>3. CASE found = {}
    BY <1>1, <1>3, Zenon
<1> QED BY <1>2, <1>3

\* The interface default_route names has a default route, whatever the table and
\* whatever fails on the way; when nothing fails an IPv4 default route is found
\* before any IPv6 one.
THEOREM RouteFoundIsRight == RouteSpec => []DefaultRouteRight
<1> DEFINE Asked ==
        /\ input.routes \in Table
        /\ output \in {Pending, [found |-> default_route(input.android, input.routes,
                                                         input.faults)]}
<1>1. RouteInit /\ output = Pending => Asked
    BY RoutesAssumption DEF RouteInit, Table
<1>2. Asked /\ [FindDefaultRoute]_vars => Asked'
    BY DEF FindDefaultRoute, Compute, vars
<1>3. Asked => DefaultRouteRight
    <2> SUFFICES ASSUME Asked, Done("route") PROVE DefaultRouteRight
        BY DEF DefaultRouteRight
    <2> DEFINE v4 == DefaultsOf(input.routes, 4)
               v6 == DefaultsOf(input.routes, 6)
               proc == default_route_proc(input.routes, input.faults)
               android == AndroidDefaultRoute(input.routes, input.faults)
               netlink == NetlinkDefaultRoute(input.routes, input.faults)
               res == IF input.android THEN android ELSE netlink
    <2>1. output.found = IF ~ Failed(proc) THEN proc ELSE IF res = Error THEN None ELSE res
        BY DEF Done, default_route
    <2>2. /\ proc \in v4 \cup {None, Error}
          /\ input.faults = {} /\ v4 # {} => ~ Failed(proc)
        BY ProcRoute
    <2>3. /\ netlink \in v4 \cup v6 \cup {None, Error}
          /\ input.faults = {} /\ v6 # {} => ~ Failed(netlink)
        BY NetlinkRoute
    <2>4. android \in v4 \cup {None, Error}
        BY AndroidRoute
    <2> HIDE DEF v4, v6, proc, android, netlink
    <2>5. \A x : Failed(x) <=> x = None \/ x = Error
        BY DEF Failed
    <2>6. /\ output.found # None => output.found \in v4 \cup v6
          /\ input.faults = {} /\ v4 # {} => output.found \in v4
          /\ input.faults = {} /\ ~ input.android /\ v6 # {} => output.found # None
        BY <2>1, <2>2, <2>3, <2>4, <2>5
    <2> QED BY <2>6 DEF DefaultRouteRight, v4, v6
<1> QED BY <1>1, <1>2, <1>3, PTL DEF RouteSpec

-----------------------------------------------------------------------------
(* The fetch of the routing table.                                         *)

\* Whatever the kernel's table is at each call of sysctl, and whichever calls
\* fail, fetch_rib returns the table of one of the calls, and gives up only when
\* a call failed or the table outgrew the buffer in every round.
THEOREM FetchIsOneTable == FetchSpec => []FetchedTableIsOne
<1> DEFINE Asked ==
        /\ DOMAIN input.tables = 1..6
        /\ output \in {Pending, [fetched |-> fetch_rib(input.tables, input.failing)]}
<1>1. FetchInit /\ output = Pending => Asked
    BY DEF FetchInit, MAX_TRIES
<1>2. Asked /\ [Fetch]_vars => Asked'
    BY DEF Fetch, Compute, vars
<1>3. Asked => FetchedTableIsOne
    <2> SUFFICES ASSUME Asked, Done("fetch") PROVE FetchedTableIsOne
        BY DEF FetchedTableIsOne
    <2> DEFINE t == input.tables
               again == {k \in 1..MAX_TRIES :
                           /\ {2 * k - 1, 2 * k} \cap input.failing = {}
                           /\ t[2 * k - 1] # <<>>
                           /\ Len(t[2 * k]) > Len(t[2 * k - 1])}
               last == (1..MAX_TRIES) \ again
               k == Min(last)
    <2> DEFINE fetched == fetch_rib(input.tables, input.failing)
    <2>0. output.fetched = fetched
        BY DEF Done
    <2>1. output.fetched = IF last = {} \/ 2 * k - 1 \in input.failing THEN Err("Sysctl")
                           ELSE IF t[2 * k - 1] = <<>> THEN Ok(<<>>)
                           ELSE IF 2 * k \in input.failing THEN Err("Sysctl") ELSE Ok(t[2 * k])
        BY <2>0, Zenon DEF fetch_rib
    <2>2. CASE last = {}
        <3>1. \A j \in 1..MAX_TRIES : Len(t[2 * j]) > Len(t[2 * j - 1])
            BY <2>2
        <3>2. output.fetched.r = "err"
            BY <2>1, <2>2 DEF Err
        <3> QED BY <3>1, <3>2 DEF FetchedTableIsOne
    <2>3. CASE last # {}
        <3>1. k \in 1..3
            <4>1. last \in SUBSET Nat /\ last \subseteq 1..3
                BY DEF MAX_TRIES
            <4> HIDE DEF last
            <4> QED BY <2>3, <4>1, LeastOne, Zenon
        <3> HIDE DEF k, last
        <3>2. 2 * k - 1 \in DOMAIN t /\ 2 * k \in DOMAIN t
            BY <3>1
        <3>3. \/ output.fetched = Err("Sysctl") /\ input.failing # {}
              \/ output.fetched = Ok(t[2 * k - 1])
              \/ output.fetched = Ok(t[2 * k])
            BY <2>1, <2>3
        <3> QED BY <3>2, <3>3 DEF FetchedTableIsOne, Ok, Err
    <2> QED BY <2>2, <2>3
<1> QED BY <1>1, <1>2, <1>3, PTL DEF FetchSpec

-----------------------------------------------------------------------------
(* Bijections.                                                             *)

\* What a bijection is, and that nothing else is one.
LEMMA BijectionIs ==
    ASSUME NEW S, NEW T, NEW g \in Bijection(S, T)
    PROVE  /\ g \in [S -> T]
           /\ \A x, y \in S : g[x] = g[y] => x = y
           /\ \A z \in T : \E x \in S : g[x] = z
BY Zenon DEF Bijection, Injection, Surjection, IsInjective

LEMMA IsBijection ==
    ASSUME NEW S, NEW T, NEW g \in [S -> T],
           \A x, y \in S : g[x] = g[y] => x = y,
           \A z \in T : \E x \in S : g[x] = z
    PROVE  g \in Bijection(S, T)
BY Zenon DEF Bijection, Injection, Surjection, IsInjective

\* Corresponding parts of two sets with a bijection between them have as many
\* elements.
LEMMA SameCount ==
    ASSUME NEW S, NEW T, IsFiniteSet(S), NEW g \in Bijection(S, T),
           NEW A \in SUBSET S, NEW B \in SUBSET T,
           \A x \in S : x \in A <=> g[x] \in B
    PROVE  Cardinality(A) = Cardinality(B)
<1> DEFINE h == [x \in A |-> g[x]]
<1>1. /\ g \in [S -> T]
      /\ \A x, y \in S : g[x] = g[y] => x = y
      /\ \A z \in T : \E x \in S : g[x] = z
    BY BijectionIs, SMT
<1>2. h \in Bijection(A, B)
    <2>1. h \in [A -> B]
        BY <1>1
    <2>2. \A x, y \in A : h[x] = h[y] => x = y
        BY <1>1
    <2>3. \A z \in B : \E x \in A : h[x] = z
        BY <1>1
    <2> HIDE DEF h
    <2> QED BY <2>1, <2>2, <2>3, IsBijection, Zenon
<1>3. IsFiniteSet(A)
    BY FS_Subset, Zenon
<1> QED BY <1>2, <1>3, FS_Bijection, Zenon DEF ExistsBijection

-----------------------------------------------------------------------------
(* Sorting.                                                                *)

\* How many of the keys stand up to key k in a stable order.
UpToRank(keys, k) ==
    {j \in DOMAIN keys : keys[j] < keys[k] \/ (keys[j] = keys[k] /\ j <= k)}
RankOf(keys) == [k \in DOMAIN keys |-> Cardinality(UpToRank(keys, k))]

\* The ranks of m keys are 1 to m, each once.
LEMMA RankBijection ==
    ASSUME NEW m \in Nat, NEW keys \in [1..m -> Int]
    PROVE  RankOf(keys) \in Bijection(1..m, 1..m)
<1> DEFINE D == 1..m
<1>1. DOMAIN keys = D /\ \A k \in D : keys[k] \in Int /\ k \in Int
    OBVIOUS
<1>2. IsFiniteSet(D) /\ Cardinality(D) = m
    <2>1. 0 \in Int /\ 1 \in Int /\ m \in Int
        OBVIOUS
    <2>2. IsFiniteSet(1..m) /\ Cardinality(1..m) = IF 1 > m THEN 0 ELSE m - 1 + 1
        BY <2>1, FS_Interval, Zenon
    <2> QED BY <2>2
<1>3. ASSUME NEW k \in D
      PROVE  /\ UpToRank(keys, k) \in SUBSET D /\ k \in UpToRank(keys, k)
             /\ IsFiniteSet(UpToRank(keys, k))
             /\ Cardinality(UpToRank(keys, k)) \in 1..m
    <2>1. UpToRank(keys, k) \in SUBSET D /\ k \in UpToRank(keys, k)
        BY <1>1 DEF UpToRank
    <2>2. /\ IsFiniteSet(UpToRank(keys, k))
          /\ Cardinality(UpToRank(keys, k)) <= Cardinality(D)
        BY <2>1, <1>2, FS_Subset, Zenon
    <2>3. Cardinality(UpToRank(keys, k)) \in Nat
        BY <2>2, FS_CardinalityType, Zenon
    <2>4. Cardinality(UpToRank(keys, k)) # 0
        BY <2>1, <2>2, FS_EmptySet, Zenon
    <2>5. Cardinality(UpToRank(keys, k)) \in 1..m
        BY <2>2, <2>3, <2>4, <1>2
    <2> QED BY <2>1, <2>2, <2>5
<1>4. ASSUME NEW k \in D, NEW l \in D,
             keys[k] < keys[l] \/ (keys[k] = keys[l] /\ k < l)
      PROVE  Cardinality(UpToRank(keys, k)) # Cardinality(UpToRank(keys, l))
    <2>1. UpToRank(keys, k) \in SUBSET UpToRank(keys, l)
        BY <1>1, <1>4 DEF UpToRank
    <2>2. l \notin UpToRank(keys, k)
        BY <1>1, <1>4 DEF UpToRank
    <2>3. l \in UpToRank(keys, l) /\ IsFiniteSet(UpToRank(keys, l))
        BY <1>3
    <2> QED BY <2>1, <2>2, <2>3, FS_Subset, Zenon
<1>5. \A k, l \in D : k = l \/ keys[k] < keys[l] \/ (keys[k] = keys[l] /\ k < l)
                            \/ keys[l] < keys[k] \/ (keys[l] = keys[k] /\ l < k)
    BY <1>1
<1>6. \A k \in D : RankOf(keys)[k] = Cardinality(UpToRank(keys, k))
    BY <1>1 DEF RankOf
<1>7. RankOf(keys) \in [D -> D]
    BY <1>1, <1>3 DEF RankOf
<1>8. \A k, l \in D : RankOf(keys)[k] = RankOf(keys)[l] => k = l
    <2> SUFFICES ASSUME NEW k \in D, NEW l \in D, RankOf(keys)[k] = RankOf(keys)[l]
                 PROVE  k = l
        OBVIOUS
    <2>1. Cardinality(UpToRank(keys, k)) = Cardinality(UpToRank(keys, l))
        BY <1>6, Zenon
    <2>2. /\ ~ (keys[k] < keys[l] \/ (keys[k] = keys[l] /\ k < l))
          /\ ~ (keys[l] < keys[k] \/ (keys[l] = keys[k] /\ l < k))
        BY <1>4, <2>1, Zenon
    <2> QED BY <1>5, <2>2, Zenon
<1>9. RankOf(keys) \in Injection(D, D)
    BY <1>7, <1>8, Zenon DEF Injection, IsInjective
<1>10. RankOf(keys) \in Surjection(D, D)
    BY <1>9, <1>2, FS_Injection, Zenon
<1> QED BY <1>9, <1>10, Zenon DEF Bijection

\* The addresses of a list of networks, as ByAddress compares them.
KeysOf(nets) == [k \in DOMAIN nets |-> nets[k].addr.n]

\* Entry k of a list of networks stands where its rank says.
LEMMA ByAddressEntries ==
    ASSUME NEW nets \in Seq(Network)
    PROVE  /\ RankOf(KeysOf(nets)) \in Bijection(DOMAIN nets, DOMAIN nets)
           /\ \A k \in DOMAIN nets : ByAddress(nets)[RankOf(KeysOf(nets))[k]] = nets[k]
<1> DEFINE keys == KeysOf(nets)
           rank == RankOf(keys)
           Place(p) == CHOOSE k \in DOMAIN nets : rank[k] = p
<1>1. DOMAIN nets = 1..Len(nets) /\ Len(nets) \in Nat
    OBVIOUS
<1>2. keys \in [1..Len(nets) -> Int]
    <2>1. ASSUME NEW k \in DOMAIN nets
          PROVE  nets[k].addr.n \in Int
        <3>1. nets[k] \in Network
            OBVIOUS
        <3> QED BY <3>1 DEF Network, Address
    <2> QED BY <1>1, <2>1, Zenon DEF KeysOf
<1>3. rank \in Bijection(DOMAIN nets, DOMAIN nets)
    BY <1>1, <1>2, RankBijection, Zenon
<1>4. /\ rank \in [DOMAIN nets -> DOMAIN nets]
      /\ \A x, y \in DOMAIN nets : rank[x] = rank[y] => x = y
    <2> HIDE DEF rank
    <2> QED BY <1>3, BijectionIs, SMT
<1>5. ASSUME NEW k \in DOMAIN nets
      PROVE  rank[k] = Cardinality({j \in DOMAIN nets :
                          \/ nets[j].addr.n < nets[k].addr.n
                          \/ nets[j].addr.n = nets[k].addr.n /\ j <= k})
    BY <1>5, Zenon DEF RankOf, UpToRank, KeysOf
<1>6. \A p \in DOMAIN nets : ByAddress(nets)[p] = nets[Place(p)]
    <2>1. \A p : Place(p) =
            CHOOSE k \in DOMAIN nets :
                Cardinality({j \in DOMAIN nets :
                          \/ nets[j].addr.n < nets[k].addr.n
                          \/ nets[j].addr.n = nets[k].addr.n /\ j <= k}) = p
        BY <1>5, Zenon
    <2> HIDE DEF Place
    <2> QED BY <2>1, Zenon DEF ByAddress
<1>7. ASSUME NEW k \in DOMAIN nets
      PROVE  ByAddress(nets)[rank[k]] = nets[k]
    <2>1. rank[k] \in DOMAIN nets
        BY <1>4, Zenon
    <2>2. Place(rank[k]) = k
        <3>1. Place(rank[k]) \in DOMAIN nets /\ rank[Place(rank[k])] = rank[k]
            BY <2>1, Zenon
        <3> QED BY <3>1, <1>4, Zenon
    <2> HIDE DEF rank, Place
    <2> QED BY <2>1, <2>2, <1>6, Zenon
<1> QED BY <1>3, <1>7, Zenon

LEMMA ByAddressFunction ==
    ASSUME NEW nets
    PROVE  /\ DOMAIN ByAddress(nets) = DOMAIN nets
           /\ ByAddress(nets) = [p \in DOMAIN nets |-> ByAddress(nets)[p]]
<1> DEFINE Entry(p) == nets[CHOOSE k \in DOMAIN nets :
                Cardinality({j \in DOMAIN nets :
                          \/ nets[j].addr.n < nets[k].addr.n
                          \/ nets[j].addr.n = nets[k].addr.n /\ j <= k}) = p]
<1>1. ByAddress(nets) = [p \in DOMAIN nets |-> Entry(p)]
    BY Zenon DEF ByAddress
<1> HIDE DEF Entry
<1> QED BY <1>1, Zenon

\* Sorting keeps the networks of a list.
LEMMA ByAddressKeeps ==
    ASSUME NEW nets \in Seq(Network)
    PROVE  /\ DOMAIN ByAddress(nets) = DOMAIN nets
           /\ ByAddress(nets) \in Seq(Network) /\ Len(ByAddress(nets)) = Len(nets)
           /\ \A p \in DOMAIN nets : \E k \in DOMAIN nets : ByAddress(nets)[p] = nets[k]
           /\ \A k \in DOMAIN nets : \E p \in DOMAIN nets : ByAddress(nets)[p] = nets[k]
<1> DEFINE rank == RankOf(KeysOf(nets))
<1>1. /\ rank \in [DOMAIN nets -> DOMAIN nets]
      /\ \A p \in DOMAIN nets : \E k \in DOMAIN nets : rank[k] = p
      /\ \A k \in DOMAIN nets : ByAddress(nets)[rank[k]] = nets[k]
    <2>1. /\ rank \in Bijection(DOMAIN nets, DOMAIN nets)
          /\ \A k \in DOMAIN nets : ByAddress(nets)[rank[k]] = nets[k]
        BY ByAddressEntries, Zenon
    <2> HIDE DEF rank
    <2> QED BY <2>1, BijectionIs
<1> HIDE DEF rank
<1>2. /\ DOMAIN ByAddress(nets) = DOMAIN nets
      /\ ByAddress(nets) = [p \in DOMAIN nets |-> ByAddress(nets)[p]]
    BY ByAddressFunction, Zenon
<1>3. ASSUME NEW p \in DOMAIN nets
      PROVE  \E k \in DOMAIN nets : ByAddress(nets)[p] = nets[k]
    <2>1. PICK k \in DOMAIN nets : rank[k] = p
        BY <1>1, Zenon
    <2>2. ByAddress(nets)[p] = nets[k]
        BY <1>1, <2>1, Zenon
    <2> QED BY <2>2, Zenon
<1>4. \A k \in DOMAIN nets : \E p \in DOMAIN nets : ByAddress(nets)[p] = nets[k]
    BY <1>1, Zenon
<1>5. DOMAIN nets = 1..Len(nets) /\ Len(nets) \in Nat /\ \A k \in DOMAIN nets : nets[k] \in Network
    OBVIOUS
<1>6. \A p \in 1..Len(nets) : ByAddress(nets)[p] \in Network
    BY <1>3, <1>5, Zenon
<1>7. ByAddress(nets) \in Seq(Network) /\ Len(ByAddress(nets)) = Len(nets)
    BY <1>2, <1>5, <1>6
<1> QED BY <1>2, <1>3, <1>4, <1>7, Zenon

\* Two lists with a bijection between their places are equally long.
LEMMA SameLength ==
    ASSUME NEW m \in Nat, NEW n \in Nat, NEW g \in Bijection(1..m, 1..n)
    PROVE  m = n
<1>1. 1 \in Int /\ m \in Int /\ n \in Int
    OBVIOUS
<1>2. /\ IsFiniteSet(1..m) /\ Cardinality(1..m) = IF 1 > m THEN 0 ELSE m - 1 + 1
      /\ IsFiniteSet(1..n) /\ Cardinality(1..n) = IF 1 > n THEN 0 ELSE n - 1 + 1
    BY <1>1, FS_Interval, Zenon
<1>3. Cardinality(1..n) = Cardinality(1..m)
    BY <1>2, FS_Bijection, Zenon DEF ExistsBijection
<1> QED BY <1>2, <1>3

\* A list of distinct addresses and the same list in another order are sorted
\* into the same list.
LEMMA SortedAlike ==
    ASSUME NEW s \in Seq(Network), NEW t \in Seq(Network), Rearranged(s, t),
           \A i, j \in DOMAIN s : s[i].addr.n = s[j].addr.n => i = j
    PROVE  ByAddress(s) = ByAddress(t)
<1>1. PICK g \in Bijection(DOMAIN s, DOMAIN t) : \A k \in DOMAIN s : s[k] = t[g[k]]
    BY Zenon DEF Rearranged
<1>2. /\ g \in [DOMAIN s -> DOMAIN t]
      /\ \A x, y \in DOMAIN s : g[x] = g[y] => x = y
      /\ \A z \in DOMAIN t : \E x \in DOMAIN s : g[x] = z
    BY <1>1, BijectionIs
<1>3. /\ DOMAIN s = 1..Len(s) /\ Len(s) \in Nat
      /\ DOMAIN t = 1..Len(t) /\ Len(t) \in Nat
    OBVIOUS
<1>4. DOMAIN s = DOMAIN t
    <2>1. Len(s) = Len(t)
        BY <1>1, <1>3, SameLength, Zenon
    <2> QED BY <1>3, <2>1, Zenon
<1>5. IsFiniteSet(DOMAIN s)
    <2>1. 1 \in Int /\ Len(s) \in Int
        BY <1>3
    <2> QED BY <1>3, <2>1, FS_Interval, Zenon
<1>6. ASSUME NEW k \in DOMAIN s
      PROVE  RankOf(KeysOf(s))[k] = RankOf(KeysOf(t))[g[k]]
    <2> DEFINE A == UpToRank(KeysOf(s), k)
               B == UpToRank(KeysOf(t), g[k])
    <2>1. /\ DOMAIN KeysOf(s) = DOMAIN s /\ \A j \in DOMAIN s : KeysOf(s)[j] = s[j].addr.n
          /\ DOMAIN KeysOf(t) = DOMAIN t /\ \A j \in DOMAIN t : KeysOf(t)[j] = t[j].addr.n
        BY Zenon DEF KeysOf
    <2>2. A \in SUBSET DOMAIN s /\ B \in SUBSET DOMAIN t
        BY <2>1, Zenon DEF UpToRank
    <2>3. ASSUME NEW j \in DOMAIN s
          PROVE  j \in A <=> g[j] \in B
        <3>1. g[j] \in DOMAIN t /\ g[k] \in DOMAIN t
            BY <1>2
        <3>2. j \in A <=> s[j].addr.n < s[k].addr.n \/ (s[j].addr.n = s[k].addr.n /\ j <= k)
            BY <2>1, Zenon DEF UpToRank
        <3>3. g[j] \in B <=> \/ s[j].addr.n < s[k].addr.n
                             \/ s[j].addr.n = s[k].addr.n /\ g[j] <= g[k]
            <4>1. KeysOf(t)[g[j]] = s[j].addr.n /\ KeysOf(t)[g[k]] = s[k].addr.n
                BY <1>1, <2>1, <3>1, Zenon
            <4> QED BY <4>1, <2>1, <3>1, Zenon DEF UpToRank
        <3>4. CASE j = k
            <4>1. j <= k /\ g[j] <= g[k]
                BY <3>4, <3>1, <1>3
            <4> QED BY <3>2, <3>3, <4>1, Zenon
        <3>5. CASE j # k
            <4>1. s[j].addr.n # s[k].addr.n
                BY <3>5, Zenon
            <4> QED BY <3>2, <3>3, <4>1, Zenon
        <3> QED BY <3>4, <3>5, Zenon
    <2> HIDE DEF A, B
    <2>4. Cardinality(A) = Cardinality(B)
        BY <1>1, <2>2, <2>3, <1>5, SameCount
    <2>5. g[k] \in DOMAIN t
        BY <1>2, Zenon
    <2> QED BY <2>1, <2>4, <2>5, Zenon DEF RankOf, A, B
<1>7. ASSUME NEW p \in DOMAIN s
      PROVE  ByAddress(s)[p] = ByAddress(t)[p]
    <2>1. PICK k \in DOMAIN s : RankOf(KeysOf(s))[k] = p
        <3> DEFINE rank == RankOf(KeysOf(s))
        <3>1. rank \in Bijection(DOMAIN s, DOMAIN s)
            BY ByAddressEntries, Zenon
        <3> HIDE DEF rank
        <3>2. \E k \in DOMAIN s : rank[k] = p
            BY <3>1, BijectionIs
        <3> QED BY <3>2, Zenon DEF rank
    <2>2. ByAddress(s)[p] = s[k]
        BY <2>1, ByAddressEntries, Zenon
    <2>3. g[k] \in DOMAIN t /\ t[g[k]] = s[k]
        BY <1>1, <1>2, Zenon
    <2>4. RankOf(KeysOf(t))[g[k]] = p
        BY <2>1, <1>6, Zenon
    <2>5. ByAddress(t)[RankOf(KeysOf(t))[g[k]]] = t[g[k]]
        BY <2>3, ByAddressEntries, Zenon
    <2> QED BY <2>2, <2>3, <2>4, <2>5, Zenon
<1>8. /\ ByAddress(s) = [p \in DOMAIN s |-> ByAddress(s)[p]]
      /\ ByAddress(t) = [p \in DOMAIN t |-> ByAddress(t)[p]]
    BY ByAddressFunction, Zenon
<1> QED BY <1>4, <1>7, <1>8, Zenon

\* The addresses below one, and up to it, as SortedIps counts them.
BelowIp(raws, places, at) == {o \in places : IpAt(raws, o).n < IpAt(raws, at).n}
UpToIp(raws, places, at) == {o \in places : IpAt(raws, o).n <= IpAt(raws, at).n}
StandsAt(raws, places, at, p) ==
    Cardinality(BelowIp(raws, places, at)) < p /\ p <= Cardinality(UpToIp(raws, places, at))

\* SortedIps has an entry for every place.
LEMMA SomeStands ==
    ASSUME NEW raws, NEW places, IsFiniteSet(places),
           \A at \in places : IpAt(raws, at).n \in Int,
           NEW p \in 1..Cardinality(places)
    PROVE  \E at \in places : StandsAt(raws, places, at, p)
<1> DEFINE m == Cardinality(places)
<1>1. m \in Nat /\ \E f : f \in Bijection(1..m, places)
    BY FS_CardinalityType, Zenon DEF ExistsBijection
<1>2. PICK b : b \in Bijection(1..m, places)
    BY <1>1, Zenon
<1>3. m \in Nat /\ p \in 1..m
    BY <1>1, Zenon
<1> HIDE DEF m
<1>4. b \in [1..m -> places]
    BY <1>2, BijectionIs, Zenon
<1> DEFINE keys == [k \in 1..m |-> IpAt(raws, b[k]).n]
<1>5. keys \in [1..m -> Int] /\ DOMAIN keys = 1..m /\ \A k \in 1..m : keys[k] = IpAt(raws, b[k]).n
    BY <1>4
<1> HIDE DEF keys
<1>6. RankOf(keys) \in Bijection(1..m, 1..m)
    BY <1>3, <1>5, RankBijection, Zenon
<1>7. PICK k \in 1..m : RankOf(keys)[k] = p
    BY <1>6, <1>3, BijectionIs
<1> DEFINE U == UpToRank(keys, k)
           A == {j \in 1..m : keys[j] < keys[k]}
           B == {j \in 1..m : keys[j] <= keys[k]}
<1>8. Cardinality(U) = p
    BY <1>5, <1>7, Zenon DEF RankOf
<1>9. IsFiniteSet(1..m)
    <2>1. 1 \in Int /\ m \in Int
        BY <1>3
    <2> QED BY <2>1, FS_Interval, Zenon
<1>10. /\ A \in SUBSET U /\ U \in SUBSET B /\ B \in SUBSET (1..m)
       /\ k \in U /\ k \notin A
    BY <1>3, <1>5 DEF UpToRank
<1>11. IsFiniteSet(U) /\ IsFiniteSet(B) /\ IsFiniteSet(A)
    <2> HIDE DEF U, A, B
    <2>1. IsFiniteSet(B)
        BY <1>9, <1>10, FS_Subset, Zenon
    <2>2. IsFiniteSet(U)
        BY <2>1, <1>10, FS_Subset, Zenon
    <2>3. IsFiniteSet(A)
        BY <2>2, <1>10, FS_Subset, Zenon
    <2> QED BY <2>1, <2>2, <2>3
<1>12. Cardinality(A) < p /\ p <= Cardinality(B)
    <2> HIDE DEF U, A, B
    <2>1. /\ Cardinality(A) \in Nat /\ Cardinality(B) \in Nat /\ Cardinality(U) \in Nat
        BY <1>11, FS_CardinalityType, Zenon
    <2>2. Cardinality(A) <= Cardinality(U) /\ Cardinality(U) # Cardinality(A)
        BY <1>10, <1>11, FS_Subset, Zenon
    <2>3. Cardinality(U) <= Cardinality(B)
        BY <1>10, <1>11, FS_Subset, Zenon
    <2> QED BY <1>8, <2>1, <2>2, <2>3
<1>13. b[k] \in places
    BY <1>4
<1>14. Cardinality(A) = Cardinality(BelowIp(raws, places, b[k]))
    <2> DEFINE I == 1..m
               C == BelowIp(raws, places, b[k])
    <2>1. /\ A \in SUBSET I /\ C \in SUBSET places
          /\ \A j \in I : j \in A <=> b[j] \in C
        BY <1>4, <1>5 DEF BelowIp
    <2>2. IsFiniteSet(I) /\ b \in Bijection(I, places)
        BY <1>2, <1>9
    <2> HIDE DEF A, C, I
    <2>3. Cardinality(A) = Cardinality(C)
        BY <2>1, <2>2, SameCount
    <2> QED BY <2>3 DEF C
<1>15. Cardinality(B) = Cardinality(UpToIp(raws, places, b[k]))
    <2> DEFINE I == 1..m
               C == UpToIp(raws, places, b[k])
    <2>1. /\ B \in SUBSET I /\ C \in SUBSET places
          /\ \A j \in I : j \in B <=> b[j] \in C
        BY <1>4, <1>5 DEF UpToIp
    <2>2. IsFiniteSet(I) /\ b \in Bijection(I, places)
        BY <1>2, <1>9
    <2> HIDE DEF B, C, I
    <2>3. Cardinality(B) = Cardinality(C)
        BY <2>1, <2>2, SameCount
    <2> QED BY <2>3 DEF C
<1> HIDE DEF A, B
<1> QED BY <1>12, <1>13, <1>14, <1>15, Zenon DEF StandsAt

\* Two addresses that stand at the same place are the same number.
LEMMA OneStands ==
    ASSUME NEW raws, NEW places, IsFiniteSet(places),
           \A at \in places : IpAt(raws, at).n \in Int,
           NEW p \in Int, NEW at \in places, NEW o \in places,
           StandsAt(raws, places, at, p), StandsAt(raws, places, o, p)
    PROVE  ~ IpAt(raws, at).n < IpAt(raws, o).n
<1> SUFFICES ASSUME IpAt(raws, at).n < IpAt(raws, o).n PROVE FALSE
    OBVIOUS
<1> DEFINE U == UpToIp(raws, places, at)
           B == BelowIp(raws, places, o)
<1>1. U \in SUBSET B /\ B \in SUBSET places
    BY DEF UpToIp, BelowIp
<1>2. IsFiniteSet(B) /\ IsFiniteSet(U)
    <2> HIDE DEF U, B
    <2>1. IsFiniteSet(B)
        BY <1>1, FS_Subset, Zenon
    <2> QED BY <2>1, <1>1, FS_Subset, Zenon
<1>3. Cardinality(U) <= Cardinality(B)
    <2> HIDE DEF U, B
    <2> QED BY <1>1, <1>2, FS_Subset, Zenon
<1>4. Cardinality(U) \in Nat /\ Cardinality(B) \in Nat
    BY <1>2, FS_CardinalityType, Zenon
<1>5. p <= Cardinality(U) /\ Cardinality(B) < p
    BY Zenon DEF StandsAt
<1> HIDE DEF U, B
<1> QED BY <1>3, <1>4, <1>5

\* The sorted addresses are a list.
LEMMA SortedIpsFunction ==
    ASSUME NEW raws, NEW places
    PROVE  /\ SortedIps(raws, places) =
                 [p \in 1..Cardinality(places) |-> SortedIps(raws, places)[p]]
           /\ \A p \in 1..Cardinality(places) :
                 SortedIps(raws, places)[p] =
                    IpAt(raws, CHOOSE at \in places : StandsAt(raws, places, at, p))
<1> DEFINE Entry(p) == IpAt(raws, CHOOSE at \in places : StandsAt(raws, places, at, p))
<1>1. SortedIps(raws, places) = [p \in 1..Cardinality(places) |-> Entry(p)]
    BY Zenon DEF SortedIps, StandsAt, BelowIp, UpToIp
<1> HIDE DEF Entry
<1>2. /\ SortedIps(raws, places) =
            [p \in 1..Cardinality(places) |-> SortedIps(raws, places)[p]]
      /\ \A p \in 1..Cardinality(places) : SortedIps(raws, places)[p] = Entry(p)
    BY <1>1, Zenon
<1> QED BY <1>2, Zenon DEF Entry

\* What stands at a place of the sorted addresses.
LEMMA SortedIpsEntry ==
    ASSUME NEW raws, NEW places, IsFiniteSet(places),
           \A at \in places : IpAt(raws, at).n \in Int,
           \A at, o \in places :
              IpAt(raws, at).n = IpAt(raws, o).n => IpAt(raws, at) = IpAt(raws, o),
           NEW p \in 1..Cardinality(places), NEW a \in places,
           StandsAt(raws, places, a, p)
    PROVE  SortedIps(raws, places)[p] = IpAt(raws, a)
<1> DEFINE b == CHOOSE at \in places : StandsAt(raws, places, at, p)
<1>1. b \in places /\ StandsAt(raws, places, b, p) /\ SortedIps(raws, places)[p] = IpAt(raws, b)
    BY SortedIpsFunction, Zenon
<1> HIDE DEF b
<1>2. p \in Int
    OBVIOUS
<1>3. ~ IpAt(raws, a).n < IpAt(raws, b).n /\ ~ IpAt(raws, b).n < IpAt(raws, a).n
    BY <1>1, <1>2, OneStands, Zenon
<1>4. IpAt(raws, a).n \in Int /\ IpAt(raws, b).n \in Int
    BY <1>1, Zenon
<1>5. IpAt(raws, a).n = IpAt(raws, b).n
    BY <1>3, <1>4
<1> QED BY <1>1, <1>5, Zenon

\* Corresponding places with the same addresses are sorted into the same list.
LEMMA SortedIpsAlike ==
    ASSUME NEW raws, NEW olds, NEW P, NEW Q, IsFiniteSet(P), NEW g \in Bijection(P, Q),
           \A at \in P : IpAt(olds, g[at]) = IpAt(raws, at) /\ IpAt(raws, at).n \in Int,
           \A at, o \in P :
              IpAt(raws, at).n = IpAt(raws, o).n => IpAt(raws, at) = IpAt(raws, o)
    PROVE  SortedIps(raws, P) = SortedIps(olds, Q)
<1>1. /\ g \in [P -> Q]
      /\ \A z \in Q : \E x \in P : g[x] = z
    BY BijectionIs
<1>2. IsFiniteSet(Q) /\ Cardinality(Q) = Cardinality(P)
    BY FS_Bijection, Zenon DEF ExistsBijection
<1>3. /\ \A at \in Q : IpAt(olds, at).n \in Int
      /\ \A at, o \in Q : IpAt(olds, at).n = IpAt(olds, o).n => IpAt(olds, at) = IpAt(olds, o)
    <2>1. ASSUME NEW at \in Q
          PROVE  \E x \in P : IpAt(olds, at) = IpAt(raws, x)
        BY <1>1, Zenon
    <2>2. ASSUME NEW at \in Q, NEW o \in Q, IpAt(olds, at).n = IpAt(olds, o).n
          PROVE  IpAt(olds, at) = IpAt(olds, o)
        <3>1. PICK x \in P : IpAt(olds, at) = IpAt(raws, x)
            BY <2>1, Zenon
        <3>2. PICK y \in P : IpAt(olds, o) = IpAt(raws, y)
            BY <2>1, Zenon
        <3>3. IpAt(raws, x).n = IpAt(raws, y).n
            BY <2>2, <3>1, <3>2, Zenon
        <3> QED BY <3>1, <3>2, <3>3, Zenon
    <2>3. \A at \in Q : IpAt(olds, at).n \in Int
        BY <2>1, Zenon
    <2> QED BY <2>2, <2>3, Zenon
<1>4. ASSUME NEW at \in P
      PROVE  /\ Cardinality(BelowIp(raws, P, at)) = Cardinality(BelowIp(olds, Q, g[at]))
             /\ Cardinality(UpToIp(raws, P, at)) = Cardinality(UpToIp(olds, Q, g[at]))
    <2>1. g[at] \in Q
        BY <1>1
    <2>2. Cardinality(BelowIp(raws, P, at)) = Cardinality(BelowIp(olds, Q, g[at]))
        <3> DEFINE A == BelowIp(raws, P, at)
                   B == BelowIp(olds, Q, g[at])
        <3>1. A \in SUBSET P /\ B \in SUBSET Q
            BY Zenon DEF BelowIp
        <3>2. \A x \in P : x \in A <=> g[x] \in B
            <4> SUFFICES ASSUME NEW x \in P PROVE x \in A <=> g[x] \in B
                OBVIOUS
            <4>1. IpAt(olds, g[x]) = IpAt(raws, x) /\ IpAt(olds, g[at]) = IpAt(raws, at) /\ g[x] \in Q
                BY <1>1
            <4> QED BY <4>1, Zenon DEF BelowIp
        <3> HIDE DEF A, B
        <3>3. Cardinality(A) = Cardinality(B)
            BY <3>1, <3>2, SameCount
        <3> QED BY <3>3 DEF A, B
    <2>3. Cardinality(UpToIp(raws, P, at)) = Cardinality(UpToIp(olds, Q, g[at]))
        <3> DEFINE A == UpToIp(raws, P, at)
                   B == UpToIp(olds, Q, g[at])
        <3>1. A \in SUBSET P /\ B \in SUBSET Q
            BY Zenon DEF UpToIp
        <3>2. \A x \in P : x \in A <=> g[x] \in B
            <4> SUFFICES ASSUME NEW x \in P PROVE x \in A <=> g[x] \in B
                OBVIOUS
            <4>1. IpAt(olds, g[x]) = IpAt(raws, x) /\ IpAt(olds, g[at]) = IpAt(raws, at) /\ g[x] \in Q
                BY <1>1
            <4> QED BY <4>1, Zenon DEF UpToIp
        <3> HIDE DEF A, B
        <3>3. Cardinality(A) = Cardinality(B)
            BY <3>1, <3>2, SameCount
        <3> QED BY <3>3 DEF A, B
    <2> QED BY <2>2, <2>3
<1>5. ASSUME NEW p \in 1..Cardinality(P)
      PROVE  SortedIps(raws, P)[p] = SortedIps(olds, Q)[p]
    <2>1. PICK at \in P : StandsAt(raws, P, at, p)
        BY SomeStands, Zenon
    <2>2. g[at] \in Q /\ IpAt(olds, g[at]) = IpAt(raws, at)
        BY <1>1
    <2>3. StandsAt(olds, Q, g[at], p)
        BY <2>1, <1>4, Zenon DEF StandsAt
    <2>4. SortedIps(raws, P)[p] = IpAt(raws, at)
        BY <2>1, SortedIpsEntry, SMT
    <2>5. p \in 1..Cardinality(Q)
        BY <1>2
    <2>6. SortedIps(olds, Q)[p] = IpAt(olds, g[at])
        BY <1>2, <1>3, <2>2, <2>3, <2>5, SortedIpsEntry, SMT
    <2> QED BY <2>2, <2>4, <2>6
<1>6. /\ SortedIps(raws, P) = [p \in 1..Cardinality(P) |-> SortedIps(raws, P)[p]]
      /\ SortedIps(olds, Q) = [p \in 1..Cardinality(Q) |-> SortedIps(olds, Q)[p]]
    BY SortedIpsFunction, Zenon
<1> QED BY <1>2, <1>5, <1>6, Zenon

\* The sorted list of the addresses of some places is empty when there are none.
LEMMA SortedIpsEmpty ==
    ASSUME NEW raws, NEW places, IsFiniteSet(places)
    PROVE  SortedIps(raws, places) = <<>> <=> places = {}
<1>1. Cardinality(places) \in Nat /\ (Cardinality(places) = 0 <=> places = {})
    BY FS_CardinalityType, FS_EmptySet, Zenon
<1>2. SortedIps(raws, places) = [p \in 1..Cardinality(places) |-> SortedIps(raws, places)[p]]
    BY SortedIpsFunction, Zenon
<1>3. DOMAIN SortedIps(raws, places) = 1..Cardinality(places)
    BY <1>2
<1>4. CASE Cardinality(places) = 0
    <2>1. SortedIps(raws, places) = [p \in {} |-> SortedIps(raws, places)[p]]
        BY <1>2, <1>4
    <2> QED BY <2>1, <1>4, <1>1
<1>5. CASE Cardinality(places) # 0
    <2>1. 1 \in DOMAIN SortedIps(raws, places)
        BY <1>3, <1>1, <1>5
    <2> QED BY <2>1, <1>5, <1>1
<1> QED BY <1>4, <1>5

-----------------------------------------------------------------------------
(* The lists of interfaces.                                                *)

Families == {"ipv4", "ipv6"}

\* The lists of a machine.
LEMMA ListsOfMachine ==
    ASSUME NEW raws \in Machines
    PROVE  /\ DOMAIN raws = 1..Len(raws) /\ Len(raws) \in Nat
           /\ \A k \in DOMAIN raws : \A fam \in Families : raws[k][fam] \in Seq(Network)
           /\ \A at, o \in UpAddresses(raws) :
                 IpAt(raws, at).n = IpAt(raws, o).n => IpAt(raws, at) = IpAt(raws, o)
<1>1. /\ raws \in Seq(Range(raws))
      /\ \A k \in DOMAIN raws : raws[k].ipv4 \in Seq(Network) /\ raws[k].ipv6 \in Seq(Network)
      /\ \A at, o \in UpAddresses(raws) :
            IpAt(raws, at).n = IpAt(raws, o).n => IpAt(raws, at) = IpAt(raws, o)
    BY MachinesAssumption, Zenon
<1>2. DOMAIN raws = 1..Len(raws) /\ Len(raws) \in Nat
    BY <1>1
<1>3. ASSUME NEW k \in DOMAIN raws, NEW fam \in Families
      PROVE  raws[k][fam] \in Seq(Network)
    BY <1>1 DEF Families
<1> QED BY <1>1, <1>2, <1>3, Zenon

\* The places of the addresses of the interfaces that are up.
LEMMA PlaceIs ==
    ASSUME NEW raws, NEW at \in UpAddresses(raws)
    PROVE  /\ at = <<at[1], at[2], at[3]>>
           /\ at[1] \in DOMAIN raws /\ "up" \in raws[at[1]].flags
           /\ at[2] \in Families /\ at[3] \in DOMAIN raws[at[1]][at[2]]
<1> DEFINE up == {i \in DOMAIN raws : "up" \in raws[i].flags}
           Of(k, fam) == {<<k, fam, j>> : j \in DOMAIN raws[k][fam]}
<1>1. at \in UNION {Of(k, fam) : k \in up, fam \in Families}
    BY DEF UpAddresses, Families
<1>2. \E k \in up : \E fam \in Families : at \in Of(k, fam)
    <2> HIDE DEF Of, up
    <2> QED BY <1>1
<1>3. PICK k \in up : \E fam \in Families : at \in Of(k, fam)
    BY <1>2
<1>4. PICK fam \in Families : at \in Of(k, fam)
    BY <1>3
<1>5. PICK j \in DOMAIN raws[k][fam] : at = <<k, fam, j>>
    BY <1>4
<1>6. k \in DOMAIN raws /\ "up" \in raws[k].flags
    OBVIOUS
<1>7. at[1] = k /\ at[2] = fam /\ at[3] = j
    BY <1>5
<1> QED BY <1>4, <1>5, <1>6, <1>7, Zenon

LEMMA IsPlace ==
    ASSUME NEW raws, NEW k \in DOMAIN raws, NEW fam \in Families,
           NEW j \in DOMAIN raws[k][fam], "up" \in raws[k].flags
    PROVE  <<k, fam, j>> \in UpAddresses(raws)
<1> DEFINE up == {i \in DOMAIN raws : "up" \in raws[i].flags}
           Of(l, f) == {<<l, f, i>> : i \in DOMAIN raws[l][f]}
<1>1. k \in up /\ <<k, fam, j>> \in Of(k, fam)
    OBVIOUS
<1>2. UpAddresses(raws) = UNION {Of(l, f) : l \in up, f \in Families}
    BY DEF UpAddresses, Families
<1> HIDE DEF up, Of
<1> QED BY <1>1, <1>2

\* There are finitely many of them.
LEMMA PlacesFinite ==
    ASSUME NEW raws \in Machines
    PROVE  IsFiniteSet(UpAddresses(raws))
<1> DEFINE up == {i \in DOMAIN raws : "up" \in raws[i].flags}
           Of(k, fam) == {<<k, fam, j>> : j \in DOMAIN raws[k][fam]}
           All == {Of(k, fam) : k \in up, fam \in Families}
<1>1. IsFiniteSet(up \X Families)
    <2>1. IsFiniteSet(DOMAIN raws)
        <3>1. DOMAIN raws = 1..Len(raws) /\ 1 \in Int /\ Len(raws) \in Int
            BY ListsOfMachine
        <3> QED BY <3>1, FS_Interval, Zenon
    <2>2. up \in SUBSET DOMAIN raws
        OBVIOUS
    <2> HIDE DEF up
    <2>3. IsFiniteSet(up)
        BY <2>1, <2>2, FS_Subset, Zenon
    <2>4. IsFiniteSet({"ipv4"} \cup {"ipv6"})
        BY FS_Singleton, FS_Union, Zenon
    <2>5. IsFiniteSet(Families)
        <3>1. Families = {"ipv4"} \cup {"ipv6"}
            BY DEF Families
        <3> QED BY <2>4, <3>1
    <2> QED BY <2>3, <2>5, FS_Product, Zenon
<1>2. IsFiniteSet(All)
    <2> DEFINE f == [x \in up \X Families |-> Of(x[1], x[2])]
    <2> HIDE DEF up, Of
    <2>1. f \in Surjection(up \X Families, All)
        <3>1. f \in [up \X Families -> All]
            OBVIOUS
        <3>2. \A z \in All : \E x \in up \X Families : f[x] = z
            <4> SUFFICES ASSUME NEW k \in up, NEW fam \in Families
                         PROVE  \E x \in up \X Families : f[x] = Of(k, fam)
                OBVIOUS
            <4>1. <<k, fam>> \in up \X Families /\ f[<<k, fam>>] = Of(k, fam)
                OBVIOUS
            <4> QED BY <4>1
        <3> HIDE DEF f, All
        <3> QED BY <3>1, <3>2, Zenon DEF Surjection
    <2> HIDE DEF f, All
    <2> QED BY <1>1, <2>1, FS_Surjection, Zenon
<1>3. ASSUME NEW k \in up, NEW fam \in Families
      PROVE  IsFiniteSet(Of(k, fam))
    <2> DEFINE D == DOMAIN raws[k][fam]
               f == [j \in D |-> <<k, fam, j>>]
               T == Of(k, fam)
    <2>1. IsFiniteSet(D)
        <3>1. raws[k][fam] \in Seq(Network)
            BY ListsOfMachine
        <3>2. D = 1..Len(raws[k][fam]) /\ 1 \in Int /\ Len(raws[k][fam]) \in Int
            BY <3>1
        <3> QED BY <3>2, FS_Interval, Zenon
    <2>2. f \in Surjection(D, T)
        <3>1. f \in [D -> T] /\ \A z \in T : \E j \in D : f[j] = z
            <4> HIDE DEF D
            <4>1. T = {<<k, fam, j>> : j \in D}
                BY DEF D
            <4> HIDE DEF T
            <4> QED BY <4>1
        <3> HIDE DEF f, D, T
        <3> QED BY <3>1, Zenon DEF Surjection
    <2> HIDE DEF f, D, T
    <2>3. IsFiniteSet(T)
        BY <2>1, <2>2, FS_Surjection, Zenon
    <2> QED BY <2>3 DEF T
<1>4. \A S \in All : IsFiniteSet(S)
    <2> HIDE DEF up, Of
    <2> QED BY <1>3
<1>5. UpAddresses(raws) = UNION All
    BY DEF UpAddresses, Families
<1> HIDE DEF All
<1> QED BY <1>2, <1>4, <1>5, FS_UNION, Zenon

\* An address as local_addresses takes it has a number.
LEMMA IpNumber ==
    ASSUME NEW raws \in Machines, NEW at \in UpAddresses(raws)
    PROVE  IpAt(raws, at).n \in Int
<1> DEFINE a == raws[at[1]][at[2]][at[3]].addr
<1>1. at[1] \in DOMAIN raws /\ at[2] \in Families /\ at[3] \in DOMAIN raws[at[1]][at[2]]
    BY PlaceIs, Zenon
<1>2. raws[at[1]][at[2]] \in Seq(Network)
    BY <1>1, ListsOfMachine, Zenon
<1>3. raws[at[1]][at[2]][at[3]] \in Network
    BY <1>1, <1>2
<1>4. a.n \in Nat
    BY <1>3 DEF Network, Address
<1>5. IpAt(raws, at) = to_canonical(a)
    BY Zenon DEF IpAt
<1> HIDE DEF a
<1> QED BY <1>4, <1>5 DEF to_canonical

-----------------------------------------------------------------------------
(* A machine listed twice.                                                 *)

\* What two listings of an interface have in common.
SameInterface(raw, old) ==
    /\ raw.name = old.name /\ raw.index = old.index
    /\ raw.flags = old.flags /\ raw.mac = old.mac
    /\ \A fam \in Families : Rearranged(raw[fam], old[fam])

LEMMA RelistedIs ==
    ASSUME NEW raws, NEW olds, Relisted(raws, olds)
    PROVE  \E p \in Bijection(DOMAIN raws, DOMAIN olds) :
              \A k \in DOMAIN raws : SameInterface(raws[k], olds[p[k]])
<1>1. PICK p \in Bijection(DOMAIN raws, DOMAIN olds) : \A k \in DOMAIN raws :
         /\ raws[k].name = olds[p[k]].name /\ raws[k].index = olds[p[k]].index
         /\ raws[k].flags = olds[p[k]].flags /\ raws[k].mac = olds[p[k]].mac
         /\ Rearranged(raws[k].ipv4, olds[p[k]].ipv4)
         /\ Rearranged(raws[k].ipv6, olds[p[k]].ipv6)
    BY Zenon DEF Relisted
<1>2. ASSUME NEW k \in DOMAIN raws
      PROVE  SameInterface(raws[k], olds[p[k]])
    <2>1. \A fam \in Families : Rearranged(raws[k][fam], olds[p[k]][fam])
        BY <1>1 DEF Families
    <2> QED BY <1>1, <2>1, Zenon DEF SameInterface
<1> QED BY <1>1, <1>2, Zenon

\* Places of two machines that correspond.
Correspond(raws, P, olds, R) ==
    \E g \in Bijection(P, R) : \A at \in P : IpAt(olds, g[at]) = IpAt(raws, at)

\* The addresses that go to some of the lists correspond.
LEMMA RelistedPlaces ==
    ASSUME NEW raws \in Machines, NEW olds \in Machines, Relisted(raws, olds), NEW lists
    PROVE  Correspond(raws, Listed(raws, lists), olds, Listed(olds, lists))
<1>1. PICK p \in Bijection(DOMAIN raws, DOMAIN olds) :
           \A k \in DOMAIN raws : SameInterface(raws[k], olds[p[k]])
    BY RelistedIs, Zenon
<1>2. /\ p \in [DOMAIN raws -> DOMAIN olds]
      /\ \A x, y \in DOMAIN raws : p[x] = p[y] => x = y
      /\ \A z \in DOMAIN olds : \E x \in DOMAIN raws : p[x] = z
    BY <1>1, BijectionIs
<1> DEFINE Fits(k, fam, q) ==
               \A j \in DOMAIN raws[k][fam] : raws[k][fam][j] = olds[p[k]][fam][q[j]]
           Q(k, fam) == CHOOSE q \in Bijection(DOMAIN raws[k][fam], DOMAIN olds[p[k]][fam]) :
                            Fits(k, fam, q)
           G(at) == <<p[at[1]], at[2], Q(at[1], at[2])[at[3]]>>
<1>3. ASSUME NEW k \in DOMAIN raws, NEW fam \in Families
      PROVE  /\ Q(k, fam) \in Bijection(DOMAIN raws[k][fam], DOMAIN olds[p[k]][fam])
             /\ Fits(k, fam, Q(k, fam))
    <2>1. Rearranged(raws[k][fam], olds[p[k]][fam])
        BY <1>1, Zenon DEF SameInterface
    <2>2. \E q \in Bijection(DOMAIN raws[k][fam], DOMAIN olds[p[k]][fam]) : Fits(k, fam, q)
        BY <2>1, Zenon DEF Rearranged
    <2> HIDE DEF Fits
    <2> QED BY <2>2, Zenon
<1> HIDE DEF Q
<1>4. ASSUME NEW k \in DOMAIN raws, NEW fam \in Families
      PROVE  /\ Q(k, fam) \in [DOMAIN raws[k][fam] -> DOMAIN olds[p[k]][fam]]
             /\ \A x, y \in DOMAIN raws[k][fam] : Q(k, fam)[x] = Q(k, fam)[y] => x = y
             /\ \A z \in DOMAIN olds[p[k]][fam] :
                   \E x \in DOMAIN raws[k][fam] : Q(k, fam)[x] = z
    <2> HIDE DEF Fits
    <2> QED BY <1>3, BijectionIs
<1>5. ASSUME NEW at \in UpAddresses(raws)
      PROVE  /\ G(at) \in UpAddresses(olds)
             /\ IpAt(olds, G(at)) = IpAt(raws, at) /\ ListOf(olds, G(at)) = ListOf(raws, at)
    <2> DEFINE k == at[1]
               fam == at[2]
               j == at[3]
    <2>1. k \in DOMAIN raws /\ "up" \in raws[k].flags /\ fam \in Families /\ j \in DOMAIN raws[k][fam]
        BY PlaceIs, Zenon
    <2>2. p[k] \in DOMAIN olds /\ raws[k].flags = olds[p[k]].flags
        BY <2>1, <1>1, <1>2 DEF SameInterface
    <2>3. Q(k, fam)[j] \in DOMAIN olds[p[k]][fam]
        BY <2>1, <1>4
    <2>4. raws[k][fam][j] = olds[p[k]][fam][Q(k, fam)[j]]
        BY <2>1, <1>3, Zenon
    <2>5. G(at) \in UpAddresses(olds)
        BY <2>1, <2>2, <2>3, IsPlace, Zenon
    <2>6. G(at)[1] = p[k] /\ G(at)[2] = fam /\ G(at)[3] = Q(k, fam)[j]
        OBVIOUS
    <2> HIDE DEF G
    <2>7. IpAt(olds, G(at)) = IpAt(raws, at)
        BY <2>4, <2>6, Zenon DEF IpAt
    <2>8. ListOf(olds, G(at)) = ListOf(raws, at)
        <3>1. olds[G(at)[1]].flags = raws[at[1]].flags
            BY <2>2, <2>6, Zenon
        <3> QED BY <2>7, <3>1, Zenon DEF ListOf
    <2> QED BY <2>5, <2>7, <2>8
<1>6. ASSUME NEW at \in UpAddresses(raws), NEW o \in UpAddresses(raws), G(at) = G(o)
      PROVE  at = o
    <2>1. /\ at = <<at[1], at[2], at[3]>> /\ o = <<o[1], o[2], o[3]>>
          /\ at[1] \in DOMAIN raws /\ o[1] \in DOMAIN raws
          /\ at[2] \in Families /\ o[2] \in Families
          /\ at[3] \in DOMAIN raws[at[1]][at[2]] /\ o[3] \in DOMAIN raws[o[1]][o[2]]
        BY PlaceIs, Zenon
    <2>2. p[at[1]] = p[o[1]] /\ at[2] = o[2] /\ Q(at[1], at[2])[at[3]] = Q(o[1], o[2])[o[3]]
        BY <1>6
    <2>3. at[1] = o[1]
        BY <2>1, <2>2, <1>2
    <2>4. at[3] = o[3]
        <3> DEFINE q == Q(at[1], at[2])
                   D == DOMAIN raws[at[1]][at[2]]
        <3>1. at[3] \in D /\ o[3] \in D /\ q[at[3]] = q[o[3]]
            BY <2>1, <2>2, <2>3
        <3>2. \A x, y \in D : q[x] = q[y] => x = y
            BY <2>1, <1>4
        <3> HIDE DEF q, D
        <3> QED BY <3>1, <3>2, Zenon
    <2> QED BY <2>1, <2>2, <2>3, <2>4, Zenon
<1>7. ASSUME NEW o \in UpAddresses(olds)
      PROVE  \E at \in UpAddresses(raws) : G(at) = o
    <2>1. /\ o = <<o[1], o[2], o[3]>>
          /\ o[1] \in DOMAIN olds /\ "up" \in olds[o[1]].flags
          /\ o[2] \in Families /\ o[3] \in DOMAIN olds[o[1]][o[2]]
        BY PlaceIs, Zenon
    <2>2. PICK k \in DOMAIN raws : p[k] = o[1]
        BY <2>1, <1>2
    <2>3. PICK j \in DOMAIN raws[k][o[2]] : Q(k, o[2])[j] = o[3]
        BY <2>1, <2>2, <1>4
    <2>4. "up" \in raws[k].flags
        BY <2>1, <2>2, <1>1, Zenon DEF SameInterface
    <2>5. <<k, o[2], j>> \in UpAddresses(raws)
        BY <2>1, <2>3, <2>4, IsPlace, Zenon
    <2>6. G(<<k, o[2], j>>) = <<p[k], o[2], Q(k, o[2])[j]>>
        OBVIOUS
    <2> HIDE DEF G
    <2> QED BY <2>1, <2>2, <2>3, <2>5, <2>6, Zenon
<1> HIDE DEF G
<1> DEFINE P == Listed(raws, lists)
           R == Listed(olds, lists)
           g == [at \in P |-> G(at)]
<1>8. /\ \A at : at \in P <=> at \in UpAddresses(raws) /\ ListOf(raws, at) \in lists
      /\ \A o : o \in R <=> o \in UpAddresses(olds) /\ ListOf(olds, o) \in lists
    BY Zenon DEF Listed
<1> HIDE DEF P, R
<1>9. g \in Bijection(P, R)
    <2>1. g \in [P -> R]
        <3>1. \A at \in P : G(at) \in R
            BY <1>5, <1>8, Zenon
        <3> QED BY <3>1
    <2>2. \A x, y \in P : g[x] = g[y] => x = y
        BY <1>6, <1>8, Zenon
    <2>3. \A o \in R : \E x \in P : g[x] = o
        <3> SUFFICES ASSUME NEW o \in R PROVE \E x \in P : g[x] = o
            OBVIOUS
        <3>1. PICK at \in UpAddresses(raws) : G(at) = o
            BY <1>7, <1>8, Zenon
        <3>2. at \in P
            BY <3>1, <1>5, <1>8, Zenon
        <3> QED BY <3>1, <3>2, Zenon
    <2> HIDE DEF g
    <2> QED BY <2>1, <2>2, <2>3, IsBijection
<1>10. \A at \in P : IpAt(olds, g[at]) = IpAt(raws, at)
    BY <1>5, <1>8, Zenon
<1> HIDE DEF g
<1> QED BY <1>9, <1>10, Zenon DEF P, R, Correspond

\* A machine has the same local addresses however it is listed.
LEMMA LocalAddressesAlike ==
    ASSUME NEW raws \in Machines, NEW olds \in Machines, Relisted(raws, olds)
    PROVE  local_addresses(raws) = local_addresses(olds)
<1>1. ASSUME NEW lists
      PROVE  /\ SortedIps(raws, Listed(raws, lists)) = SortedIps(olds, Listed(olds, lists))
             /\ Listed(raws, lists) = {} <=> Listed(olds, lists) = {}
    <2> DEFINE P == Listed(raws, lists)
               R == Listed(olds, lists)
    <2>0. Correspond(raws, P, olds, R)
        BY RelistedPlaces, Zenon
    <2>2. P \in SUBSET UpAddresses(raws)
        BY Zenon DEF Listed
    <2> HIDE DEF P, R
    <2>1. PICK g \in Bijection(P, R) : \A at \in P : IpAt(olds, g[at]) = IpAt(raws, at)
        BY <2>0, Zenon DEF Correspond
    <2>3. IsFiniteSet(P)
        BY <2>2, PlacesFinite, FS_Subset, Zenon
    <2>4. \A at \in P : IpAt(olds, g[at]) = IpAt(raws, at) /\ IpAt(raws, at).n \in Int
        BY <2>1, <2>2, IpNumber, Zenon
    <2>5. \A at, o \in P :
              IpAt(raws, at).n = IpAt(raws, o).n => IpAt(raws, at) = IpAt(raws, o)
        BY <2>2, ListsOfMachine, Zenon
    <2>6. SortedIps(raws, P) = SortedIps(olds, R)
        BY <2>1, <2>3, <2>4, <2>5, SortedIpsAlike
    <2>7. P = {} <=> R = {}
        BY <2>1, BijectionIs
    <2> QED BY <2>6, <2>7 DEF P, R
<1>2. SortedIps(raws, Listed(raws, {"loopback"})) = SortedIps(olds, Listed(olds, {"loopback"}))
    BY <1>1, Zenon
<1>3. SortedIps(raws, IF Listed(raws, {"regular"}) = {} THEN Listed(raws, {"linklocal4", "ula6"})
                                                        ELSE Listed(raws, {"regular"}))
      = SortedIps(olds, IF Listed(olds, {"regular"}) = {} THEN Listed(olds, {"linklocal4", "ula6"})
                                                          ELSE Listed(olds, {"regular"}))
    BY <1>1, Zenon
<1> QED BY <1>2, <1>3, Zenon DEF local_addresses

\* And the same interfaces, if it lists everything once.
LEMMA InterfacesAlike ==
    ASSUME NEW raws \in Machines, NEW olds \in Machines,
           NEW k \in DOMAIN raws, NEW l \in DOMAIN olds, SameInterface(raws[k], olds[l]),
           EachOnce(raws)
    PROVE  to_interface(raws[k]) = to_interface(olds[l])
<1>1. ASSUME NEW fam \in Families
      PROVE  ByAddress(raws[k][fam]) = ByAddress(olds[l][fam])
    <2>1. raws[k][fam] \in Seq(Network) /\ olds[l][fam] \in Seq(Network)
        BY ListsOfMachine, Zenon
    <2>2. Rearranged(raws[k][fam], olds[l][fam])
        BY Zenon DEF SameInterface
    <2>3. \A i, j \in DOMAIN raws[k][fam] :
              raws[k][fam][i].addr.n = raws[k][fam][j].addr.n => i = j
        BY Zenon DEF EachOnce, Families
    <2> QED BY <2>1, <2>2, <2>3, SortedAlike, Zenon
<1>2. ByAddress(raws[k].ipv4) = ByAddress(olds[l].ipv4) /\ ByAddress(raws[k].ipv6) = ByAddress(olds[l].ipv6)
    BY <1>1 DEF Families
<1>3. /\ raws[k].name = olds[l].name /\ raws[k].index = olds[l].index
      /\ raws[k].flags = olds[l].flags /\ raws[k].mac = olds[l].mac
    BY Zenon DEF SameInterface
<1> QED BY <1>2, <1>3, Zenon DEF to_interface

\* The addresses of the interfaces that are up, as get_state goes through them.
AddrsOf(iface) == {iface.addrs[j].addr : j \in DOMAIN iface.addrs}
UpAddrs(ifaces, D) == UNION {AddrsOf(ifaces[k]) : k \in {i \in D : "up" \in ifaces[i].flags}}

\* The interface get_state keeps for a name.
Kept(ifaces, n, name) ==
    ifaces[CHOOSE k \in 1..n : /\ ifaces[k].name = name
                               /\ \A l \in (k + 1)..n : ifaces[l].name # name]

LEMMA KeptOnce ==
    ASSUME NEW n \in Nat, NEW ifaces, NEW k \in 1..n,
           \A i, j \in 1..n : ifaces[i].name = ifaces[j].name => i = j
    PROVE  Kept(ifaces, n, ifaces[k].name) = ifaces[k]
<1> DEFINE Is(i) == /\ ifaces[i].name = ifaces[k].name
                    /\ \A l \in (i + 1)..n : ifaces[l].name # ifaces[k].name
           c == CHOOSE i \in 1..n : Is(i)
<1>1. \A l \in (k + 1)..n : l \in 1..n /\ l # k
    OBVIOUS
<1>2. Is(k)
    BY <1>1, Zenon
<1>3. c \in 1..n /\ Is(c)
    <2> HIDE DEF Is
    <2> QED BY <1>2, Zenon
<1>4. Kept(ifaces, n, ifaces[k].name) = ifaces[c]
    BY Zenon DEF Kept
<1> HIDE DEF c
<1>5. c = k
    BY <1>3, Zenon
<1> QED BY <1>4, <1>5

\* Reading a machine twice gives the same state, whatever order netdev lists
\* its interfaces and addresses in.
LEMMA StatesAlike ==
    ASSUME NEW raws \in Machines, NEW olds \in Machines, Relisted(raws, olds),
           EachOnce(raws), NEW route
    PROVE  get_state(raws, route) = get_state(olds, route)
<1> DEFINE m == Len(raws)
           n == Len(olds)
           A == 1..m
           B == 1..n
           News == [k \in A |-> to_interface(raws[k])]
           Olds == [k \in B |-> to_interface(olds[k])]
<1>1. PICK p \in Bijection(DOMAIN raws, DOMAIN olds) :
           \A k \in DOMAIN raws : SameInterface(raws[k], olds[p[k]])
    BY RelistedIs, Zenon
<1>2. DOMAIN raws = A /\ m \in Nat /\ DOMAIN olds = B /\ n \in Nat
    BY ListsOfMachine, Zenon
<1>3. p \in Bijection(A, B)
    BY <1>1, <1>2, Zenon
<1>4. m = n
    <2> HIDE DEF m, n
    <2> QED BY <1>2, <1>3, SameLength, Zenon
<1>5. /\ p \in [A -> B]
      /\ \A x, y \in A : p[x] = p[y] => x = y
      /\ \A z \in B : \E x \in A : p[x] = z
    <2> HIDE DEF A, B
    <2> QED BY <1>3, BijectionIs
<1>6. \A k \in A : News[k] = Olds[p[k]] /\ News[k].name = raws[k].name
    <2> SUFFICES ASSUME NEW k \in A
                 PROVE  News[k] = Olds[p[k]] /\ News[k].name = raws[k].name
        OBVIOUS
    <2>1. p[k] \in B
        BY <1>5
    <2>2. /\ k \in DOMAIN raws /\ p[k] \in DOMAIN olds
          /\ SameInterface(raws[k], olds[p[k]])
        BY <1>1, <1>2, <2>1, Zenon
    <2>3. to_interface(raws[k]) = to_interface(olds[p[k]])
        BY <2>2, InterfacesAlike
    <2>4. to_interface(raws[k]).name = raws[k].name
        BY DEF to_interface
    <2> HIDE DEF A, B
    <2> QED BY <2>1, <2>3, <2>4, Zenon
<1>7. \A k, l \in A : News[k].name = News[l].name => k = l
    <2>1. \A k, l \in A : raws[k].name = raws[l].name => k = l
        BY <1>2, Zenon DEF EachOnce
    <2> HIDE DEF News, A
    <2> SUFFICES ASSUME NEW k \in A, NEW l \in A, News[k].name = News[l].name
                 PROVE  k = l
        OBVIOUS
    <2>2. raws[k].name = raws[l].name
        BY <1>6, Zenon
    <2> QED BY <2>1, <2>2, Zenon
<1> HIDE DEF News, Olds
<1>8. \A k, l \in B : Olds[k].name = Olds[l].name => k = l
    <2> HIDE DEF A, B
    <2> SUFFICES ASSUME NEW k \in B, NEW l \in B, Olds[k].name = Olds[l].name
                 PROVE  k = l
        OBVIOUS
    <2>1. PICK x \in A : p[x] = k
        BY <1>5, Zenon
    <2>2. PICK y \in A : p[y] = l
        BY <1>5, Zenon
    <2>3. News[x].name = News[y].name
        BY <2>1, <2>2, <1>6, Zenon
    <2> QED BY <2>1, <2>2, <2>3, <1>7, Zenon
<1>9. UpAddrs(News, A) = UpAddrs(Olds, B)
    <2> HIDE DEF A, B
    <2> QED BY <1>5, <1>6 DEF UpAddrs
<1>10. {News[k].name : k \in A} = {Olds[k].name : k \in B}
    <2> HIDE DEF A, B
    <2> QED BY <1>5, <1>6
<1>11. ASSUME NEW name \in {News[k].name : k \in A}
       PROVE  Kept(News, m, name) = Kept(Olds, n, name)
    <2>1. PICK k \in A : name = News[k].name
        OBVIOUS
    <2>2. p[k] \in B /\ News[k] = Olds[p[k]]
        BY <1>5, <1>6
    <2>3. Kept(News, m, News[k].name) = News[k]
        <3> HIDE DEF m
        <3> QED BY <1>2, <1>7, KeptOnce
    <2>4. Kept(Olds, n, Olds[p[k]].name) = Olds[p[k]]
        <3> HIDE DEF n
        <3> QED BY <1>2, <1>8, <2>2, KeptOnce
    <2> QED BY <2>1, <2>2, <2>3, <2>4, Zenon
<1>12. [name \in {News[k].name : k \in A} |-> Kept(News, m, name)]
       = [name \in {Olds[k].name : k \in B} |-> Kept(Olds, n, name)]
    <2> HIDE DEF A, B
    <2> QED BY <1>10, <1>11, Zenon
<1>13. local_addresses(raws) = local_addresses(olds)
    BY LocalAddressesAlike, Zenon
<1>14. get_state(raws, route) =
          [interfaces |-> [name \in {News[k].name : k \in A} |-> Kept(News, m, name)],
           local_addresses |-> local_addresses(raws),
           have_v4 |-> \E a \in UpAddrs(News, A) : ~ is_loopback(a) /\ is_usable_v4(a),
           have_v6 |-> \E a \in UpAddrs(News, A) : ~ is_loopback(a) /\ is_usable_v6(a),
           is_expensive |-> FALSE,
           default_route_interface |-> route]
    BY Zenon DEF get_state, UpAddrs, AddrsOf, Kept, News
<1>15. get_state(olds, route) =
          [interfaces |-> [name \in {Olds[k].name : k \in B} |-> Kept(Olds, n, name)],
           local_addresses |-> local_addresses(olds),
           have_v4 |-> \E a \in UpAddrs(Olds, B) : ~ is_loopback(a) /\ is_usable_v4(a),
           have_v6 |-> \E a \in UpAddrs(Olds, B) : ~ is_loopback(a) /\ is_usable_v6(a),
           is_expensive |-> FALSE,
           default_route_interface |-> route]
    BY Zenon DEF get_state, UpAddrs, AddrsOf, Kept, Olds
<1> HIDE DEF A, B, m, n
<1> QED BY <1>9, <1>12, <1>13, <1>14, <1>15, Zenon

-----------------------------------------------------------------------------
(* Local addresses and usable addresses.                                   *)

Has(nets, net) == \E j \in DOMAIN nets : nets[j] = net

\* The entries of two lists put together.
LEMMA EntriesOfBoth ==
    ASSUME NEW s \in Seq(Network), NEW t \in Seq(Network), NEW net
    PROVE  Has(s \o t, net) <=> Has(s, net) \/ Has(t, net)
<1>1. /\ DOMAIN s = 1..Len(s) /\ Len(s) \in Nat /\ DOMAIN t = 1..Len(t) /\ Len(t) \in Nat
      /\ DOMAIN (s \o t) = 1..(Len(s) + Len(t))
    OBVIOUS
<1>2. ASSUME NEW j \in DOMAIN (s \o t), (s \o t)[j] = net
      PROVE  (\E i \in DOMAIN s : s[i] = net) \/ (\E i \in DOMAIN t : t[i] = net)
    <2>1. CASE j <= Len(s)
        <3>1. j \in DOMAIN s /\ s[j] = net
            BY <1>1, <1>2, <2>1
        <3> QED BY <3>1
    <2>2. CASE j > Len(s)
        <3>1. j - Len(s) \in DOMAIN t /\ t[j - Len(s)] = net
            BY <1>1, <1>2, <2>2
        <3> QED BY <3>1
    <2> QED BY <2>1, <2>2, <1>1
<1>3. ASSUME NEW j \in DOMAIN s, s[j] = net
      PROVE  \E i \in DOMAIN (s \o t) : (s \o t)[i] = net
    <2>1. j \in DOMAIN (s \o t) /\ (s \o t)[j] = net
        BY <1>1, <1>3
    <2> QED BY <2>1
<1>4. ASSUME NEW j \in DOMAIN t, t[j] = net
      PROVE  \E i \in DOMAIN (s \o t) : (s \o t)[i] = net
    <2>1. Len(s) + j \in DOMAIN (s \o t) /\ (s \o t)[Len(s) + j] = net
        BY <1>1, <1>4
    <2> QED BY <2>1
<1> QED BY <1>2, <1>3, <1>4, Zenon DEF Has

\* Sorting a list keeps its entries.
LEMMA EntriesSorted ==
    ASSUME NEW nets \in Seq(Network), NEW net
    PROVE  Has(ByAddress(nets), net) <=> Has(nets, net)
<1> DEFINE s == ByAddress(nets)
<1>1. /\ DOMAIN s = DOMAIN nets
      /\ \A p \in DOMAIN nets : \E k \in DOMAIN nets : s[p] = nets[k]
      /\ \A k \in DOMAIN nets : \E p \in DOMAIN nets : s[p] = nets[k]
    BY ByAddressKeeps
<1> HIDE DEF s
<1>2. Has(s, net) <=> Has(nets, net)
    BY <1>1 DEF Has
<1> QED BY <1>2 DEF s

\* An interface of a State has the networks netdev lists for it.
LEMMA NetworksKept ==
    ASSUME NEW raws \in Machines, NEW k \in DOMAIN raws, NEW net
    PROVE  Has(to_interface(raws[k]).addrs, net) <=>
              \E fam \in Families : Has(raws[k][fam], net)
<1> DEFINE r4 == raws[k].ipv4
           r6 == raws[k].ipv6
<1>1. r4 \in Seq(Network) /\ r6 \in Seq(Network)
    <2>1. \A fam \in Families : raws[k][fam] \in Seq(Network)
        BY ListsOfMachine, Zenon
    <2> QED BY <2>1 DEF Families
<1>2. to_interface(raws[k]).addrs = ByAddress(r4) \o ByAddress(r6)
    BY DEF to_interface
<1>3. (\E fam \in Families : Has(raws[k][fam], net)) <=> Has(r4, net) \/ Has(r6, net)
    BY DEF Families
<1> HIDE DEF r4, r6
<1>4. ByAddress(r4) \in Seq(Network) /\ ByAddress(r6) \in Seq(Network)
    BY <1>1, ByAddressKeeps
<1>5. /\ Has(ByAddress(r4), net) <=> Has(r4, net)
      /\ Has(ByAddress(r6), net) <=> Has(r6, net)
    BY <1>1, EntriesSorted, Zenon
<1>6. Has(ByAddress(r4) \o ByAddress(r6), net) <=> Has(ByAddress(r4), net) \/ Has(ByAddress(r6), net)
    BY <1>4, EntriesOfBoth, Zenon
<1> QED BY <1>2, <1>3, <1>5, <1>6, Zenon

AddrAt(raws, at) == raws[at[1]][at[2]][at[3]].addr

\* get_state goes through the addresses at the places local_addresses goes
\* through.
LEMMA SameAddresses ==
    ASSUME NEW raws \in Machines, NEW a
    PROVE  a \in UpAddrs([k \in 1..Len(raws) |-> to_interface(raws[k])], 1..Len(raws))
              <=> \E at \in UpAddresses(raws) : AddrAt(raws, at) = a
<1> DEFINE D == 1..Len(raws)
           ifaces == [k \in D |-> to_interface(raws[k])]
<1>1. DOMAIN raws = D
    BY ListsOfMachine, Zenon
<1>2. \A k \in D : ifaces[k] = to_interface(raws[k]) /\ ifaces[k].flags = raws[k].flags
    <2>1. \A k \in D : to_interface(raws[k]).flags = raws[k].flags
        BY DEF to_interface
    <2> HIDE DEF D
    <2> QED BY <2>1, Zenon
<1> HIDE DEF D, ifaces
<1>3. ASSUME a \in UpAddrs(ifaces, D)
      PROVE  \E at \in UpAddresses(raws) : AddrAt(raws, at) = a
    <2>1. PICK k \in D : "up" \in raws[k].flags /\ a \in AddrsOf(to_interface(raws[k]))
        BY <1>2, <1>3 DEF UpAddrs
    <2>2. PICK i \in DOMAIN to_interface(raws[k]).addrs : a = to_interface(raws[k]).addrs[i].addr
        BY <2>1 DEF AddrsOf
    <2> DEFINE net == to_interface(raws[k]).addrs[i]
    <2>3. net.addr = a /\ Has(to_interface(raws[k]).addrs, net)
        BY <2>2 DEF Has
    <2> HIDE DEF net
    <2>4. \E fam \in Families : Has(raws[k][fam], net)
        BY <1>1, <2>1, <2>3, NetworksKept
    <2>5. PICK fam \in Families : Has(raws[k][fam], net)
        BY <2>4
    <2>6. PICK j \in DOMAIN raws[k][fam] : raws[k][fam][j] = net
        BY <2>5 DEF Has
    <2>7. <<k, fam, j>> \in UpAddresses(raws)
        BY <1>1, <2>1, <2>5, <2>6, IsPlace, Zenon
    <2>8. AddrAt(raws, <<k, fam, j>>) = a
        BY <2>3, <2>6 DEF AddrAt
    <2> QED BY <2>7, <2>8
<1>4. ASSUME NEW at \in UpAddresses(raws), AddrAt(raws, at) = a
      PROVE  a \in UpAddrs(ifaces, D)
    <2> DEFINE k == at[1]
               net == raws[at[1]][at[2]][at[3]]
    <2>1. /\ k \in DOMAIN raws /\ "up" \in raws[k].flags
          /\ at[2] \in Families /\ at[3] \in DOMAIN raws[k][at[2]]
        BY PlaceIs, Zenon
    <2>2. \E fam \in Families : Has(raws[k][fam], net)
        BY <2>1, Zenon DEF Has
    <2>3. net.addr = a
        BY <1>4 DEF AddrAt
    <2> HIDE DEF net, k
    <2>4. PICK i \in DOMAIN to_interface(raws[k]).addrs : to_interface(raws[k]).addrs[i] = net
        BY <2>1, <2>2, NetworksKept DEF Has
    <2>5. a \in AddrsOf(ifaces[k])
        BY <2>1, <2>3, <2>4, <1>1, <1>2 DEF AddrsOf
    <2> QED BY <2>1, <2>5, <1>1, <1>2 DEF UpAddrs
<1> QED BY <1>3, <1>4, Zenon DEF D, ifaces

\* On an ordinary machine the addresses that count for have_v4 and have_v6 are
\* those that go to the lists of regular or of fallback addresses.
LEMMA UsableIsListed ==
    ASSUME NEW raws \in Machines, Ordinary(raws), NEW at \in UpAddresses(raws)
    PROVE  ListOf(raws, at) \in {"regular", "linklocal4", "ula6"} <=>
              LET a == AddrAt(raws, at)
              IN  ~ is_loopback(a) /\ (is_usable_v4(a) \/ is_usable_v6(a))
<1> DEFINE a == AddrAt(raws, at)
           flags == raws[at[1]].flags
<1>1. a.class \in Classes /\ a.fam \in {4, 6}
    <2>1. at[1] \in DOMAIN raws /\ at[2] \in Families /\ at[3] \in DOMAIN raws[at[1]][at[2]]
        BY PlaceIs, Zenon
    <2>2. raws[at[1]][at[2]] \in Seq(Network)
        BY <2>1, ListsOfMachine, Zenon
    <2>3. raws[at[1]][at[2]][at[3]] \in Network
        BY <2>1, <2>2
    <2> QED BY <2>3, Zenon DEF Network, Address, AddrAt
<1>2. /\ "loopback" \in flags => is_loopback(a)
      /\ a.fam = 6 => a.class \in {"global", "private", "linklocal", "loopback"}
    BY Zenon DEF Ordinary, AddrAt
<1>3. IpAt(raws, at) = to_canonical(a)
    BY Zenon DEF IpAt, AddrAt
<1>4. ListOf(raws, at) =
        IF is_loopback(to_canonical(a)) \/ "loopback" \in flags THEN "loopback"
        ELSE IF is_link_local(to_canonical(a))
             THEN (IF to_canonical(a).fam = 4 THEN "linklocal4" ELSE "none")
        ELSE IF to_canonical(a).fam = 6 /\ is_private(to_canonical(a)) THEN "ula6"
        ELSE "regular"
    BY <1>3, Zenon DEF ListOf
<1> HIDE DEF a, flags
<1>5. ListOf(raws, at) \in {"regular", "linklocal4", "ula6"} <=>
          ~ is_loopback(a) /\ (is_usable_v4(a) \/ is_usable_v6(a))
    <2>1. CASE a.class = "mapped"
        <3>1. a.fam = 4
            BY <1>1, <1>2, <2>1
        <3>2. to_canonical(a).fam = 4 /\ to_canonical(a).class = "global" /\ "loopback" \notin flags
            BY <1>2, <2>1 DEF to_canonical, is_loopback
        <3> HIDE DEF to_canonical
        <3> QED BY <1>4, <2>1, <3>1, <3>2
                DEF is_loopback, is_link_local, is_private, is_usable_v4, is_usable_v6
    <2>2. CASE a.class # "mapped"
        <3>1. to_canonical(a) = a
            BY <2>2 DEF to_canonical
        <3> QED BY <1>1, <1>2, <1>4, <2>2, <3>1
                DEF is_loopback, is_link_local, is_private, is_usable_v4, is_usable_v6, Classes
    <2> QED BY <2>1, <2>2
<1> QED BY <1>5 DEF a

\* have_v4 and have_v6 agree with the local addresses.
LEMMA UsableIffRegular ==
    ASSUME NEW raws \in Machines, Ordinary(raws), NEW route
    PROVE  get_state(raws, route).have_v4 \/ get_state(raws, route).have_v6 <=>
              get_state(raws, route).local_addresses.regular # <<>>
<1> DEFINE addrs == UpAddrs([k \in 1..Len(raws) |-> to_interface(raws[k])], 1..Len(raws))
           places == IF Listed(raws, {"regular"}) = {} THEN Listed(raws, {"linklocal4", "ula6"})
                                                       ELSE Listed(raws, {"regular"})
           state == get_state(raws, route)
<1>1. /\ state.have_v4 = \E a \in addrs : ~ is_loopback(a) /\ is_usable_v4(a)
      /\ state.have_v6 = \E a \in addrs : ~ is_loopback(a) /\ is_usable_v6(a)
      /\ state.local_addresses.regular = SortedIps(raws, places)
    BY Zenon DEF get_state, UpAddrs, AddrsOf, local_addresses
<1>2. \A a : a \in addrs <=> \E at \in UpAddresses(raws) : AddrAt(raws, at) = a
    BY SameAddresses, Zenon
<1>3. SortedIps(raws, places) = <<>> <=> places = {}
    <2>1. places \in SUBSET UpAddresses(raws)
        BY DEF Listed
    <2> HIDE DEF places
    <2>2. IsFiniteSet(places)
        BY <2>1, PlacesFinite, FS_Subset, Zenon
    <2> QED BY <2>2, SortedIpsEmpty, Zenon
<1>4. places # {} <=>
         \E at \in UpAddresses(raws) : ListOf(raws, at) \in {"regular", "linklocal4", "ula6"}
    BY DEF Listed
<1> HIDE DEF addrs, places, state
<1>5. (\E at \in UpAddresses(raws) : ListOf(raws, at) \in {"regular", "linklocal4", "ula6"})
      <=> \E at \in UpAddresses(raws) : /\ ~ is_loopback(AddrAt(raws, at))
                                       /\ \/ is_usable_v4(AddrAt(raws, at))
                                          \/ is_usable_v6(AddrAt(raws, at))
    BY UsableIsListed, Zenon
<1>6. state.have_v4 \/ state.have_v6 <=>
         \E at \in UpAddresses(raws) : /\ ~ is_loopback(AddrAt(raws, at))
                                       /\ \/ is_usable_v4(AddrAt(raws, at))
                                          \/ is_usable_v6(AddrAt(raws, at))
    <2>1. ASSUME NEW at \in UpAddresses(raws)
          PROVE  AddrAt(raws, at) \in addrs
        BY <1>2, Zenon
    <2>2. ASSUME NEW a \in addrs
          PROVE  \E at \in UpAddresses(raws) : AddrAt(raws, at) = a
        BY <1>2, Zenon
    <2>3. state.have_v4 \/ state.have_v6 <=>
             \E a \in addrs : ~ is_loopback(a) /\ (is_usable_v4(a) \/ is_usable_v6(a))
        BY <1>1, Zenon
    <2> QED BY <2>1, <2>2, <2>3, Zenon
<1> QED BY <1>1, <1>3, <1>4, <1>5, <1>6, Zenon DEF state

-----------------------------------------------------------------------------
(* Comparing the states of the interfaces.                                 *)

\* What CompareStates computes.
Compared ==
    LET new == get_state(input.raws, "eth0")
        old == get_state(input.olds, input.route)
    IN [major |-> is_major_change(new, old), major_back |-> is_major_change(old, new),
        equal |-> StateEq(new, old),
        have |-> new.have_v4 \/ new.have_v6, regular |-> new.local_addresses.regular]
ComparedInv ==
    /\ input.raws \in Machines /\ input.olds \in Machines
    /\ output = Pending \/ output = Compared

LEMMA StatesCompared == StateSpec => []ComparedInv
<1>1. StateInit /\ output = Pending => ComparedInv
    BY DEF StateInit, ComparedInv
<1>2. ComparedInv /\ [CompareStates]_vars => ComparedInv'
    <2> SUFFICES ASSUME ComparedInv, [CompareStates]_vars PROVE ComparedInv'
        OBVIOUS
    <2>1. input' = input
        BY DEF CompareStates, Compute, vars
    <2>2. Compared' = Compared
        BY <2>1, Zenon DEF Compared
    <2>3. output' = output \/ output' = Compared
        BY Zenon DEF CompareStates, Compute, vars, Compared
    <2> QED BY <2>1, <2>2, <2>3, Zenon DEF ComparedInv, Pending
<1> QED BY <1>1, <1>2, PTL DEF StateSpec

\* Reading the same machine twice gives equal states without a major change,
\* for any machine that lists everything once and any other order of it
\* (to_interface and local_addresses sort, get_state keys by name).
THEOREM SnapshotsAreStable == StateSpec => []SnapshotsStable
<1>1. ComparedInv => SnapshotsStable
    <2> SUFFICES ASSUME ComparedInv, output # Pending, input.route = "eth0",
                        EachOnce(input.raws), Relisted(input.raws, input.olds)
                 PROVE  output.equal /\ ~ output.major
        BY Zenon DEF SnapshotsStable, Done
    <2> DEFINE state == get_state(input.raws, "eth0")
    <2>1. output = Compared /\ input.raws \in Machines /\ input.olds \in Machines
        BY Zenon DEF ComparedInv
    <2>2. get_state(input.olds, input.route) = state
        BY <2>1, StatesAlike, Zenon
    <2> HIDE DEF state
    <2>3. output.equal = StateEq(state, state) /\ output.major = is_major_change(state, state)
        BY <2>1, <2>2, Zenon DEF Compared, state
    <2>4. StateEq(state, state)
        BY Zenon DEF StateEq, InterfaceEq
    <2>5. ~ is_major_change(state, state)
        BY Zenon DEF is_major_change, InterfaceEq, prefixes_major_equal
    <2> QED BY <2>3, <2>4, <2>5
<1> QED BY <1>1, StatesCompared, PTL

\* On every ordinary machine there is a regular local address to offer exactly
\* when have_v4 or have_v6 is set (get_state, local_addresses).
THEOREM UsableAddressesAgree == StateSpec => []UsableAgree
<1>1. ComparedInv => UsableAgree
    <2> SUFFICES ASSUME ComparedInv, output # Pending, Ordinary(input.raws)
                 PROVE  output.have <=> output.regular # <<>>
        BY Zenon DEF UsableAgree, Done
    <2> DEFINE state == get_state(input.raws, "eth0")
    <2>1. output = Compared /\ input.raws \in Machines
        BY Zenon DEF ComparedInv
    <2>2. state.have_v4 \/ state.have_v6 <=> state.local_addresses.regular # <<>>
        BY <2>1, UsableIffRegular, Zenon
    <2> HIDE DEF state
    <2>3. /\ output.have = (state.have_v4 \/ state.have_v6)
          /\ output.regular = state.local_addresses.regular
        BY <2>1, Zenon DEF Compared, state
    <2> QED BY <2>2, <2>3, Zenon
<1> QED BY <1>1, StatesCompared, PTL

\* is_major_change does not depend on which of the two states is the old one.
LEMMA MajorBothWays ==
    ASSUME NEW s, NEW t
    PROVE  is_major_change(s, t) = is_major_change(t, s)
<1>1. \A i, j : InterfaceEq(i, j) <=> InterfaceEq(j, i)
    BY DEF InterfaceEq
<1>2. \A a, b : prefixes_major_equal(a, b) <=> prefixes_major_equal(b, a)
    BY DEF prefixes_major_equal
<1>3. is_major_change(s, t) <=> is_major_change(t, s)
    BY <1>1, <1>2, Zenon DEF is_major_change
<1>4. is_major_change(s, t) \in BOOLEAN /\ is_major_change(t, s) \in BOOLEAN
    BY DEF is_major_change
<1> QED BY <1>3, <1>4

\* A change of the interfaces and its undoing are both major or both minor, for
\* all lists of interfaces netdev may give and with or without a default route.
THEOREM MajorChangeSymmetric == StateSpec => []MajorSymmetric
<1>1. ComparedInv => MajorSymmetric
    <2> SUFFICES ASSUME output = Compared
                 PROVE  output.major = output.major_back
        BY Zenon DEF MajorSymmetric, Done, ComparedInv
    <2> DEFINE new == get_state(input.raws, "eth0")
               old == get_state(input.olds, input.route)
    <2>1. /\ output.major = is_major_change(new, old)
          /\ output.major_back = is_major_change(old, new)
        BY DEF Compared
    <2> HIDE DEF new, old
    <2>2. is_major_change(new, old) = is_major_change(old, new)
        BY MajorBothWays, Zenon
    <2> QED BY <2>1, <2>2
<1> QED BY <1>1, StatesCompared, PTL
=============================================================================
