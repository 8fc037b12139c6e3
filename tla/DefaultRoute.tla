---------------------------- MODULE DefaultRoute ----------------------------
(***************************************************************************)
(* How Linux and Android find the interface of the default route: the      *)
(* table in /proc, which has IPv4 routes only, then netlink, IPv4 before   *)
(* IPv6, or on Android the output of the ip command.                       *)
(*                                                                         *)
(* A route is a record [fam, iface, kind, gateway]: its kind is "default", *)
(* "half" (0.0.0.0/1 or ::/1, whose destination is all zeros too),         *)
(* or "network".  What can fail is a set of faults: "proc" (no such file), *)
(* "line" (the first line of it that mentions 00000000 is cut short),      *)
(* "netlink", "dump4", "dump6", "link" (the query for the interface's      *)
(* name), "ip" (no ip command).  A result is an interface, None or Error.  *)
(***************************************************************************)
EXTENDS Naturals, Sequences, FiniteSetsExt, Computation

None == "None"
Error == "Err"
Failed(x) == x \in {None, Error}

-----------------------------------------------------------------------------
(* /proc/net/route.                                                        *)

\* The fields that matter of a line of /proc/net/route: "zero" is 00000000.
ProcLine(route) ==
    [iface |-> route.iface,
     destination |-> IF route.kind \in {"default", "half"} THEN "zero" ELSE "other",
     gateway |-> IF route.gateway THEN "other" ELSE "zero",
     mask |-> IF route.kind = "default" THEN "zero" ELSE "other"]

\* Mutant: the mask is not looked at.
IsDefaultLineAnyMask(line) == line.destination = "zero"

IsDefaultLine(line) == line.destination = "zero" /\ line.mask = "zero"

\* Lines without 00000000 anywhere are skipped; a line cut short that has one is
\* an error, and ends the search.
default_route_proc(routes, faults) ==
    LET lines == [k \in {j \in DOMAIN routes : routes[j].fam = 4} |-> ProcLine(routes[k])]
        zero == {k \in DOMAIN lines :
                   "zero" \in {lines[k].destination, lines[k].gateway, lines[k].mask}}
        found == {k \in zero : IsDefaultLine(lines[k])}
    IN IF "proc" \in faults THEN Error
       ELSE IF "line" \in faults /\ zero # {} THEN Error
       ELSE IF found = {} THEN None ELSE lines[Min(found)].iface

-----------------------------------------------------------------------------
(* netlink.                                                                *)

\* The dump of one family: a default route has a gateway and no prefix length.
default_route_netlink_family(routes, fam, faults) ==
    LET found == {k \in DOMAIN routes : /\ routes[k].fam = fam /\ routes[k].gateway
                                        /\ routes[k].kind = "default"}
    IN IF (IF fam = 4 THEN "dump4" ELSE "dump6") \in faults THEN Error
       ELSE IF found = {} THEN None
       ELSE IF "link" \in faults THEN Error
       ELSE routes[Min(found)].iface

NetlinkDefaultRoute(routes, faults) ==
    IF "netlink" \in faults THEN Error
    ELSE LET v4 == default_route_netlink_family(routes, 4, faults)
         IN IF v4 = None THEN default_route_netlink_family(routes, 6, faults) ELSE v4

-----------------------------------------------------------------------------
(* Android.                                                                *)

\* A line of the output of "ip route show table 0", word by word.
AndroidLine(route) ==
    IF route.kind = "default" /\ route.gateway
       THEN <<"default", "via", "router", "dev", route.iface, "table", "1016">>
       ELSE IF route.kind = "default" THEN <<"default", "dev", route.iface>>
       ELSE <<"net", "dev", route.iface>>

\* The word after the first "dev" of the first line that begins with "default via".
parse_android_ip_route(lines) ==
    LET dev(k) == {j \in DOMAIN lines[k] : lines[k][j] = "dev"}
        found == {k \in DOMAIN lines : /\ Len(lines[k]) > 1 /\ dev(k) # {}
                                       /\ lines[k][1] = "default" /\ lines[k][2] = "via"}
        line == lines[Min(found)]
        at == Min(dev(Min(found)))
    IN IF found = {} \/ at = Len(line) THEN None ELSE line[at + 1]

AndroidDefaultRoute(routes, faults) ==
    IF "ip" \in faults THEN Error
    ELSE parse_android_ip_route([k \in {j \in DOMAIN routes : routes[j].fam = 4} |->
                                   AndroidLine(routes[k])])

-----------------------------------------------------------------------------
default_route(android, routes, faults) ==
    LET proc == default_route_proc(routes, faults)
        res == IF android THEN AndroidDefaultRoute(routes, faults)
                          ELSE NetlinkDefaultRoute(routes, faults)
    IN IF ~ Failed(proc) THEN proc
       ELSE IF res = Error THEN None ELSE res

-----------------------------------------------------------------------------
(* The search at work, for any routing table and any faults.               *)

CONSTANTS Interfaces, RouteTables

RouteKinds == {"default", "half", "network"}
LinuxRoutes(ifaces) == [fam : {4, 6}, iface : ifaces, kind : RouteKinds, gateway : BOOLEAN]

ASSUME RoutesAssumption ==
    RouteTables \subseteq Seq(LinuxRoutes(Interfaces)) /\ \A i \in Interfaces : ~ Failed(i)

SearchFaults(android) == IF android THEN {"proc", "line", "ip"}
                         ELSE {"proc", "line", "netlink", "dump4", "dump6", "link"}

RouteInit ==
    \E routes \in RouteTables, android \in BOOLEAN :
        \E faults \in SUBSET SearchFaults(android) :
            input = [kind |-> "route", routes |-> routes, android |-> android, faults |-> faults]

FindDefaultRoute ==
    Compute("route", [found |-> default_route(input.android, input.routes, input.faults)])

RouteSpec == RouteInit /\ output = Pending /\ [][FindDefaultRoute]_vars

\* The interfaces of the default routes of a family.
DefaultsOf(routes, fam) ==
    {routes[k].iface : k \in {j \in DOMAIN routes : /\ routes[j].kind = "default"
                                                   /\ routes[j].fam = fam
                                                   /\ (fam = 4 \/ routes[j].gateway)}}

\* The interface default_route names has a default route, whatever fails on the
\* way; one is found whenever nothing fails, and an IPv4 route comes before any
\* IPv6 route.  On Android IPv6 routes are not looked at.
DefaultRouteRight ==
    Done("route") =>
        LET v4 == DefaultsOf(input.routes, 4)
            v6 == DefaultsOf(input.routes, 6)
        IN /\ output.found # None => output.found \in v4 \cup v6
           /\ input.faults = {} /\ v4 # {} => output.found \in v4
           /\ input.faults = {} /\ ~ input.android /\ v6 # {} => output.found # None
=============================================================================
