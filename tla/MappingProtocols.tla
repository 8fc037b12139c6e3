-------------------------- MODULE MappingProtocols --------------------------
(***************************************************************************)
(* The three mapping protocols of portmapper against a gateway with a      *)
(* table of mappings: how PCP, NAT-PMP and UPnP register, renew and        *)
(* release the mapping of a local port, over a network that may lose,      *)
(* delay, duplicate and reorder datagrams, by an attempt that the service  *)
(* may abort at any await.                                                 *)
(*                                                                         *)
(* The service is the part of PortMapper that holds a mapping: it starts   *)
(* and aborts attempts, holds their result for two halves of its lifetime  *)
(* and releases it when the local port changes.  The outcome of a finished *)
(* attempt is handled at once, and the handling of a dropped client covers *)
(* the start of a new one.  Time passes in ticks; a due timer is handled   *)
(* before the next tick.                                                   *)
(***************************************************************************)
EXTENDS Integers, Sequences

CONSTANTS
    Ports,       \* local ports
    Exts,        \* external ports of the gateway
    Nonces,      \* PCP nonces
    Socks,       \* ephemeral ports of the sockets of the attempts
    Transport,   \* Config.protocol: "udp" or "tcp"
    Gateways,    \* the possible gateways: sets of methods they support
    Lifetimes,   \* lifetimes a PCP or NAT-PMP gateway may grant
    Hour,        \* HALF_LIFETIME of UPnP; its lease is twice that
    Timeout,     \* PCP_RECV_TIMEOUT, NAT_PMP_RECV_TIMEOUT
    MaxRequests, \* bound on the datagrams on their way to the gateway
    Faults,      \* what the network and the gateway may do
    None

Methods == {"pcp", "nat_pmp", "upnp"}
Transports == {"udp", "tcp"}

ASSUME ConstantsAssumption ==
    /\ None \notin Ports \cup Exts \cup Nonces \cup Socks
    /\ Transport \in Transports
    /\ Gateways \subseteq SUBSET Methods
    /\ Lifetimes \subseteq Nat
    /\ Hour \in Nat \ {0} /\ Timeout \in Nat \ {0} /\ MaxRequests \in Nat
    /\ Faults \subseteq {"lose", "delay", "duplicate", "reorder", "reuse",
                   "offline", "reboot"}

VARIABLES
    port,      \* Service.local_port
    held,      \* CurrentMapping.mapping
    releasing, \* the mapping whose release invalidate_mapping awaits
    task,      \* Service.mapping_task
    requests,  \* datagrams on their way to the gateway
    replies,   \* datagrams on their way back
    table,     \* the gateway's mappings
    supported, \* the methods of this gateway
    lease,     \* the lifetime it grants
    abandoned  \* history: ports of mappings and attempts that were given up

vars == <<port, held, releasing, task, requests, replies, table, supported,
          lease, abandoned>>
gateway == <<supported, lease>>

Option(S) == S \cup {None}

\* pcp::Mapping, nat_pmp::Mapping and upnp::Mapping, with the deadline and
\* expire_after of the ActiveMapping around them.
Mapping == [method : Methods \cup {"none"}, port : Option(Ports),
            ext : Option(Exts), nonce : Option(Nonces), half : Nat, left : Nat,
            expire_after : BOOLEAN]
NoMapping == [method |-> "none", port |-> None, ext |-> None, nonce |-> None,
              half |-> 0, left |-> 0, expire_after |-> FALSE]

\* An attempt: the await it is at, and what it remembers.  `wait` counts down
\* the timeout of that await.
Stages == {"off", "map", "addr", "search", "extip", "add", "added", "any",
           "any_added"}
Task == [method : Methods \cup {"none"}, stage : Stages, port : Option(Ports),
         wanted : Option(Exts), sock : Option(Socks), nonce : Option(Nonces),
         wait : Nat, ext : Option(Exts), lifetime : Nat]
NoTask == [method |-> "none", stage |-> "off", port |-> None, wanted |-> None,
           sock |-> None, nonce |-> None, wait |-> 0, ext |-> None,
           lifetime |-> 0]

\* Requests: a mapping, its release (lifetime zero) or the external address.
Request == [kind : {"map", "release", "addr"}, method : Methods,
            sock : Option(Socks), transport : Transports, port : Option(Ports),
            wanted : Option(Exts), nonce : Option(Nonces)]

\* Responses: a granted mapping, the external address, or an error code.
Reply == [kind : {"map", "addr", "refused"}, method : Methods,
          sock : Option(Socks), transport : Transports, port : Option(Ports),
          ext : Option(Exts), nonce : Option(Nonces), lifetime : Nat]

Entry == [method : Methods, transport : Transports, port : Ports, ext : Exts,
          nonce : Option(Nonces), ttl : Nat]

Init ==
    /\ port = None
    /\ held = NoMapping
    /\ releasing = NoMapping
    /\ task = NoTask
    /\ requests = <<>>
    /\ replies = {}
    /\ table = {}
    /\ supported \in Gateways
    /\ lease \in Lifetimes
    /\ abandoned = {}

-----------------------------------------------------------------------------
(* The attempts                                                            *)

\* bind_full((local_ip, 0)): a port nobody is bound to; it may be one that
\* answers to an earlier attempt are still on their way to.
FreeSocks ==
    {s \in Socks : "reuse" \in Faults \/
        /\ \A r \in replies : r.sock # s
        /\ \A i \in DOMAIN requests : requests[i].sock # s}

\* rand::rng().fill_bytes: no nonce is drawn twice.
FreshNonces ==
    {n \in Nonces :
        /\ n \notin {held.nonce, releasing.nonce, task.nonce}
        /\ \A i \in DOMAIN requests : requests[i].nonce # n
        /\ \A r \in replies : r.nonce # n
        /\ \A e \in table : e.nonce # n}

MapRequest(t) ==
    [kind |-> "map", method |-> t.method, sock |-> t.sock,
     transport |-> Transport, port |-> t.port, wanted |-> t.wanted,
     nonce |-> t.nonce]

AddrRequest(t) ==
    [kind |-> "addr", method |-> t.method, sock |-> t.sock,
     transport |-> Transport, port |-> None, wanted |-> None, nonce |-> None]

\* pcp::Mapping::new and nat_pmp::Mapping::new up to the first await of a
\* response; upnp::Mapping::new with or without a known gateway.
NewPcp(p, wanted) ==
    {[NoTask EXCEPT !.method = "pcp", !.stage = "map", !.port = p,
                    !.wanted = wanted, !.sock = sn[1], !.nonce = sn[2],
                    !.wait = Timeout] : sn \in FreeSocks \X FreshNonces}

NewNatPmp(p, wanted) ==
    {[NoTask EXCEPT !.method = "nat_pmp", !.stage = "map", !.port = p,
                    !.wanted = wanted, !.sock = s,
                    !.wait = Timeout] : s \in FreeSocks}

NewUpnp(p, wanted) ==
    {[NoTask EXCEPT !.method = "upnp", !.stage = st, !.port = p,
                    !.wanted = wanted] : st \in {"search", "extip"}}

Attempts(p, wanted) ==
    UNION {CASE m = "pcp" -> NewPcp(p, wanted)
             [] m = "nat_pmp" -> NewNatPmp(p, wanted)
             [] m = "upnp" -> NewUpnp(p, wanted) : m \in supported}

\* An attempt or a mapping is given up: whatever it has registered, or may
\* still register, stays at the gateway until its lifetime ends.
GivenUp(t) == IF t.method = "none" THEN {} ELSE {t.port}

\* get_mapping(wanted), after `sent` was sent and the ports `gone` given up: an
\* early return (no port, no home router found) leaves the old task, a new one
\* replaces and so aborts it.
GetMapping(p, wanted, old, sent, gone) ==
    \/ /\ p = None \/ "offline" \in Faults
       /\ task' = old
       /\ requests' = sent
       /\ abandoned' = abandoned \cup gone
    \/ /\ p # None
       /\ Len(sent) < MaxRequests
       /\ \E t \in Attempts(p, wanted) :
             /\ task' = t
             /\ requests' = IF t.method = "upnp" THEN sent
                                                 ELSE Append(sent, MapRequest(t))
       /\ abandoned' = abandoned \cup gone \cup GivenUp(old)

\* The task ends with an error: nothing changes but that it is over.
Failed == task' = NoTask /\ abandoned' = abandoned \cup GivenUp(task)

\* on_mapping_result(Ok(mapping)): ActiveMapping::new starts the first half;
\* the mapping held before is dropped.
Accept(ext, half) ==
    /\ held' = [method |-> task.method, port |-> task.port, ext |-> ext,
                nonce |-> task.nonce, half |-> half, left |-> half,
                expire_after |-> FALSE]
    /\ task' = NoTask
    /\ abandoned' = abandoned

\* Mutant: the nonce of the response is not compared.
PcpMatchesNoNonce(r) ==
    /\ r.kind = "map" /\ r.method = "pcp"
    /\ r.transport = Transport
    /\ r.port = task.port

\* Mutant: the result code of the response is not looked at.
PcpMatchesError(r) ==
    /\ r.method = "pcp"
    /\ r.nonce = task.nonce
    /\ r.port = task.port

\* pcp::Mapping::new: the response belongs to the request.
PcpMatches(r) ==
    /\ r.kind = "map" /\ r.method = "pcp"
    /\ r.nonce = task.nonce
    /\ r.transport = Transport
    /\ r.port = task.port

\* nat_pmp::Mapping::new: the response belongs to the request.
NatPmpMatches(r) ==
    /\ r.kind = "map" /\ r.method = "nat_pmp"
    /\ r.transport = Transport
    /\ r.port = task.port

\* socket.recv of an attempt returns: a response that does not fit ends it.
Receives(r) ==
    /\ task.sock # None
    /\ r \in replies
    /\ r.sock = task.sock
    /\ \/ replies' = replies \ {r}
       \/ "duplicate" \in Faults /\ replies' = replies
    /\ UNCHANGED <<port, releasing, table, gateway>>

PcpResponse(r) ==
    /\ task.method = "pcp"
    /\ Receives(r)
    /\ IF PcpMatches(r)
       THEN Accept(r.ext, r.lifetime \div 2)
       ELSE Failed /\ held' = held
    /\ requests' = requests

\* The first response of NAT-PMP; the external address is asked for next.
NatPmpMapResponse(r) ==
    /\ task.method = "nat_pmp" /\ task.stage = "map"
    /\ Receives(r)
    /\ IF NatPmpMatches(r)
       THEN /\ Len(requests) < MaxRequests
            /\ task' = [task EXCEPT !.stage = "addr", !.ext = r.ext,
                                    !.lifetime = r.lifetime, !.wait = Timeout]
            /\ requests' = Append(requests, AddrRequest(task))
            /\ abandoned' = abandoned
       ELSE Failed /\ requests' = requests
    /\ held' = held

\* Mutant: the whole lifetime is taken for its half.
NatPmpAddrFullLifetime(r) ==
    /\ task.method = "nat_pmp" /\ task.stage = "addr"
    /\ Receives(r)
    /\ IF r.kind = "addr" /\ r.method = "nat_pmp"
       THEN Accept(task.ext, task.lifetime)
       ELSE Failed /\ held' = held
    /\ requests' = requests

\* The second response of NAT-PMP; any other one loses the granted mapping.
NatPmpAddrResponse(r) ==
    /\ task.method = "nat_pmp" /\ task.stage = "addr"
    /\ Receives(r)
    /\ IF r.kind = "addr" /\ r.method = "nat_pmp"
       THEN Accept(task.ext, task.lifetime \div 2)
       ELSE Failed /\ held' = held
    /\ requests' = requests

\* An await of an attempt times out, or a system call of it fails.
AttemptFails ==
    /\ task.stage # "off"
    /\ \/ "lose" \in Faults
       \/ task.stage \in {"map", "addr"} /\ task.wait = 0
    /\ Failed
    /\ UNCHANGED <<port, held, releasing, requests, replies, table, gateway>>

-----------------------------------------------------------------------------
(* UPnP: calls on the gateway, each answered over its own connection.      *)

Upnp(stage) ==
    /\ task.method = "upnp" /\ task.stage = stage
    /\ UNCHANGED <<port, releasing, requests, replies, gateway>>

GotoStage(stage) == task' = [task EXCEPT !.stage = stage] /\ abandoned' = abandoned

\* search_gateway and get_external_ip; a preferred port is tried first.
UpnpSearched ==
    /\ Upnp("search")
    /\ GotoStage("extip")
    /\ UNCHANGED <<held, table>>

UpnpExternalIp ==
    /\ Upnp("extip")
    /\ GotoStage(IF task.wanted # None THEN "add" ELSE "any")
    /\ UNCHANGED <<held, table>>

UpnpEntry(ext) ==
    [method |-> "upnp", transport |-> Transport, port |-> task.port,
     ext |-> ext, nonce |-> None, ttl |-> 2 * Hour]

\* The external port is free, or already leads to this port.
Free(ext, p) ==
    \A e \in table : e.ext = ext /\ e.transport = Transport => e.port = p

Without(ext) == {e \in table : ~(e.ext = ext /\ e.transport = Transport)}

\* add_port at the gateway; if it is refused any port will do.
UpnpAddPort ==
    /\ Upnp("add")
    /\ IF Free(task.wanted, task.port)
       THEN /\ table' = Without(task.wanted) \cup {UpnpEntry(task.wanted)}
            /\ GotoStage("added")
       ELSE /\ table' = table
            /\ GotoStage("any")
    /\ held' = held

\* add_any_port at the gateway, which fails when no port is left.
UpnpAddAnyPort ==
    /\ Upnp("any")
    /\ \/ \E ext \in Exts :
             /\ \A e \in table : e.ext # ext \/ e.transport # Transport
             /\ table' = table \cup {UpnpEntry(ext)}
             /\ task' = [task EXCEPT !.stage = "any_added", !.ext = ext]
             /\ abandoned' = abandoned
       \/ /\ \A ext \in Exts :
                \E e \in table : e.ext = ext /\ e.transport = Transport
          /\ table' = table
          /\ Failed
    /\ held' = held

\* The answer arrives; the half lifetime of UPnP is a constant.
UpnpAdded ==
    /\ \/ Upnp("added") /\ Accept(task.wanted, Hour)
       \/ Upnp("any_added") /\ Accept(task.ext, Hour)
    /\ table' = table

\* The answer to add_port is lost: is_ok() is false.
UpnpAddPortFails ==
    /\ Upnp("added")
    /\ "lose" \in Faults
    /\ task' = [task EXCEPT !.stage = "any"]
    /\ abandoned' = abandoned \cup {task.port}
    /\ UNCHANGED <<held, table>>

-----------------------------------------------------------------------------
(* The service                                                             *)

\* UpdateLocalPort(p) up to the await of the release, if there is a mapping.
UpdateLocalPort(p) ==
    /\ releasing = NoMapping
    /\ p # port
    /\ port' = p
    /\ IF held.method # "none"
       THEN /\ releasing' = held
            /\ held' = NoMapping
            /\ task' = NoTask
            /\ abandoned' = abandoned \cup GivenUp(task)
            /\ requests' = requests
       ELSE /\ GetMapping(p, None, NoTask, requests, GivenUp(task))
            /\ UNCHANGED <<held, releasing>>
    /\ UNCHANGED <<replies, table, gateway>>

\* Mutant: the release carries a nonce of its own.
ReleaseRequestFresh(m) ==
    [kind |-> "release", method |-> m.method, sock |-> None,
     transport |-> IF m.method = "nat_pmp" THEN "udp" ELSE Transport,
     port |-> m.port, wanted |-> None, nonce |-> None]

\* release of pcp::Mapping and nat_pmp::Mapping: lifetime zero, sent from a
\* socket of its own that nobody reads.  NAT-PMP always says UDP.
ReleaseRequest(m) ==
    [kind |-> "release", method |-> m.method, sock |-> None,
     transport |-> IF m.method = "nat_pmp" THEN "udp" ELSE Transport,
     port |-> m.port, wanted |-> None, nonce |-> m.nonce]

\* Mapping::release, awaited by invalidate_mapping, and then get_mapping.
Release ==
    /\ releasing.method # "none"
    /\ releasing' = NoMapping
    /\ IF releasing.method = "upnp"
       THEN /\ table' = Without(releasing.ext)
            /\ GetMapping(port, releasing.ext, task, requests, {})
       ELSE /\ Len(requests) < MaxRequests
            /\ table' = table
            /\ GetMapping(port, releasing.ext, task,
                          Append(requests, ReleaseRequest(releasing)), {})
    /\ UNCHANGED <<port, held, replies, gateway>>

\* The release fails before the gateway hears of it; the error is logged.
ReleaseFails ==
    /\ "lose" \in Faults
    /\ releasing.method # "none"
    /\ releasing' = NoMapping
    /\ GetMapping(port, releasing.ext, task, requests, GivenUp(releasing))
    /\ UNCHANGED <<port, held, replies, table, gateway>>

\* ProcureMapping, or an update to the same port, without a mapping.
ProcureMapping ==
    /\ releasing = NoMapping
    /\ held = NoMapping
    /\ GetMapping(port, None, task, requests, {})
    /\ UNCHANGED <<port, held, releasing, replies, table, gateway>>

\* Mutant: Renew is announced and nothing is tried.
MappingEventNoRenewal ==
    /\ releasing = NoMapping
    /\ held.method # "none"
    /\ held.left = 0
    /\ held' = IF held.expire_after THEN NoMapping
               ELSE [held EXCEPT !.left = held.half, !.expire_after = TRUE]
    /\ UNCHANGED <<port, releasing, task, requests, replies, table, gateway,
                   abandoned>>

\* The deadline of the mapping: Renew after the first half, then Expired.
MappingEvent ==
    /\ releasing = NoMapping
    /\ held.method # "none"
    /\ held.left = 0
    /\ held' = IF held.expire_after THEN NoMapping
               ELSE [held EXCEPT !.left = held.half, !.expire_after = TRUE]
    /\ GetMapping(port, held.ext, task, requests,
                  IF held.expire_after THEN GivenUp(held) ELSE {})
    /\ UNCHANGED <<port, releasing, replies, table, gateway>>

\* The last client is dropped: its tasks are aborted and nothing is released.
\* A new client starts with nothing.
DropClient ==
    /\ port' = None
    /\ held' = NoMapping
    /\ releasing' = NoMapping
    /\ task' = NoTask
    /\ abandoned' = abandoned \cup GivenUp(held) \cup GivenUp(releasing)
                              \cup GivenUp(task)
    /\ UNCHANGED <<requests, replies, table, gateway>>

-----------------------------------------------------------------------------
(* The gateway and the network                                             *)

\* The entry a request is about.
Matching(q) ==
    {e \in table : e.method = q.method /\ e.transport = q.transport
                     /\ e.port = q.port}

Response(q, kind, ext) ==
    [kind |-> kind, method |-> q.method, sock |-> q.sock,
     transport |-> q.transport, port |-> q.port, ext |-> ext,
     nonce |-> q.nonce, lifetime |-> lease]

\* The external ports the gateway may give: the one wanted if it is free.
Grantable(q) ==
    LET free == {x \in Exts : \A e \in table :
                                 e.ext # x \/ e.transport # q.transport}
    IN  IF q.wanted \in free THEN {q.wanted} ELSE free

\* A mapping is created, or kept and its lifetime renewed; PCP modifies a
\* mapping only for its nonce.
Grant(q) ==
    IF Matching(q) = {}
    THEN \E x \in Grantable(q) :
            /\ table' = table \cup
                 {[method |-> q.method, transport |-> q.transport,
                   port |-> q.port, ext |-> x, nonce |-> q.nonce,
                   ttl |-> lease]}
            /\ replies' = replies \cup {Response(q, "map", x)}
    ELSE \E e \in Matching(q) :
            /\ e.nonce = q.nonce
            /\ table' = (table \ {e}) \cup {[e EXCEPT !.ttl = lease]}
            /\ replies' = replies \cup {Response(q, "map", e.ext)}

Refuse(q) ==
    /\ IF Matching(q) = {} THEN Grantable(q) = {}
                           ELSE \A e \in Matching(q) : e.nonce # q.nonce
    /\ table' = table
    /\ replies' = replies \cup {Response(q, "refused", None)}

\* The i-th datagram leaves the others in order.
Others(i) ==
    [j \in 1..(Len(requests) - 1) |-> requests[IF j < i THEN j ELSE j + 1]]

Serve(i) ==
    /\ i \in DOMAIN requests
    /\ "reorder" \in Faults \/ i = 1
    /\ \/ requests' = Others(i)
       \/ "duplicate" \in Faults /\ requests' = requests
    /\ LET q == requests[i] IN
         \/ q.kind = "map" /\ (Grant(q) \/ Refuse(q))
         \/ /\ q.kind = "release"
            /\ table' = {e \in table : e \notin Matching(q) \/ e.nonce # q.nonce}
            /\ replies' = replies
         \/ /\ q.kind = "addr"
            /\ table' = table
            /\ replies' = replies \cup {Response(q, "addr", None)}
    /\ UNCHANGED <<port, held, releasing, task, gateway, abandoned>>

LoseRequest(i) ==
    /\ "lose" \in Faults
    /\ i \in DOMAIN requests
    /\ requests' = Others(i)
    /\ UNCHANGED <<port, held, releasing, task, replies, table, gateway, abandoned>>

\* A reply is lost, or finds its socket closed.
LoseReply(r) ==
    /\ "lose" \in Faults \/ r.sock # task.sock
    /\ r \in replies
    /\ replies' = replies \ {r}
    /\ UNCHANGED <<port, held, releasing, task, requests, table, gateway, abandoned>>

Reboot ==
    /\ "reboot" \in Faults
    /\ table # {}
    /\ table' = {}
    /\ UNCHANGED <<port, held, releasing, task, requests, replies, gateway, abandoned>>

\* Nothing is on its way and nobody is waiting.
Quiet ==
    /\ task = NoTask /\ releasing = NoMapping
    /\ requests = <<>> /\ replies = {}

\* One unit of time.
Tick ==
    /\ "delay" \in Faults \/ Quiet
    /\ held.method # "none" => held.left > 0
    /\ task.stage \in {"map", "addr"} => task.wait > 0
    /\ held' = IF held.method = "none" THEN held
                                       ELSE [held EXCEPT !.left = @ - 1]
    /\ task' = IF task.stage \in {"map", "addr"}
               THEN [task EXCEPT !.wait = @ - 1] ELSE task
    /\ table' = {[e EXCEPT !.ttl = @ - 1] : e \in {f \in table : f.ttl > 1}}
    /\ UNCHANGED <<port, releasing, requests, replies, gateway, abandoned>>

Next ==
    \/ \E r \in replies : \/ PcpResponse(r) \/ NatPmpMapResponse(r)
                          \/ NatPmpAddrResponse(r) \/ LoseReply(r)
    \/ AttemptFails
    \/ UpnpSearched \/ UpnpExternalIp \/ UpnpAddPort \/ UpnpAddAnyPort
    \/ UpnpAdded \/ UpnpAddPortFails
    \/ \E p \in Option(Ports) : UpdateLocalPort(p)
    \/ Release \/ ReleaseFails \/ ProcureMapping \/ MappingEvent
    \/ DropClient
    \/ \E i \in DOMAIN requests : Serve(i) \/ LoseRequest(i)
    \/ Reboot
    \/ Tick

Spec == Init /\ [][Next]_vars
-----------------------------------------------------------------------------
(* Properties                                                              *)

\* Every variable holds a value of its type, and the service never holds a
\* mapping without a port, an external port (NonZeroU16) or a method.
TypeOK ==
    /\ port \in Option(Ports)
    /\ held \in Mapping /\ releasing \in Mapping
    /\ \A m \in {held, releasing} :
          m # NoMapping => None \notin {m.port, m.ext} /\ m.method # "none"
    /\ task \in Task
    /\ requests \in Seq(Request) /\ Len(requests) <= MaxRequests
    /\ replies \subseteq Reply
    /\ table \subseteq Entry
    /\ supported \in Gateways /\ lease \in Lifetimes
    /\ abandoned \subseteq Ports

\* How long the service will hold its mapping without a renewal.
Remaining == held.left + (IF held.expire_after THEN 0 ELSE held.half)

\* How much later than the gateway the service starts the lifetime: PCP waits
\* for one response after the request, NAT-PMP for two.
Slack == CASE held.method = "pcp" -> Timeout
           [] held.method = "nat_pmp" -> 2 * Timeout
           [] OTHER -> 0

Registered ==
    \E e \in table : /\ e.transport = Transport
                     /\ e.port = held.port /\ e.ext = held.ext

\* The gateway has the mapping the service holds and publishes, up to the time
\* the responses may have taken: no late, duplicated or foreign response is
\* taken for the answer to an attempt, no release of an earlier mapping removes
\* a later one, and the two halves a mapping is held for (rounded down) do not
\* outlast the lifetime that was granted.
\* release: "mapping deletion is a notification, no point in waiting for the
\* response".
HeldAtGateway == held.method # "none" /\ Remaining > Slack => Registered

\* Mapping::release: "Release the mapping."  A mapping that is at the gateway
\* is held, in the making, being released, or of a port whose attempt or
\* mapping was given up: by an abort, an error, expiry or a dropped client.
OnlyAbandonedLeft ==
    \A e \in table :
        \/ e.port \in abandoned \cup {held.port, task.port, releasing.port}
        \/ \E i \in DOMAIN requests :
              requests[i].kind = "release" /\ requests[i].port = e.port

\* Event::Renew: "the mapping is halfway through its lifetime and should be
\* renewed."  With a NAT-PMP or UPnP gateway that grants and answers, a mapping
\* is renewed before its second deadline and never withdrawn because it expired,
\* not even if the gateway restarts and forgets its table.  PCP is left out: its
\* renewals draw a nonce of their own, which this gateway refuses.
RenewedInTime == "pcp" \notin supported => ~(held.expire_after /\ held.left = 0)
=============================================================================
