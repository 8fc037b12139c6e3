----------------------------- MODULE PortMapper -----------------------------
(***************************************************************************)
(* The port mapping service of portmapper: the Client handles and their    *)
(* bounded channel, the Service select! loop, the CurrentMapping with its  *)
(* renewal and expiry deadlines, the Probe bookkeeping and the two spawned *)
(* tasks (one mapping attempt, one probe).                                 *)
(*                                                                         *)
(* Time is kept only as what the code asks of it.  `available` holds the   *)
(* protocols whose last sighting is younger than                           *)
(* AVAILABILITY_TRUST_DURATION, `recent` says whether last_probe is        *)
(* younger than UNAVAILABILITY_TRUST_DURATION, and a deadline is the       *)
(* possibility of MappingEvent.  What a spawned task does before its       *)
(* result is read is not visible to the service, so its outcome is chosen  *)
(* when the service reads it.                                              *)
(***************************************************************************)
EXTENDS Naturals, Sequences

CONSTANTS
    Ports,      \* local ports a client may ask to map
    Addrs,      \* external addresses a gateway may grant
    Requests,   \* probe requests, each with its own oneshot channel
    Configs,    \* the possible configurations: sets of enabled protocols
    Networks,   \* what looking up the home router may find
    Reliable,   \* TRUE: a reachable gateway grants mappings and answers probes
    Capacity,   \* SERVICE_CHANNEL_CAPACITY
    MaxCalls,   \* bound on the calls made on the clients
    None        \* Option::None for ports, addresses and requests

Protocols == {"upnp", "pcp", "nat_pmp"}

ASSUME ConstantsAssumption ==
    /\ None \notin Ports /\ None \notin Addrs /\ None \notin Requests
    /\ Configs \subseteq SUBSET Protocols
    /\ Networks \subseteq {"v4", "v6", "none"}
    /\ Reliable \in BOOLEAN
    /\ Capacity \in Nat \ {0}
    /\ MaxCalls \in Nat

VARIABLES
    enabled,    \* Config: the enabled protocols
    alive,      \* a client exists, and so the service task
    rx,         \* channel from the clients to the service
    local_port, \* Service.local_port
    mapping,    \* CurrentMapping.mapping
    address,    \* value held by the watch channel address_tx
    mapping_task, \* Service.mapping_task
    probing_task, \* Service.probing_task
    available,  \* full_probe: protocols seen within the trust duration
    recent,     \* full_probe.last_probe is recent
    releasing,  \* update_local_port is suspended in invalidate_mapping
    network,    \* environment: what HomeRouter::new() finds
    reply,      \* environment: what each probe requester has received
    observed,   \* environment: the address a watcher has last read
    changed,    \* environment: the watcher's changed() is ready
    asked,      \* history: the port of the last port update called
    lost,       \* history: that call met a full channel
    calls       \* number of client calls made

clientVars == <<reply, observed, changed, asked, lost, calls>>
probeVars == <<probing_task, available, recent>>
mappingVars == <<local_port, mapping, address, mapping_task, releasing>>
vars == <<enabled, alive, rx, mappingVars, probeVars, network, clientVars>>

-----------------------------------------------------------------------------
Option(S) == S \cup {None}

ProcureMapping == [type |-> "ProcureMapping", port |-> None, req |-> None]
UpdateLocalPort(p) == [type |-> "UpdateLocalPort", port |-> p, req |-> None]
Probe(r) == [type |-> "Probe", port |-> None, req |-> r]
Message == {ProcureMapping} \cup {UpdateLocalPort(p) : p \in Option(Ports)}
              \cup {Probe(r) : r \in Requests}

\* An ActiveMapping, or the None of CurrentMapping.mapping (ext is None).
Mapping == [port : Option(Ports), ext : Option(Addrs), expire_after : BOOLEAN]
NoMapping == [port |-> None, ext |-> None, expire_after |-> FALSE]
ActiveMapping(p, a) == [port |-> p, ext |-> a, expire_after |-> FALSE]

\* The spawned mapping attempt: its protocol, its port, the address wanted.
Task == [proto : Protocols \cup {"none"}, port : Option(Ports),
         wanted : Option(Addrs)]
NoTask == [proto |-> "none", port |-> None, wanted |-> None]

\* The spawned probe: who waits for it and which protocols it looks for.
Probing == [running : BOOLEAN, receivers : SUBSET Requests,
            targets : SUBSET Protocols]
NotProbing == [running |-> FALSE, receivers |-> {}, targets |-> {}]

\* Suspended release: the mapping withdrawn and not yet released.
Release == [running : BOOLEAN, ext : Option(Addrs)]
NotReleasing == [running |-> FALSE, ext |-> None]

Reply == [status : {"idle", "waiting", "ok", "ChannelFull", "NoGateway",
                    "Ipv6Gateway", "Join", "dropped"},
          output : SUBSET Protocols]
Answer(status, output) == [status |-> status, output |-> output]

Init ==
    /\ enabled \in Configs
    /\ alive = TRUE
    /\ rx = <<>>
    /\ local_port = None
    /\ mapping = NoMapping
    /\ address = None
    /\ mapping_task = NoTask
    /\ probing_task = NotProbing
    /\ available = {}
    /\ recent \in BOOLEAN        \* checked_sub may fail on a young clock
    /\ releasing = NotReleasing
    /\ network \in Networks
    /\ reply = [r \in Requests |-> Answer("idle", {})]
    /\ observed = None
    /\ changed = FALSE
    /\ asked = None
    /\ lost = FALSE
    /\ calls = 0

-----------------------------------------------------------------------------
(* Client: every call is a try_send on the bounded channel.                *)

\* Mutant: one message more than the capacity.
FullOffByOne == Len(rx) > Capacity

Full == Len(rx) >= Capacity

Called ==
    /\ alive
    /\ calls < MaxCalls
    /\ calls' = calls + 1
    /\ UNCHANGED <<enabled, alive, mappingVars, probeVars, network, observed,
                   changed>>

ClientProbe(r) ==
    /\ Called
    /\ reply[r].status = "idle"
    /\ IF Full
       THEN /\ reply' = [reply EXCEPT ![r] = Answer("ChannelFull", {})]
            /\ rx' = rx
       ELSE /\ reply' = [reply EXCEPT ![r] = Answer("waiting", {})]
            /\ rx' = Append(rx, Probe(r))
    /\ UNCHANGED <<asked, lost>>

ClientProcureMapping ==
    /\ Called
    /\ rx' = IF Full THEN rx ELSE Append(rx, ProcureMapping)
    /\ UNCHANGED <<reply, asked, lost>>

\* update_local_port(p), or deactivate() when p is None.
ClientUpdateLocalPort(p) ==
    /\ Called
    /\ asked' = p
    /\ lost' = Full
    /\ rx' = IF Full THEN rx ELSE Append(rx, UpdateLocalPort(p))
    /\ UNCHANGED reply

\* A holder of watch_external_address() reads the value.
WatchExternalAddress ==
    /\ changed
    /\ observed' = address
    /\ changed' = FALSE
    /\ UNCHANGED <<enabled, alive, rx, mappingVars, probeVars, network, reply,
                   asked, lost, calls>>

-----------------------------------------------------------------------------
(* CurrentMapping                                                          *)

\* Mutant: watchers hear only of new addresses, not of withdrawn ones.
UpdateOnlyIfSome(m) ==
    /\ mapping' = m
    /\ address' = m.ext
    /\ changed' = (changed \/ (m.ext # None /\ address # m.ext))

\* CurrentMapping::update: watchers hear only of a different address.
Update(m) ==
    /\ mapping' = m
    /\ address' = m.ext
    /\ changed' = (changed \/ address # m.ext)

-----------------------------------------------------------------------------
(* Service                                                                 *)

\* The strategy of get_mapping: the protocols seen lately, UPnP as the first
\* fallback, then whatever is enabled unless a probe has just been made.
Strategy ==
    IF "pcp" \in available THEN "pcp"
    ELSE IF "nat_pmp" \in available THEN "nat_pmp"
    ELSE IF "upnp" \in available \cup enabled THEN "upnp"
    ELSE IF ~recent /\ "pcp" \in enabled THEN "pcp"
    ELSE IF ~recent /\ "nat_pmp" \in enabled THEN "nat_pmp"
    ELSE "none"

\* get_mapping: the mapping task held afterwards, given the one held before.
\* An early return keeps the old task, a new one replaces (aborts) it.
GetMapping(port, wanted, old) ==
    IF port = None \/ network # "v4" \/ Strategy = "none"
    THEN old
    ELSE [proto |-> Strategy, port |-> port, wanted |-> wanted]

\* The select! loop of Service::run takes a branch only between handlers.
Selecting ==
    /\ alive
    /\ ~releasing.running
    /\ UNCHANGED <<enabled, alive, network, observed, asked, lost, calls>>

\* Mutant: a port change does not abort the mapping task.
UpdatePortKeepsTask(p) ==
    /\ local_port' = p
    /\ IF p # local_port /\ mapping.ext # None
       THEN /\ Update(NoMapping)
            /\ releasing' = [running |-> TRUE, ext |-> mapping.ext]
            /\ mapping_task' = mapping_task
       ELSE /\ mapping_task' = IF mapping.ext = None
                               THEN GetMapping(p, None, mapping_task)
                               ELSE mapping_task
            /\ UNCHANGED <<mapping, address, changed, releasing>>
    /\ UNCHANGED <<probeVars, reply>>

\* Mutant: a port update is ignored while a mapping attempt is running.
UpdatePortWhenIdle(p) ==
    /\ local_port' = IF mapping_task = NoTask THEN p ELSE local_port
    /\ mapping_task' = IF mapping.ext = None
                       THEN GetMapping(local_port', None, mapping_task)
                       ELSE mapping_task
    /\ UNCHANGED <<mapping, address, changed, releasing, probeVars, reply>>

\* Service::update_local_port up to its end, or to the await in
\* invalidate_mapping when there is a mapping to release.
UpdatePort(p) ==
    /\ local_port' = p
    /\ IF p # local_port
       THEN IF mapping.ext # None
            THEN /\ Update(NoMapping)
                 /\ releasing' = [running |-> TRUE, ext |-> mapping.ext]
                 /\ mapping_task' = NoTask
            ELSE /\ mapping_task' = GetMapping(p, None, NoTask)
                 /\ UNCHANGED <<mapping, address, changed, releasing>>
       ELSE /\ mapping_task' = IF mapping.ext = None
                               THEN GetMapping(p, None, mapping_task)
                               ELSE mapping_task
            /\ UNCHANGED <<mapping, address, changed, releasing>>
    /\ UNCHANGED <<probeVars, reply>>

\* Mutant: a request that meets a running probe replaces the receivers.
ProbeRequestReplaces(r) ==
    /\ IF available = Protocols
       THEN /\ reply' = [reply EXCEPT ![r] = Answer("ok", available)]
            /\ probing_task' = probing_task
       ELSE /\ probing_task' = [running |-> TRUE, receivers |-> {r},
                                targets |-> enabled \ available]
            /\ reply' = reply
    /\ UNCHANGED <<mappingVars, available, recent, changed>>

\* Mutant: a probe looks for every protocol, enabled or not.
ProbeRequestAll(r) ==
    /\ IF probing_task.running
       THEN probing_task' = [probing_task EXCEPT !.receivers = @ \cup {r}]
       ELSE probing_task' = [running |-> TRUE, receivers |-> {r},
                             targets |-> Protocols \ available]
    /\ UNCHANGED <<mappingVars, available, recent, changed, reply>>

\* Service::probe_request
ProbeRequest(r) ==
    /\ CASE probing_task.running ->
              /\ probing_task' = [probing_task EXCEPT !.receivers = @ \cup {r}]
              /\ reply' = reply
         [] ~probing_task.running /\ available = Protocols ->
              /\ reply' = [reply EXCEPT ![r] = Answer("ok", available)]
              /\ probing_task' = probing_task
         [] ~probing_task.running /\ available # Protocols /\ network # "v4" ->
              /\ reply' = [reply EXCEPT ![r] =
                    Answer(IF network = "v6" THEN "Ipv6Gateway"
                                             ELSE "NoGateway", {})]
              /\ probing_task' = probing_task
         [] OTHER ->
              /\ probing_task' = [running |-> TRUE, receivers |-> {r},
                                  targets |-> enabled \ available]
              /\ reply' = reply
    /\ UNCHANGED <<mappingVars, available, recent, changed>>

\* select!: a message from the clients, through Service::handle_msg
RecvMsg ==
    /\ Selecting
    /\ rx # <<>>
    /\ rx' = Tail(rx)
    /\ LET msg == Head(rx) IN
         CASE msg.type = "ProcureMapping" -> UpdatePort(local_port)
           [] msg.type = "UpdateLocalPort" -> UpdatePort(msg.port)
           [] msg.type = "Probe" -> ProbeRequest(msg.req)

\* Mutant: update_local_port ends with the release.
ReleaseDoneOnly ==
    /\ alive
    /\ releasing.running
    /\ releasing' = NotReleasing
    /\ UNCHANGED <<enabled, alive, rx, local_port, mapping, address,
                   mapping_task, probeVars, network, clientVars>>

\* The release awaited by invalidate_mapping ends (an error is only logged)
\* and update_local_port goes on to look for a mapping of the new port.
ReleaseDone ==
    /\ alive
    /\ releasing.running
    /\ releasing' = NotReleasing
    /\ mapping_task' = GetMapping(local_port, releasing.ext, mapping_task)
    /\ UNCHANGED <<enabled, alive, rx, local_port, mapping, address, probeVars,
                   network, clientVars>>

\* Mutant: a failed renewal withdraws the current mapping.
MappingReadyOrNone(a) ==
    /\ Selecting
    /\ mapping_task.proto # "none"
    /\ mapping_task' = NoTask
    /\ Update(IF a = None THEN NoMapping
                          ELSE ActiveMapping(mapping_task.port, a))
    /\ UNCHANGED <<rx, local_port, releasing, probeVars, reply>>

\* select!: the mapping task has finished, through on_mapping_result
MappingReady(a) ==
    /\ Selecting
    /\ mapping_task.proto # "none"
    /\ Reliable => a # None
    /\ mapping_task' = NoTask
    /\ IF a = None
       THEN UNCHANGED <<mapping, address, changed>>
       ELSE Update(ActiveMapping(mapping_task.port, a))
    /\ UNCHANGED <<rx, local_port, releasing, probeVars, reply>>

\* Mutant: only one of the receivers of a probe is answered.
ProbeReadyOne(found) ==
    /\ Selecting
    /\ probing_task.running
    /\ found \subseteq probing_task.targets
    /\ available' = available \cup found
    /\ recent' = TRUE
    /\ probing_task' = NotProbing
    /\ \E r \in probing_task.receivers :
          reply' = [reply EXCEPT ![r] = Answer("ok", available \cup found)]
    /\ UNCHANGED <<rx, mappingVars, changed>>

\* Probe::update: new sightings are added, old ones kept.
ProbeUpdate(found) ==
    /\ available' = available \cup found
    /\ recent' = TRUE

\* select!: the probing task (Probe::from_output) has finished with the
\* protocols it found, through on_probe_result.
ProbeReady(found) ==
    /\ Selecting
    /\ probing_task.running
    /\ found \subseteq probing_task.targets
    /\ Reliable => found = probing_task.targets
    /\ ProbeUpdate(found)
    /\ probing_task' = NotProbing
    /\ reply' = [r \in Requests |-> IF r \in probing_task.receivers
                                    THEN Answer("ok", available \cup found)
                                    ELSE reply[r]]
    /\ UNCHANGED <<rx, mappingVars, changed>>

\* select!: the probing task panicked; nothing is learned.
ProbeJoinError ==
    /\ Selecting
    /\ ~Reliable
    /\ probing_task.running
    /\ probing_task' = NotProbing
    /\ reply' = [r \in Requests |-> IF r \in probing_task.receivers
                                    THEN Answer("Join", {})
                                    ELSE reply[r]]
    /\ UNCHANGED <<rx, mappingVars, available, recent, changed>>

\* select!: the deadline of the current mapping, through CurrentMapping::poll.
\* Half the lifetime brings Renew, the other half Expired.
MappingEvent ==
    /\ Selecting
    /\ mapping.ext # None
    /\ IF mapping.expire_after
       THEN Update(NoMapping)
       ELSE /\ mapping' = [mapping EXCEPT !.expire_after = TRUE]
            /\ UNCHANGED <<address, changed>>
    /\ mapping_task' = GetMapping(local_port, mapping.ext, mapping_task)
    /\ UNCHANGED <<rx, local_port, releasing, probeVars, reply>>

-----------------------------------------------------------------------------
(* Environment                                                             *)

\* A sighting grows older than AVAILABILITY_TRUST_DURATION.
Forget(p) ==
    /\ p \in available
    /\ available' = available \ {p}
    /\ UNCHANGED <<enabled, alive, rx, mappingVars, probing_task, recent,
                   network, clientVars>>

\* last_probe grows older than UNAVAILABILITY_TRUST_DURATION.
ProbeAges ==
    /\ recent
    /\ recent' = FALSE
    /\ UNCHANGED <<enabled, alive, rx, mappingVars, probing_task, available,
                   network, clientVars>>

NetworkChange(n) ==
    /\ network # n
    /\ network' = n
    /\ UNCHANGED <<enabled, alive, rx, mappingVars, probeVars, clientVars>>

\* The last client is dropped: the service task is aborted at an await, and
\* with it go its tasks, the queued messages and the waiting oneshot senders.
\* Watchers keep the last address.
DropClient ==
    /\ alive
    /\ alive' = FALSE
    /\ rx' = <<>>
    /\ local_port' = None
    /\ mapping' = NoMapping
    /\ mapping_task' = NoTask
    /\ probing_task' = NotProbing
    /\ releasing' = NotReleasing
    /\ reply' = [r \in Requests |-> IF reply[r].status = "waiting"
                                    THEN Answer("dropped", {})
                                    ELSE reply[r]]
    /\ UNCHANGED <<enabled, address, available, recent, network, observed,
                   changed, asked, lost, calls>>

Next ==
    \/ \E r \in Requests : ClientProbe(r)
    \/ ClientProcureMapping
    \/ \E p \in Option(Ports) : ClientUpdateLocalPort(p)
    \/ WatchExternalAddress
    \/ RecvMsg
    \/ ReleaseDone
    \/ \E a \in Option(Addrs) : MappingReady(a)
    \/ \E found \in SUBSET Protocols : ProbeReady(found)
    \/ ProbeJoinError
    \/ MappingEvent
    \/ \E p \in Protocols : Forget(p)
    \/ ProbeAges
    \/ \E n \in Networks : NetworkChange(n)
    \/ DropClient

Spec == Init /\ [][Next]_vars

\* select! polls its branches in random order, so a branch that stays ready
\* is taken; both spawned tasks and the release end (every wait of theirs is
\* bounded by a timeout or by the transport's own).
Fairness ==
    /\ WF_vars(RecvMsg)
    /\ WF_vars(ReleaseDone)
    /\ WF_vars(\E a \in Option(Addrs) : MappingReady(a))
    /\ WF_vars(\E found \in SUBSET Protocols : ProbeReady(found))
    /\ WF_vars(MappingEvent)

FairSpec == Spec /\ Fairness
-----------------------------------------------------------------------------
(* Properties                                                              *)

\* Every variable holds a value of its type; the channel never exceeds the
\* capacity given to mpsc::channel.
TypeOK ==
    /\ enabled \in Configs
    /\ alive \in BOOLEAN
    /\ rx \in Seq(Message) /\ Len(rx) <= Capacity
    /\ local_port \in Option(Ports)
    /\ mapping \in Mapping
    /\ address \in Option(Addrs)
    /\ mapping_task \in Task
    /\ probing_task \in Probing
    /\ available \in SUBSET Protocols
    /\ recent \in BOOLEAN
    /\ releasing \in Release
    /\ network \in Networks
    /\ reply \in [Requests -> Reply]
    /\ observed \in Option(Addrs)
    /\ changed \in BOOLEAN
    /\ asked \in Option(Ports)
    /\ lost \in BOOLEAN
    /\ calls \in 0..MaxCalls

\* Whatever order port updates, task results, deadlines and releases come in,
\* the service never holds, publishes or waits for a mapping of a port other
\* than its local port, and holds none at all once deactivated.
MappingFollowsPort ==
    /\ mapping_task # NoTask => mapping_task.port = local_port
    /\ mapping.ext # None => mapping.port = local_port
    /\ local_port = None => mapping_task = NoTask /\ mapping.ext = None
    /\ releasing.running => mapping_task = NoTask /\ mapping.ext = None

\* The watch channel holds the external address of the current mapping, and a
\* watcher that has not been notified since its last read is up to date:
\* send_if_modified in CurrentMapping::update loses no change.
WatcherUpToDate ==
    /\ alive => address = mapping.ext
    /\ ~changed => observed = address

Queued(r) == \E i \in DOMAIN rx : rx[i] = Probe(r)

\* Every probe requester that still waits is in exactly one place, the channel
\* or the receivers of the running probe, and nobody else is: no oneshot
\* sender is forgotten by probe_request, on_probe_result or a full channel,
\* and no running probe is without a receiver.
ProbeAccounting ==
    /\ \A r \in Requests :
          /\ reply[r].status = "waiting" <=>
                Queued(r) \/ r \in probing_task.receivers
          /\ ~(Queued(r) /\ r \in probing_task.receivers)
    /\ \A i, j \in DOMAIN rx :
          rx[i].type = "Probe" /\ rx[i] = rx[j] => i = j
    /\ probing_task.running <=> probing_task.receivers # {}

\* get_mapping uses PCP and NAT-PMP when the probe reports them without
\* asking the configuration again; still no mapping attempt uses, no probe
\* looks for and no requester is told of a protocol that is not enabled.
OnlyEnabledProtocols ==
    /\ available \subseteq enabled
    /\ probing_task.targets \subseteq enabled
    /\ mapping_task.proto \in enabled \cup {"none"}
    /\ \A r \in Requests : reply[r].output \subseteq enabled

\* A published address is withdrawn only by a change of the local port or by
\* the deadline that ends the second half of the mapping's lifetime: no probe,
\* no ProcureMapping, no Renew and no failed attempt (a step that uses up the
\* mapping task) takes it away.
WithdrawnOnlyWhenDue ==
    [][alive' /\ address # None /\ address' = None
         => \/ local_port' # local_port
            \/ /\ mapping.expire_after
               /\ mapping_task # NoTask => mapping_task' # NoTask]_vars

\* Every probe request is eventually answered, or dropped with the service.
ProbeAnswered ==
    \A r \in Requests : reply[r].status = "waiting" ~> reply[r].status # "waiting"

\* The service ends up with the port of the last port update that the channel
\* took, however updates, releases and deadlines interleave.
PortConverges == []<>(~alive \/ lost \/ local_port = asked)

\* With a gateway that can always be found and always grants, and UPnP enabled
\* as the fallback, a port to map is eventually mapped, and mapped again each
\* time its mapping expires.
EventuallyMapped ==
    alive /\ local_port # None ~> ~alive \/ local_port = None \/ address # None

\* README.md: "ensure a mapping for a local port is maintained despite network
\* changes".  Once the network is back for good, a port to map is eventually
\* mapped without a further call of a client.
MaintainedDespiteNetworkChanges ==
    <>[](network = "v4") => EventuallyMapped

\* Client::update_local_port: "If the port changes, this will trigger a port
\* mapping attempt", and Client::deactivate: "Deactivate port mapping".  The
\* service ends up with the port of the last call.
PortUpdateHonoured == []<>(~alive \/ local_port = asked)
=============================================================================
