-------------------------- MODULE PortMapperProofs --------------------------
(***************************************************************************)
(* Theorems about the port mapping service, for every set of ports,        *)
(* addresses, requests and configurations, every channel capacity and any  *)
(* number of client calls.                                                 *)
(***************************************************************************)
EXTENDS PortMapper, TLAPS

\* The inductive invariant.  None of its conjuncts but TypeOK is inductive by
\* itself: WatcherUpToDate needs the mapping to be absent while a release is
\* awaited, OnlyEnabledProtocols needs the types, and so on.
IInv ==
    /\ TypeOK
    /\ MappingFollowsPort
    /\ WatcherUpToDate
    /\ ProbeAccounting
    /\ OnlyEnabledProtocols

-----------------------------------------------------------------------------
(* The helpers of the service.                                             *)

\* get_mapping's strategy only ever names an enabled protocol.
LEMMA StrategyEnabled ==
    ASSUME available \subseteq enabled
    PROVE  Strategy \in enabled \cup {"none"}
BY DEF Strategy

\* get_mapping keeps the old task or starts one for the port it is given.
LEMMA GetMappingResult ==
    ASSUME TypeOK, available \subseteq enabled,
           NEW port \in Option(Ports), NEW wanted \in Option(Addrs),
           NEW old \in Task
    PROVE  /\ GetMapping(port, wanted, old) \in Task
           /\ \/ GetMapping(port, wanted, old) = old
              \/ /\ port # None
                 /\ GetMapping(port, wanted, old).port = port
                 /\ GetMapping(port, wanted, old).proto \in enabled
<1>1. enabled \subseteq Protocols
  BY ConstantsAssumption DEF TypeOK
<1>2. CASE port = None \/ network # "v4" \/ Strategy = "none"
  BY <1>2 DEF GetMapping
<1>3. CASE ~(port = None \/ network # "v4" \/ Strategy = "none")
  <2>1. GetMapping(port, wanted, old)
          = [proto |-> Strategy, port |-> port, wanted |-> wanted]
    BY <1>3 DEF GetMapping
  <2>2. Strategy \in enabled
    BY <1>3, StrategyEnabled
  <2> HIDE DEF Strategy
  <2> QED
    BY <1>1, <1>3, <2>1, <2>2 DEF Task
<1> QED
  BY <1>2, <1>3

\* The message types are told apart by their tag.
LEMMA MessageFields ==
    /\ \A p : UpdateLocalPort(p).type # "Probe"
    /\ ProcureMapping.type # "Probe"
    /\ \A r : Probe(r).type = "Probe" /\ Probe(r).req = r
    /\ \A r, q : Probe(r) = Probe(q) => r = q
    /\ \A m \in Message : m.type = "Probe" => \E r \in Requests : m = Probe(r)
    /\ \A m \in Message : m.type = "UpdateLocalPort" => m.port \in Option(Ports)
<1>1. /\ \A p : UpdateLocalPort(p).type # "Probe"
      /\ ProcureMapping.type # "Probe"
      /\ \A r : Probe(r).type = "Probe" /\ Probe(r).req = r
  BY DEF UpdateLocalPort, ProcureMapping, Probe
<1>2. \A r, q : Probe(r) = Probe(q) => r = q
  BY <1>1
<1>3. \A m \in Message : m.type = "Probe" => \E r \in Requests : m = Probe(r)
  BY <1>1 DEF Message
<1>4. \A m \in Message : m.type = "UpdateLocalPort" => m.port \in Option(Ports)
  BY DEF Message, UpdateLocalPort, ProcureMapping, Probe
<1> QED
  BY <1>1, <1>2, <1>3, <1>4

-----------------------------------------------------------------------------
LEMMA InitInv == Init => IInv
<1> SUFFICES ASSUME Init PROVE IInv
  OBVIOUS
<1> USE DEF Init
<1>1. TypeOK
  <2>1. rx \in Seq(Message) /\ Len(rx) <= Capacity /\ calls \in 0..MaxCalls
    BY ConstantsAssumption
  <2>2. /\ mapping \in Mapping /\ mapping_task \in Task
        /\ probing_task \in Probing /\ releasing \in Release
    BY Zenon DEF Option, Mapping, NoMapping, Task, NoTask, Probing, NotProbing,
       Release, NotReleasing
  <2>3. reply \in [Requests -> Reply]
    BY DEF Reply, Answer
  <2>4. /\ enabled \in Configs /\ alive \in BOOLEAN /\ recent \in BOOLEAN
        /\ changed \in BOOLEAN /\ lost \in BOOLEAN /\ network \in Networks
        /\ available \in SUBSET Protocols
    BY Zenon
  <2>5. /\ local_port \in Option(Ports) /\ address \in Option(Addrs)
        /\ observed \in Option(Addrs) /\ asked \in Option(Ports)
    BY DEF Option
  <2> QED
    BY <2>1, <2>2, <2>3, <2>4, <2>5 DEF TypeOK
<1>2. MappingFollowsPort
  BY DEF MappingFollowsPort, NoMapping, NotReleasing
<1>3. WatcherUpToDate
  BY DEF WatcherUpToDate, NoMapping
<1>4. ProbeAccounting
  BY DEF ProbeAccounting, Queued, Answer, NotProbing
<1>5. OnlyEnabledProtocols
  BY DEF OnlyEnabledProtocols, NotProbing, NoTask, Answer
<1> QED
  BY <1>1, <1>2, <1>3, <1>4, <1>5 DEF IInv
-----------------------------------------------------------------------------
(* The channel: what sending and receiving do to the queued probes.        *)

\* No probe message is queued twice.
QueuedOnce ==
    \A i, j \in DOMAIN rx : rx[i].type = "Probe" /\ rx[i] = rx[j] => i = j

\* try_send of a message that is not a queued probe.
LEMMA SendQueue ==
    ASSUME TypeOK, QueuedOnce, NEW m \in Message, ~Full, rx' = Append(rx, m),
           m.type = "Probe" => \A i \in DOMAIN rx : rx[i] # m
    PROVE  /\ rx' \in Seq(Message) /\ Len(rx') <= Capacity
           /\ \A r : Queued(r)' <=> Queued(r) \/ m = Probe(r)
           /\ QueuedOnce'
<1>1. /\ rx \in Seq(Message) /\ Len(rx) \in Nat /\ Capacity \in Nat
      /\ Len(rx) < Capacity
  BY ConstantsAssumption DEF TypeOK, Full
<1>2. /\ rx' \in Seq(Message) /\ Len(rx') = Len(rx) + 1
      /\ DOMAIN rx = 1..Len(rx) /\ DOMAIN rx' = 1..(Len(rx) + 1)
      /\ \A i \in 1..Len(rx) : rx'[i] = rx[i]
      /\ rx'[Len(rx) + 1] = m
  BY <1>1
<1>3. ASSUME NEW r PROVE Queued(r)' <=> Queued(r) \/ m = Probe(r)
  BY <1>1, <1>2 DEF Queued
<1>4. QueuedOnce'
  <2> SUFFICES ASSUME NEW i \in DOMAIN rx', NEW j \in DOMAIN rx',
                      rx'[i].type = "Probe", rx'[i] = rx'[j]
               PROVE  i = j
    BY DEF QueuedOnce
  <2>1. CASE i \in 1..Len(rx) /\ j \in 1..Len(rx)
    BY <1>2, <2>1 DEF QueuedOnce
  <2>2. CASE i = Len(rx) + 1 /\ j = Len(rx) + 1
    BY <2>2
  <2>3. CASE i \in 1..Len(rx) /\ j = Len(rx) + 1
    BY <1>2, <2>3
  <2>4. CASE j \in 1..Len(rx) /\ i = Len(rx) + 1
    BY <1>2, <2>4
  <2> QED
    BY <1>1, <1>2, <2>1, <2>2, <2>3, <2>4
<1> QED
  BY <1>1, <1>2, <1>3, <1>4

\* recv of the oldest message.
LEMMA RecvQueue ==
    ASSUME TypeOK, QueuedOnce, rx # <<>>, rx' = Tail(rx)
    PROVE  /\ Head(rx) \in Message
           /\ rx' \in Seq(Message) /\ Len(rx') <= Capacity
           /\ \A r : Queued(r)' <=> Queued(r) /\ Head(rx) # Probe(r)
           /\ QueuedOnce'
<1>1. /\ rx \in Seq(Message) /\ Len(rx) \in Nat \ {0} /\ Capacity \in Nat
      /\ Len(rx) <= Capacity
  BY ConstantsAssumption DEF TypeOK
<1>2. /\ rx' \in Seq(Message) /\ Len(rx') = Len(rx) - 1
      /\ DOMAIN rx = 1..Len(rx) /\ DOMAIN rx' = 1..(Len(rx) - 1)
      /\ \A i \in 1..(Len(rx) - 1) : rx'[i] = rx[i + 1]
      /\ Head(rx) = rx[1] /\ Head(rx) \in Message
  BY <1>1
<1>3. ASSUME NEW r PROVE Queued(r)' <=> Queued(r) /\ Head(rx) # Probe(r)
  <2>1. ASSUME Queued(r)' PROVE Queued(r) /\ Head(rx) # Probe(r)
    <3>1. PICK i \in DOMAIN rx' : rx'[i] = Probe(r)
      BY <2>1 DEF Queued
    <3>2. i + 1 \in DOMAIN rx /\ rx[i + 1] = Probe(r) /\ 1 \in DOMAIN rx
             /\ i + 1 # 1
      BY <1>1, <1>2, <3>1
    <3> QED
      BY <1>2, <3>2, MessageFields DEF QueuedOnce, Queued
  <2>2. ASSUME Queued(r), Head(rx) # Probe(r) PROVE Queued(r)'
    <3>1. PICK i \in DOMAIN rx : rx[i] = Probe(r)
      BY <2>2 DEF Queued
    <3>2. i # 1
      BY <1>2, <2>2, <3>1
    <3>3. i - 1 \in DOMAIN rx' /\ rx'[i - 1] = Probe(r)
      BY <1>1, <1>2, <3>1, <3>2
    <3> QED
      BY <3>3 DEF Queued
  <2> QED
    BY <2>1, <2>2
<1>4. QueuedOnce'
  BY <1>1, <1>2 DEF QueuedOnce
<1> QED
  BY <1>1, <1>2, <1>3, <1>4

-----------------------------------------------------------------------------
(* The client calls.                                                       *)

LEMMA ClientStep ==
    ASSUME IInv,
           \/ \E r \in Requests : ClientProbe(r)
           \/ ClientProcureMapping
           \/ \E p \in Option(Ports) : ClientUpdateLocalPort(p)
    PROVE  IInv'
<1> USE DEF Called, mappingVars, probeVars
<1>1. QueuedOnce
  BY DEF IInv, ProbeAccounting, QueuedOnce
<1>2. calls' \in 0..MaxCalls
  BY ConstantsAssumption
     DEF IInv, TypeOK, ClientProbe, ClientProcureMapping, ClientUpdateLocalPort
<1>3. /\ UNCHANGED <<enabled, alive, network, observed, changed>>
      /\ UNCHANGED <<local_port, mapping, address, mapping_task, releasing>>
      /\ UNCHANGED <<probing_task, available, recent>>
  BY DEF ClientProbe, ClientProcureMapping, ClientUpdateLocalPort
<1>4. SUFFICES /\ rx' \in Seq(Message) /\ Len(rx') <= Capacity
               /\ reply' \in [Requests -> Reply]
               /\ asked' \in Option(Ports) /\ lost' \in BOOLEAN
               /\ \A r \in Requests : reply'[r].output \subseteq enabled
               /\ \A r \in Requests :
                     /\ reply'[r].status = "waiting" <=>
                           Queued(r)' \/ r \in probing_task.receivers
                     /\ ~(Queued(r)' /\ r \in probing_task.receivers)
               /\ QueuedOnce'
  <2>1. TypeOK'
    BY <1>2, <1>3, <1>4 DEF IInv, TypeOK
  <2>2. MappingFollowsPort' /\ WatcherUpToDate'
    BY <1>3 DEF IInv, MappingFollowsPort, WatcherUpToDate
  <2>3. ProbeAccounting'
    BY <1>3, <1>4 DEF IInv, ProbeAccounting, QueuedOnce
  <2>4. OnlyEnabledProtocols'
    BY <1>3, <1>4 DEF IInv, OnlyEnabledProtocols
  <2> QED
    BY <2>1, <2>2, <2>3, <2>4 DEF IInv
<1>5. CASE \E r \in Requests : ClientProbe(r)
  <2>1. PICK q \in Requests : ClientProbe(q)
    BY <1>5
  <2>2. /\ asked' \in Option(Ports) /\ lost' \in BOOLEAN
        /\ reply[q].status = "idle" /\ ~Queued(q)
        /\ q \notin probing_task.receivers
    BY <2>1 DEF ClientProbe, IInv, TypeOK, ProbeAccounting
  <2>3. CASE Full
    <3>1. rx' = rx /\ reply' = [reply EXCEPT ![q] = Answer("ChannelFull", {})]
      BY <2>1, <2>3 DEF ClientProbe
    <3> QED
      BY <1>1, <2>2, <3>1
         DEF IInv, TypeOK, ProbeAccounting, OnlyEnabledProtocols, Reply, Answer,
             Queued, QueuedOnce
  <2>4. CASE ~Full
    <3>1. /\ rx' = Append(rx, Probe(q))
          /\ reply' = [reply EXCEPT ![q] = Answer("waiting", {})]
      BY <2>1, <2>4 DEF ClientProbe
    <3>2. /\ rx' \in Seq(Message) /\ Len(rx') <= Capacity /\ QueuedOnce'
          /\ \A r : Queued(r)' <=> Queued(r) \/ Probe(q) = Probe(r)
      <4>1. Probe(q) \in Message /\ \A i \in DOMAIN rx : rx[i] # Probe(q)
        BY <2>2 DEF Message, Queued
      <4> QED
        BY <1>1, <2>4, <3>1, <4>1, SendQueue DEF IInv
    <3>3. \A r : Queued(r)' <=> Queued(r) \/ q = r
      BY <3>2, MessageFields
    <3>4. reply' \in [Requests -> Reply]
      BY <3>1 DEF IInv, TypeOK, Reply, Answer
    <3>5. \A r \in Requests : reply'[r].output \subseteq enabled
      BY <3>1 DEF IInv, TypeOK, OnlyEnabledProtocols, Answer
    <3>6. \A r \in Requests :
             /\ reply'[r].status = "waiting" <=>
                   Queued(r)' \/ r \in probing_task.receivers
             /\ ~(Queued(r)' /\ r \in probing_task.receivers)
      BY <2>2, <3>1, <3>3 DEF IInv, TypeOK, ProbeAccounting, Answer
    <3> QED
      BY <2>2, <3>2, <3>4, <3>5, <3>6
  <2> QED
    BY <2>3, <2>4
<1>6. CASE \/ ClientProcureMapping
           \/ \E p \in Option(Ports) : ClientUpdateLocalPort(p)
  <2>1. PICK m \in Message : m.type # "Probe"
               /\ rx' = IF Full THEN rx ELSE Append(rx, m)
    <3>1. CASE ClientProcureMapping
      BY <3>1, MessageFields DEF ClientProcureMapping, Message
    <3>2. CASE \E p \in Option(Ports) : ClientUpdateLocalPort(p)
      BY <3>2, MessageFields DEF ClientUpdateLocalPort, Message
    <3> QED
      BY <1>6, <3>1, <3>2
  <2>2. asked' \in Option(Ports) /\ lost' \in BOOLEAN /\ reply' = reply
    <3>1. CASE ClientProcureMapping
      BY <3>1 DEF ClientProcureMapping, IInv, TypeOK
    <3>2. CASE \E p \in Option(Ports) : ClientUpdateLocalPort(p)
      BY <3>2 DEF ClientUpdateLocalPort, IInv, TypeOK, Full
    <3> QED
      BY <1>6, <3>1, <3>2
  <2>3. /\ rx' \in Seq(Message) /\ Len(rx') <= Capacity /\ QueuedOnce'
        /\ \A r : Queued(r)' <=> Queued(r)
    <3>1. CASE Full
      BY <1>1, <2>1, <3>1 DEF IInv, TypeOK, Queued, QueuedOnce
    <3>2. CASE ~Full
      BY <1>1, <2>1, <3>2, SendQueue, MessageFields DEF IInv
    <3> QED
      BY <3>1, <3>2
  <2> QED
    BY <2>2, <2>3 DEF IInv, TypeOK, ProbeAccounting, OnlyEnabledProtocols
<1> QED
  BY <1>5, <1>6
-----------------------------------------------------------------------------
(* The mapping half of the service: port updates, results, deadlines.      *)

\* What the mapping half of the invariant says.
MappingInv ==
    /\ local_port \in Option(Ports) /\ mapping \in Mapping
    /\ address \in Option(Addrs) /\ mapping_task \in Task
    /\ releasing \in Release /\ changed \in BOOLEAN
    /\ MappingFollowsPort
    /\ WatcherUpToDate
    /\ mapping_task.proto \in enabled \cup {"none"}

\* CurrentMapping::update keeps watchers informed.
LEMMA UpdateInforms ==
    ASSUME TypeOK, WatcherUpToDate, NEW m \in Mapping, Update(m),
           observed' = observed
    PROVE  /\ mapping' = m /\ mapping' \in Mapping
           /\ address' \in Option(Addrs) /\ changed' \in BOOLEAN
           /\ WatcherUpToDate'
<1>1. mapping' = m /\ address' = m.ext /\ m.ext \in Option(Addrs)
  BY DEF Update, Mapping
<1>2. changed' = (changed \/ address # m.ext) /\ changed' \in BOOLEAN
  BY DEF Update
<1>3. ~changed' => observed' = address'
  BY <1>1, <1>2, Zenon DEF WatcherUpToDate
<1> QED
  BY <1>1, <1>2, <1>3 DEF WatcherUpToDate

\* Service::update_local_port, up to its end or to the awaited release.
LEMMA UpdatePortStep ==
    ASSUME IInv, Selecting, NEW p \in Option(Ports), UpdatePort(p)
    PROVE  MappingInv'
<1> USE DEF Selecting
<1>1. /\ local_port' = p /\ local_port' \in Option(Ports)
      /\ observed' = observed /\ enabled' = enabled /\ alive' = alive
      /\ ~releasing.running /\ available \subseteq enabled
      /\ "none" \notin enabled
  BY ConstantsAssumption DEF UpdatePort, IInv, TypeOK, OnlyEnabledProtocols, Protocols
<1>2. NoTask \in Task /\ NoMapping \in Mapping /\ NoTask.proto = "none"
      /\ NoMapping.ext = None /\ None \in Option(Addrs)
  BY Zenon DEF NoTask, Task, NoMapping, Mapping, Option
<1>3. CASE p # local_port /\ mapping.ext # None
  <2>1. /\ Update(NoMapping)
        /\ releasing' = [running |-> TRUE, ext |-> mapping.ext]
        /\ mapping_task' = NoTask
    BY <1>3 DEF UpdatePort
  <2>2. releasing' \in Release
    BY <2>1 DEF IInv, TypeOK, Mapping, Release
  <2>3. /\ mapping' = NoMapping /\ address' \in Option(Addrs)
        /\ changed' \in BOOLEAN /\ WatcherUpToDate'
    BY <1>1, <1>2, <2>1, UpdateInforms DEF IInv
  <2>4. MappingFollowsPort'
    BY <1>2, <2>1, <2>3 DEF MappingFollowsPort
  <2> QED
    BY <1>1, <1>2, <2>1, <2>2, <2>3, <2>4 DEF MappingInv
<1>4. CASE ~(p # local_port /\ mapping.ext # None)
  <2>1. UNCHANGED <<mapping, address, changed, releasing>>
    BY <1>4 DEF UpdatePort
  <2>2. /\ mapping_task' \in Task
        /\ mapping_task'.proto \in enabled \cup {"none"}
        /\ mapping_task' # NoTask => mapping_task'.port = p /\ p # None
    <3>1. CASE p # local_port
      <4>1. mapping_task' = GetMapping(p, None, NoTask)
        BY <1>4, <3>1 DEF UpdatePort
      <4> QED
        BY <1>1, <1>2, <4>1, GetMappingResult DEF IInv
    <3>2. CASE p = local_port /\ mapping.ext = None
      <4>1. mapping_task' = GetMapping(p, None, mapping_task)
        BY <3>2 DEF UpdatePort
      <4>2. /\ mapping_task \in Task
            /\ mapping_task.proto \in enabled \cup {"none"}
            /\ mapping_task # NoTask => mapping_task.port = p /\ p # None
        BY <3>2 DEF IInv, TypeOK, MappingFollowsPort, OnlyEnabledProtocols
      <4> QED
        BY <1>1, <1>2, <4>1, <4>2, GetMappingResult DEF IInv
    <3>3. CASE p = local_port /\ mapping.ext # None
      BY <3>3 DEF UpdatePort, IInv, TypeOK, MappingFollowsPort,
         OnlyEnabledProtocols
    <3> QED
      BY <3>1, <3>2, <3>3
  <2>3. MappingFollowsPort'
    BY <1>1, <1>4, <2>1, <2>2 DEF IInv, MappingFollowsPort
  <2>4. WatcherUpToDate'
    BY <1>1, <2>1 DEF IInv, WatcherUpToDate
  <2> QED
    BY <1>1, <2>1, <2>2, <2>3, <2>4 DEF MappingInv, IInv, TypeOK
<1> QED
  BY <1>3, <1>4

\* The end of update_local_port after the awaited release.
LEMMA ReleaseDoneStep ==
    ASSUME IInv, ReleaseDone
    PROVE  MappingInv'
<1>1. /\ UNCHANGED <<local_port, mapping, address, enabled, alive, observed,
                     changed>>
      /\ releasing.running /\ releasing' = NotReleasing
      /\ mapping_task' = GetMapping(local_port, releasing.ext, mapping_task)
  BY DEF ReleaseDone, clientVars
<1>2. mapping_task = NoTask /\ mapping.ext = None
  BY <1>1 DEF IInv, MappingFollowsPort
<1>3. NotReleasing \in Release /\ ~NotReleasing.running
  BY Zenon DEF NotReleasing, Release, Option
<1>4. /\ mapping_task' \in Task
      /\ mapping_task'.proto \in enabled \cup {"none"}
      /\ mapping_task' # NoTask =>
            mapping_task'.port = local_port /\ local_port # None
  <2>1. /\ local_port \in Option(Ports) /\ releasing.ext \in Option(Addrs)
        /\ mapping_task \in Task /\ available \subseteq enabled
        /\ NoTask.proto = "none"
    BY DEF IInv, TypeOK, Release, OnlyEnabledProtocols, NoTask
  <2> QED
    BY <1>1, <1>2, <2>1, GetMappingResult DEF IInv
<1>5. MappingFollowsPort'
  BY <1>1, <1>2, <1>3, <1>4 DEF MappingFollowsPort
<1>6. WatcherUpToDate'
  BY <1>1 DEF IInv, WatcherUpToDate
<1> QED
  BY <1>1, <1>3, <1>4, <1>5, <1>6 DEF MappingInv, IInv, TypeOK

\* on_mapping_result: the mapping obtained is for the current port.
LEMMA MappingReadyStep ==
    ASSUME IInv, NEW a \in Option(Addrs), MappingReady(a)
    PROVE  MappingInv'
<1>1. /\ UNCHANGED <<local_port, releasing, enabled, alive, observed>>
      /\ ~releasing.running /\ mapping_task.proto # "none"
      /\ mapping_task' = NoTask
  BY DEF MappingReady, Selecting
<1>2. NoTask \in Task /\ NoTask.proto = "none"
  BY Zenon DEF NoTask, Task, Option
<1>3. mapping_task.port = local_port /\ local_port # None
  BY <1>1, <1>2 DEF IInv, MappingFollowsPort
<1>4. CASE a = None
  <2>1. UNCHANGED <<mapping, address, changed>>
    BY <1>4 DEF MappingReady
  <2>2. MappingFollowsPort' /\ WatcherUpToDate'
    BY <1>1, <2>1 DEF IInv, MappingFollowsPort, WatcherUpToDate
  <2> QED
    BY <1>1, <1>2, <2>1, <2>2 DEF MappingInv, IInv, TypeOK
<1>5. CASE a # None
  <2> DEFINE m == ActiveMapping(mapping_task.port, a)
  <2>1. Update(m)
    BY <1>5 DEF MappingReady
  <2>2. m \in Mapping /\ m.port = local_port
    BY <1>3, ConstantsAssumption DEF ActiveMapping, Mapping, IInv, TypeOK, Option
  <2> HIDE DEF m
  <2>3. /\ mapping' = m /\ mapping' \in Mapping /\ address' \in Option(Addrs)
        /\ changed' \in BOOLEAN /\ WatcherUpToDate'
    BY <1>1, <2>1, <2>2, UpdateInforms DEF IInv
  <2>4. MappingFollowsPort'
    BY <1>1, <1>3, <2>2, <2>3 DEF MappingFollowsPort
  <2> QED
    BY <1>1, <1>2, <2>3, <2>4 DEF MappingInv, IInv, TypeOK
<1> QED
  BY <1>4, <1>5

\* CurrentMapping::poll: Renew keeps the mapping, Expired withdraws it, and
\* both look for a mapping of the current port.
LEMMA MappingEventStep ==
    ASSUME IInv, MappingEvent
    PROVE  MappingInv'
<1>1. /\ UNCHANGED <<local_port, releasing, enabled, alive, observed>>
      /\ ~releasing.running /\ mapping.ext # None
      /\ mapping_task' = GetMapping(local_port, mapping.ext, mapping_task)
  BY DEF MappingEvent, Selecting
<1>2. local_port # None /\ mapping.port = local_port
  BY <1>1 DEF IInv, MappingFollowsPort
<1>3. /\ mapping_task' \in Task
      /\ mapping_task'.proto \in enabled \cup {"none"}
      /\ mapping_task' # NoTask => mapping_task'.port = local_port
  <2>1. /\ local_port \in Option(Ports) /\ mapping.ext \in Option(Addrs)
        /\ mapping_task \in Task /\ available \subseteq enabled
        /\ mapping_task.proto \in enabled \cup {"none"}
        /\ mapping_task # NoTask => mapping_task.port = local_port
    BY DEF IInv, TypeOK, Mapping, OnlyEnabledProtocols, MappingFollowsPort
  <2> QED
    BY <1>1, <2>1, GetMappingResult DEF IInv
<1>4. /\ mapping' \in Mapping /\ address' \in Option(Addrs)
      /\ changed' \in BOOLEAN /\ WatcherUpToDate'
      /\ mapping'.ext # None => mapping'.port = local_port
  <2>1. CASE mapping.expire_after
    <3>1. Update(NoMapping) /\ NoMapping \in Mapping /\ NoMapping.ext = None
      <4>1. Update(NoMapping)
        BY <2>1 DEF MappingEvent
      <4>2. NoMapping \in Mapping /\ NoMapping.ext = None
        BY Zenon DEF NoMapping, Mapping, Option
      <4> QED
        BY <4>1, <4>2
    <3> QED
      BY <1>1, <3>1, UpdateInforms DEF IInv
  <2>2. CASE ~mapping.expire_after
    <3>1. /\ mapping' = [mapping EXCEPT !.expire_after = TRUE]
          /\ UNCHANGED <<address, changed>>
      BY <2>2 DEF MappingEvent
    <3>2. /\ mapping' \in Mapping /\ mapping'.ext = mapping.ext
          /\ mapping'.port = mapping.port
      BY <3>1, Zenon DEF IInv, TypeOK, Mapping
    <3> QED
      BY <1>1, <1>2, <3>1, <3>2 DEF IInv, TypeOK, WatcherUpToDate
  <2> QED
    BY <2>1, <2>2
<1>5. MappingFollowsPort'
  BY <1>1, <1>2, <1>3, <1>4 DEF MappingFollowsPort
<1> QED
  BY <1>1, <1>3, <1>4, <1>5 DEF MappingInv, IInv, TypeOK
-----------------------------------------------------------------------------
(* The probing half of the service.                                        *)

\* What the probing half of the invariant says.
ProbeInv ==
    /\ rx \in Seq(Message) /\ Len(rx) <= Capacity
    /\ probing_task \in Probing /\ available \in SUBSET Protocols
    /\ recent \in BOOLEAN /\ reply \in [Requests -> Reply]
    /\ ProbeAccounting
    /\ available \subseteq enabled /\ probing_task.targets \subseteq enabled
    /\ \A r \in Requests : reply[r].output \subseteq enabled

\* The two halves and the variables of neither make up the invariant.
LEMMA Halves ==
    IInv <=> /\ MappingInv /\ ProbeInv
             /\ enabled \in Configs /\ alive \in BOOLEAN
             /\ network \in Networks /\ observed \in Option(Addrs)
             /\ asked \in Option(Ports) /\ lost \in BOOLEAN
             /\ calls \in 0..MaxCalls
BY DEF IInv, TypeOK, MappingInv, ProbeInv, OnlyEnabledProtocols

\* Service::probe_request of the request just received.
LEMMA ProbeRequestStep ==
    ASSUME IInv, NEW q \in Requests, ProbeRequest(q), rx # <<>>,
           rx' = Tail(rx), Head(rx) = Probe(q), enabled' = enabled
    PROVE  ProbeInv'
<1>1. /\ rx' \in Seq(Message) /\ Len(rx') <= Capacity /\ QueuedOnce'
      /\ \A r : Queued(r)' <=> Queued(r) /\ r # q
  <2>1. QueuedOnce
    BY DEF IInv, ProbeAccounting, QueuedOnce
  <2> QED
    BY <2>1, RecvQueue, MessageFields DEF IInv
<1>2. Queued(q)
  BY DEF Queued, IInv, TypeOK
<1>3. reply[q].status = "waiting" /\ q \notin probing_task.receivers
  BY <1>2 DEF IInv, ProbeAccounting
<1>4. /\ UNCHANGED <<available, recent>> /\ enabled \subseteq Protocols
      /\ available \subseteq enabled
  BY ConstantsAssumption DEF ProbeRequest, IInv, TypeOK, OnlyEnabledProtocols
<1>5. CASE /\ reply' = reply
           /\ \/ /\ probing_task.running
                 /\ probing_task' =
                      [probing_task EXCEPT !.receivers = @ \cup {q}]
              \/ /\ ~probing_task.running
                 /\ probing_task' = [running |-> TRUE, receivers |-> {q},
                                     targets |-> enabled \ available]
  <2>1. /\ probing_task' \in Probing
        /\ probing_task'.receivers = probing_task.receivers \cup {q}
        /\ probing_task'.running
        /\ probing_task'.targets \subseteq enabled
    <3>1. /\ probing_task \in Probing
          /\ probing_task.targets \subseteq enabled
          /\ ~probing_task.running => probing_task.receivers = {}
      BY DEF IInv, TypeOK, ProbeAccounting, OnlyEnabledProtocols
    <3>2. CASE /\ probing_task.running
               /\ probing_task' =
                    [probing_task EXCEPT !.receivers = @ \cup {q}]
      BY <3>1, <3>2 DEF Probing
    <3>3. CASE /\ ~probing_task.running
               /\ probing_task' = [running |-> TRUE, receivers |-> {q},
                                   targets |-> enabled \ available]
      <4>1. enabled \ available \in SUBSET Protocols
        BY <1>4
      <4> QED
        BY <3>1, <3>3, <4>1 DEF Probing
    <3> QED
      BY <1>5, <3>2, <3>3
  <2>2. ProbeAccounting'
    BY <1>1, <1>2, <1>3, <1>5, <2>1
       DEF IInv, TypeOK, ProbeAccounting, QueuedOnce
  <2> QED
    BY <1>1, <1>4, <1>5, <2>1, <2>2
       DEF ProbeInv, IInv, TypeOK, OnlyEnabledProtocols
<1>6. CASE /\ probing_task' = probing_task
           /\ \E s \in {"ok", "Ipv6Gateway", "NoGateway"}, o \in {available, {}} :
                reply' = [reply EXCEPT ![q] = Answer(s, o)]
  <2>1. PICK s \in {"ok", "Ipv6Gateway", "NoGateway"}, o \in {available, {}} :
            reply' = [reply EXCEPT ![q] = Answer(s, o)]
    BY <1>6, Zenon
  <2>2. /\ Answer(s, o) \in Reply /\ Answer(s, o).status # "waiting"
        /\ Answer(s, o).output \subseteq enabled
    BY <1>4 DEF Answer, Reply
  <2>3. /\ reply' \in [Requests -> Reply]
        /\ \A r \in Requests : reply'[r].output \subseteq enabled
        /\ \A r \in Requests : reply'[r].status = "waiting"
                                <=> r # q /\ reply[r].status = "waiting"
    BY <2>1, <2>2 DEF IInv, TypeOK, OnlyEnabledProtocols
  <2>4. ProbeAccounting'
    BY <1>1, <1>2, <1>3, <1>6, <2>3 DEF IInv, ProbeAccounting, QueuedOnce
  <2> QED
    BY <1>1, <1>4, <1>6, <2>3, <2>4
       DEF ProbeInv, IInv, TypeOK, OnlyEnabledProtocols
<1> QED
  BY <1>5, <1>6 DEF ProbeRequest

\* The end of a probe, with a result for all receivers.
LEMMA ProbeEndStep ==
    ASSUME IInv, NEW found \in SUBSET Protocols,
           ProbeReady(found) \/ ProbeJoinError
    PROVE  ProbeInv' /\ enabled' = enabled
<1> DEFINE told == {"ok", "Join"}
<1>1. /\ UNCHANGED <<rx, enabled>> /\ probing_task.running
      /\ probing_task' = NotProbing
      /\ available' \in SUBSET Protocols /\ available' \subseteq enabled
      /\ recent' \in BOOLEAN
  BY Zenon DEF ProbeReady, ProbeUpdate, ProbeJoinError, Selecting, IInv, TypeOK,
     OnlyEnabledProtocols, Probing
<1>2. PICK ans \in Reply :
         /\ ans.status # "waiting" /\ ans.output \subseteq enabled
         /\ reply' = [r \in Requests |-> IF r \in probing_task.receivers
                                         THEN ans ELSE reply[r]]
  <2>1. CASE ProbeReady(found)
    <3>1. /\ Answer("ok", available') \in Reply
          /\ Answer("ok", available').status # "waiting"
          /\ Answer("ok", available').output \subseteq enabled
      BY <1>1 DEF Answer, Reply
    <3>2. reply' = [r \in Requests |-> IF r \in probing_task.receivers
                                      THEN Answer("ok", available')
                                      ELSE reply[r]]
      BY <2>1 DEF ProbeReady, ProbeUpdate
    <3> QED
      BY <3>1, <3>2
  <2>2. CASE ProbeJoinError
    <3>1. /\ Answer("Join", {}) \in Reply
          /\ Answer("Join", {}).status # "waiting"
          /\ Answer("Join", {}).output \subseteq enabled
      BY DEF Answer, Reply
    <3>2. reply' = [r \in Requests |-> IF r \in probing_task.receivers
                                      THEN Answer("Join", {})
                                      ELSE reply[r]]
      BY <2>2 DEF ProbeJoinError
    <3> QED
      BY <3>1, <3>2
  <2> QED
    BY <2>1, <2>2
<1>3. /\ reply' \in [Requests -> Reply]
      /\ \A r \in Requests : reply'[r].output \subseteq enabled
      /\ \A r \in Requests :
           reply'[r].status = "waiting" <=>
             r \notin probing_task.receivers /\ reply[r].status = "waiting"
  BY <1>2 DEF IInv, TypeOK, OnlyEnabledProtocols
<1>4. /\ NotProbing \in Probing /\ NotProbing.receivers = {}
      /\ ~NotProbing.running /\ NotProbing.targets = {}
  BY Zenon DEF NotProbing, Probing
<1>5. ProbeAccounting'
  BY <1>1, <1>3, <1>4 DEF IInv, ProbeAccounting, Queued
<1> QED
  BY <1>1, <1>3, <1>4, <1>5 DEF ProbeInv, IInv, TypeOK
-----------------------------------------------------------------------------
(* Every step preserves the invariant.                                     *)

\* handle_msg either serves a probe request or updates the local port.
LEMMA HandleMsg ==
    ASSUME IInv, RecvMsg
    PROVE  \/ \E q \in Requests : Head(rx) = Probe(q) /\ ProbeRequest(q)
           \/ /\ Head(rx).type # "Probe"
              /\ \E p \in Option(Ports) : UpdatePort(p)
<1> DEFINE msg == Head(rx)
<1>1. msg \in Message
  BY DEF RecvMsg, IInv, TypeOK
<1>2. msg.type \in {"Probe", "ProcureMapping", "UpdateLocalPort"}
  BY <1>1 DEF Message, ProcureMapping, UpdateLocalPort, Probe
<1>3. /\ msg.type = "Probe" => ProbeRequest(msg.req)
      /\ msg.type = "ProcureMapping" => UpdatePort(local_port)
      /\ msg.type = "UpdateLocalPort" => UpdatePort(msg.port)
  BY <1>2, Zenon DEF RecvMsg
<1>4. local_port \in Option(Ports)
  BY DEF IInv, TypeOK
<1>5. CASE msg.type = "Probe"
  <2>1. PICK q \in Requests : msg = Probe(q)
    BY <1>1, <1>5, MessageFields
  <2>2. msg.req = q
    BY <2>1, MessageFields
  <2> QED
    BY <1>3, <1>5, <2>1, <2>2
<1>6. CASE msg.type # "Probe"
  BY <1>1, <1>2, <1>3, <1>4, <1>6, MessageFields
<1> QED
  BY <1>5, <1>6

LEMMA RecvMsgStep ==
    ASSUME IInv, RecvMsg
    PROVE  IInv'
<1> DEFINE msg == Head(rx)
<1>1. /\ UNCHANGED <<enabled, alive, network, observed, asked, lost, calls>>
      /\ rx # <<>> /\ rx' = Tail(rx) /\ Selecting
  BY DEF RecvMsg, Selecting
<1>2. /\ msg \in Message /\ QueuedOnce'
      /\ rx' \in Seq(Message) /\ Len(rx') <= Capacity
      /\ \A r : Queued(r)' <=> Queued(r) /\ msg # Probe(r)
  <2>1. QueuedOnce
    BY DEF IInv, ProbeAccounting, QueuedOnce
  <2> QED
    BY <1>1, <2>1, RecvQueue DEF IInv
<1>3. CASE msg.type = "Probe"
  <2>1. PICK q \in Requests : msg = Probe(q) /\ ProbeRequest(q)
    BY <1>3, HandleMsg
  <2>2. ProbeInv'
    BY <1>1, <2>1, ProbeRequestStep
  <2>3. UNCHANGED <<local_port, mapping, address, mapping_task, releasing, changed>>
    BY <2>1 DEF ProbeRequest, mappingVars
  <2>4. MappingInv'
    BY <1>1, <2>3, Zenon
       DEF IInv, TypeOK, MappingInv, MappingFollowsPort, WatcherUpToDate,
           OnlyEnabledProtocols
  <2> QED
    BY <1>1, <2>2, <2>4, Halves DEF IInv, TypeOK, MappingInv, ProbeInv,
       OnlyEnabledProtocols
<1>4. CASE msg.type # "Probe"
  <2>1. PICK p \in Option(Ports) : UpdatePort(p)
    BY <1>4, HandleMsg, MessageFields
  <2>2. MappingInv'
    BY <1>1, <2>1, UpdatePortStep
  <2>3. UNCHANGED <<probing_task, available, recent, reply>>
    BY <2>1 DEF UpdatePort, probeVars
  <2>4. \A r : Queued(r)' <=> Queued(r)
    BY <1>2, <1>4, MessageFields
  <2>5. ProbeAccounting'
    BY <1>2, <2>3, <2>4 DEF IInv, ProbeAccounting, QueuedOnce
  <2>6. ProbeInv'
    BY <1>1, <1>2, <2>3, <2>5 DEF IInv, TypeOK, ProbeInv, OnlyEnabledProtocols
  <2> QED
    BY <1>1, <2>2, <2>6 DEF IInv, TypeOK, MappingInv, ProbeInv,
       OnlyEnabledProtocols
<1> QED
  BY <1>3, <1>4

\* A step of the mapping half alone.
LEMMA MappingHalfStep ==
    ASSUME IInv,
           \/ ReleaseDone
           \/ \E a \in Option(Addrs) : MappingReady(a)
           \/ MappingEvent
    PROVE  IInv'
<1>1. MappingInv'
  BY ReleaseDoneStep, MappingReadyStep, MappingEventStep
<1>2. /\ UNCHANGED <<enabled, alive, network, observed, asked, lost, calls>>
      /\ UNCHANGED <<rx, probing_task, available, recent, reply>>
  BY DEF ReleaseDone, MappingReady, MappingEvent, Selecting, probeVars, clientVars
<1>3. ProbeInv'
  BY <1>2 DEF IInv, TypeOK, ProbeInv, ProbeAccounting, Queued,
     OnlyEnabledProtocols
<1> QED
  BY <1>1, <1>2, <1>3 DEF IInv, TypeOK, MappingInv, ProbeInv,
     OnlyEnabledProtocols

\* The end of a probe disturbs the probing half alone.
LEMMA ProbeHalfStep ==
    ASSUME IInv, NEW found \in SUBSET Protocols,
           ProbeReady(found) \/ ProbeJoinError
    PROVE  IInv'
<1>1. ProbeInv'
  BY ProbeEndStep
<1>2. /\ UNCHANGED <<enabled, alive, network, observed, asked, lost, calls>>
      /\ UNCHANGED <<local_port, mapping, address, mapping_task, releasing, changed>>
  BY DEF ProbeReady, ProbeJoinError, Selecting, mappingVars
<1>3. MappingInv'
  BY <1>2 DEF IInv, TypeOK, MappingInv, MappingFollowsPort, WatcherUpToDate,
     OnlyEnabledProtocols
<1> QED
  BY <1>1, <1>2, <1>3 DEF IInv, TypeOK, MappingInv, ProbeInv,
     OnlyEnabledProtocols

\* Steps of the environment, and steps that change nothing.
LEMMA EnvironmentStep ==
    ASSUME IInv,
           \/ WatchExternalAddress
           \/ \E p \in Protocols : Forget(p)
           \/ ProbeAges
           \/ \E n \in Networks : NetworkChange(n)
           \/ UNCHANGED vars
    PROVE  IInv'
<1> USE DEF mappingVars, probeVars, clientVars, vars
<1>1. /\ UNCHANGED <<enabled, alive, rx, probing_task, reply, asked, lost, calls>>
      /\ UNCHANGED <<local_port, mapping, address, mapping_task, releasing>>
      /\ available' \subseteq available
      /\ recent' \in BOOLEAN /\ network' \in Networks
      /\ \/ UNCHANGED <<observed, changed>>
         \/ observed' = address /\ changed' = FALSE
  BY Zenon DEF WatchExternalAddress, Forget, ProbeAges, NetworkChange, IInv, TypeOK
<1> HIDE DEF mappingVars, probeVars, clientVars, vars
<1>2. TypeOK'
  <2>1. observed' \in Option(Addrs) /\ changed' \in BOOLEAN
    BY <1>1, Zenon DEF IInv, TypeOK
  <2> QED
    BY <1>1, <2>1 DEF IInv, TypeOK
<1>3. MappingFollowsPort' /\ WatcherUpToDate'
  <2>1. MappingFollowsPort'
    BY <1>1, Zenon DEF IInv, MappingFollowsPort
  <2>2. WatcherUpToDate'
    BY <1>1 DEF IInv, WatcherUpToDate
  <2> QED
    BY <2>1, <2>2
<1>4. ProbeAccounting'
  BY <1>1 DEF IInv, ProbeAccounting, Queued
<1>5. OnlyEnabledProtocols'
  BY <1>1 DEF IInv, OnlyEnabledProtocols
<1> QED
  BY <1>2, <1>3, <1>4, <1>5 DEF IInv

\* The service is aborted when its last client goes.
LEMMA DropClientStep ==
    ASSUME IInv, DropClient
    PROVE  IInv'
<1> USE DEF DropClient
<1>1. /\ mapping' \in Mapping /\ mapping_task' \in Task
      /\ probing_task' \in Probing /\ releasing' \in Release
      /\ local_port' \in Option(Ports) /\ alive' \in BOOLEAN
  BY Zenon DEF Option, Mapping, NoMapping, Task, NoTask, Probing, NotProbing,
     Release, NotReleasing
<1>2. rx' \in Seq(Message) /\ Len(rx') <= Capacity /\ \A r : ~Queued(r)'
  BY ConstantsAssumption DEF Queued
<1>3. Answer("dropped", {}) \in Reply /\ Answer("dropped", {}).output = {}
        /\ Answer("dropped", {}).status = "dropped"
  BY DEF Answer, Reply
<1>4. /\ reply' \in [Requests -> Reply]
      /\ \A r \in Requests : /\ reply'[r].status # "waiting"
                             /\ reply'[r].output \subseteq enabled
  BY <1>3 DEF IInv, TypeOK, OnlyEnabledProtocols
<1>5. TypeOK'
  BY <1>1, <1>2, <1>4, Zenon DEF IInv, TypeOK
<1>6. MappingFollowsPort' /\ WatcherUpToDate'
  BY DEF IInv, MappingFollowsPort, WatcherUpToDate, NoMapping, NotReleasing
<1>7. ProbeAccounting'
  <2>1. rx' = <<>>
    BY Zenon
  <2>2. probing_task'.receivers = {} /\ ~probing_task'.running
    BY Zenon DEF NotProbing
  <2> HIDE DEF DropClient
  <2> QED
    BY <1>2, <1>4, <2>1, <2>2 DEF ProbeAccounting
<1>8. OnlyEnabledProtocols'
  BY <1>4 DEF IInv, OnlyEnabledProtocols, NotProbing, NoTask
<1> QED
  BY <1>5, <1>6, <1>7, <1>8 DEF IInv

LEMMA NextInv == IInv /\ [Next]_vars => IInv'
<1> SUFFICES ASSUME IInv, [Next]_vars PROVE IInv'
  OBVIOUS
<1> QED
  BY ClientStep, RecvMsgStep, MappingHalfStep, ProbeHalfStep, EnvironmentStep,
     DropClientStep DEF Next

\* IInv is an invariant of the service.
THEOREM Invariance == Spec => []IInv
BY InitInv, NextInv, PTL DEF Spec

\* Every variable of the service keeps its type and the channel its capacity.
THEOREM TypeCorrect == Spec => []TypeOK
BY Invariance, PTL DEF IInv

\* Whatever the order of port updates, task results, deadlines and releases,
\* the service only holds, publishes and waits for mappings of its local port.
THEOREM MappingOfLocalPort == Spec => []MappingFollowsPort
BY Invariance, PTL DEF IInv

\* CurrentMapping::update keeps the watch channel equal to the mapping held
\* and loses no change of address.
THEOREM WatchersInformed == Spec => []WatcherUpToDate
BY Invariance, PTL DEF IInv

\* No probe requester is forgotten or served twice, for any number of
\* requests and any channel capacity.
THEOREM ProbesAccounted == Spec => []ProbeAccounting
BY Invariance, PTL DEF IInv

\* No protocol that is not enabled is used, looked for or reported.
THEOREM EnabledOnly == Spec => []OnlyEnabledProtocols
BY Invariance, PTL DEF IInv

\* An address is withdrawn only by a change of the local port or by expiry.
THEOREM WithdrawnWhenDue == Spec => WithdrawnOnlyWhenDue
<1> DEFINE Due == alive' /\ address # None /\ address' = None
                    => \/ local_port' # local_port
                       \/ /\ mapping.expire_after
                          /\ mapping_task # NoTask => mapping_task' # NoTask
<1>1. ASSUME IInv, [Next]_vars PROVE [Due]_vars
  <2> SUFFICES ASSUME alive', address # None, address' = None,
                      local_port' = local_port
               PROVE  /\ mapping.expire_after
                      /\ mapping_task # NoTask => mapping_task' # NoTask
    OBVIOUS
  <2>1. \A a \in Addrs : a # None
    BY ConstantsAssumption
  <2>2. address' # address
    OBVIOUS
  <2>3. CASE RecvMsg
    <3>1. CASE \E q \in Requests : ProbeRequest(q)
      BY <2>2, <3>1 DEF ProbeRequest, mappingVars
    <3>2. CASE \E p \in Option(Ports) : UpdatePort(p)
      <4>1. PICK p \in Option(Ports) : UpdatePort(p)
        BY <3>2
      <4>2. p = local_port
        BY <4>1 DEF UpdatePort
      <4> QED
        BY <2>2, <4>1, <4>2 DEF UpdatePort
    <3> QED
      BY <1>1, <2>3, <3>1, <3>2, HandleMsg
  <2>4. CASE \E a \in Option(Addrs) : MappingReady(a)
    BY <2>1, <2>2, <2>4 DEF MappingReady, Update, ActiveMapping, Option
  <2>5. CASE MappingEvent
    BY <2>2, <2>5 DEF MappingEvent, GetMapping, NoTask
  <2>6. CASE DropClient
    BY <2>6 DEF DropClient
  <2>7. CASE ~(\/ RecvMsg \/ MappingEvent \/ DropClient
               \/ \E a \in Option(Addrs) : MappingReady(a))
    BY <1>1, <2>2, <2>7, Zenon
       DEF Next, ClientProbe, ClientProcureMapping, ClientUpdateLocalPort,
           Called, WatchExternalAddress, ReleaseDone, ProbeReady,
           ProbeJoinError, Forget, ProbeAges, NetworkChange, vars, mappingVars
  <2> QED
    BY <2>3, <2>4, <2>5, <2>6, <2>7
<1>2. Spec => [][Due]_vars
  BY <1>1, Invariance, PTL DEF Spec
<1> QED
  BY <1>2 DEF WithdrawnOnlyWhenDue
=============================================================================
