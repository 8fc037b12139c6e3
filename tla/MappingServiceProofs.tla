------------------------ MODULE MappingServiceProofs ------------------------
(***************************************************************************)
(* What the service and its datagrams look like in every state, whatever   *)
(* the network and the gateway do, and one summary per action of what it   *)
(* may change; the theorems on the gateway's table and on renewals rest on *)
(* both.  Then what the gateway is left with: a mapping there is held, in  *)
(* the making, being released, or of a port that was given up.             *)
(***************************************************************************)
EXTENDS MappingProtocolsProofs

\* The prover of a step that names none.
USE Zenon

\* The gateway speaks one method: what one method has registered, the renewal and
\* the release by another one know nothing of.
OneMethod == \A g \in Gateways : \E m \in Methods : g \subseteq {m}

-----------------------------------------------------------------------------
(* The service and its datagrams, whatever the network does.               *)

\* Everything is of a method of the gateway and of Config.protocol; the
\* transport of a release is its own affair.
OfMethod ==
    /\ task # NoTask => task.method \in supported
    /\ \A m \in {held, releasing} : m # NoMapping => m.method \in supported
    /\ \A i \in DOMAIN requests :
          /\ requests[i].method \in supported \ {"upnp"}
          /\ requests[i].kind # "release" => requests[i].transport = Transport
    /\ \A e \in table : e.method \in supported /\ e.transport = Transport

\* Only PCP has nonces.
NoNonces ==
    /\ task.method # "pcp" => task.nonce = None
    /\ \A m \in {held, releasing} : m.method # "pcp" => m.nonce = None
    /\ \A i \in DOMAIN requests :
          requests[i].method # "pcp" => requests[i].nonce = None
    /\ \A e \in table : e.method # "pcp" => e.nonce = None

\* The stages of a method.
StageOf(t) == IF t.method = "upnp"
              THEN t.stage \in {"search", "extip", "add", "added", "any", "any_added"}
              ELSE t.stage \in {"off", "map", "addr"}

\* The mapping, its renewal and its release are of the same port; a renewal asks
\* for the external port that is held.
Service ==
    /\ held # NoMapping => held.port = port
    /\ task # NoTask => task.port = port
    /\ releasing # NoMapping => held = NoMapping /\ task = NoTask
    /\ held # NoMapping /\ task # NoTask => task.wanted = held.ext
    /\ StageOf(task)

SInv == TInv /\ OfMethod /\ NoNonces /\ Service

\* An attempt that get_mapping starts.
New(t, p, wanted) ==
    /\ p \in Ports
    /\ t \in Task /\ t # NoTask /\ t.port = p /\ t.wanted = wanted
    /\ t.method \in supported \cap Methods
    /\ t.method # "pcp" => t.nonce = None
    /\ IF t.method = "upnp" THEN t.stage \in {"search", "extip"}
       ELSE /\ t.stage = "map" /\ t.sock \in FreeSocks /\ t.wait = Timeout
            /\ MapRequest(t) \in Request

LEMMA NewAttempt ==
    ASSUME TInv, NEW p \in Ports, NEW wanted \in Option(Exts),
           NEW t \in Attempts(p, wanted)
    PROVE  New(t, p, wanted)
<1>0. supported \subseteq Methods
  BY ConstantsAssumption DEF TInv, TypeOK
<1>1. /\ t \in Task /\ t.port = p /\ t.method \in supported
      /\ t.method # "upnp" => MapRequest(t) \in Request /\ t.stage = "map"
  BY AttemptTypes, SMT
<1>2. t # NoTask
  BY <1>0, <1>1, SMT DEF NoTask, Methods
<1>3. PICK m \in supported :
         t \in CASE m = "pcp" -> NewPcp(p, wanted)
                [] m = "nat_pmp" -> NewNatPmp(p, wanted)
                [] m = "upnp" -> NewUpnp(p, wanted)
  BY DEF Attempts
<1>4. CASE m = "pcp"
  <2>1. t \in NewPcp(p, wanted)
    BY <1>3, <1>4
  <2>2. PICK sn \in FreeSocks \X FreshNonces :
          t = [NoTask EXCEPT !.method = "pcp", !.stage = "map", !.port = p,
                    !.wanted = wanted, !.sock = sn[1], !.nonce = sn[2],
                    !.wait = Timeout]
    BY <2>1 DEF NewPcp
  <2>3. /\ t.method = "pcp" /\ t.wanted = wanted /\ t.sock = sn[1]
        /\ t.wait = Timeout
    BY <2>2 DEF NoTask
  <2> QED
    BY <1>0, <1>1, <1>2, <2>3 DEF New
<1>5. CASE m = "nat_pmp"
  <2>1. t \in NewNatPmp(p, wanted)
    BY <1>3, <1>5
  <2>2. PICK sk \in FreeSocks :
          t = [NoTask EXCEPT !.method = "nat_pmp", !.stage = "map", !.port = p,
                    !.wanted = wanted, !.sock = sk, !.wait = Timeout]
    BY <2>1 DEF NewNatPmp
  <2>3. /\ t.method = "nat_pmp" /\ t.wanted = wanted /\ t.sock = sk
        /\ t.wait = Timeout /\ t.nonce = None
    BY <2>2 DEF NoTask
  <2> QED
    BY <1>0, <1>1, <1>2, <2>3 DEF New
<1>6. CASE m = "upnp"
  <2>1. PICK st \in {"search", "extip"} :
          t = [NoTask EXCEPT !.method = "upnp", !.stage = st, !.port = p,
                    !.wanted = wanted]
    BY <1>3, <1>6 DEF NewUpnp
  <2>2. /\ t.method = "upnp" /\ t.wanted = wanted /\ t.nonce = None
        /\ t.stage \in {"search", "extip"}
    BY <2>1 DEF NoTask
  <2> QED
    BY <1>0, <1>1, <1>2, <2>2 DEF New
<1> QED
  BY <1>0, <1>4, <1>5, <1>6 DEF Methods

\* The task and the datagrams after get_mapping: the old task stays, or a new one
\* is in its place and its request is the last one that was sent.
Sends(t, sent, q) ==
    IF t.method = "upnp" THEN q = sent ELSE q = Append(sent, MapRequest(t))

LEMMA GetMappingStarts ==
    ASSUME TInv, NEW p \in Option(Ports), NEW wanted \in Option(Exts),
           NEW old, NEW sent, NEW gone, GetMapping(p, wanted, old, sent, gone)
    PROVE  \/ /\ task' = old /\ requests' = sent /\ abandoned' = abandoned \cup gone
              /\ p = None \/ "offline" \in Faults
           \/ /\ New(task', p, wanted) /\ Sends(task', sent, requests')
              /\ abandoned' = abandoned \cup gone \cup GivenUp(old)
<1>1. CASE /\ p # None
           /\ \E t \in Attempts(p, wanted) :
                 /\ task' = t
                 /\ requests' = IF t.method = "upnp" THEN sent
                                ELSE Append(sent, MapRequest(t))
           /\ abandoned' = abandoned \cup gone \cup GivenUp(old)
  <2>1. PICK t \in Attempts(p, wanted) :
           /\ task' = t
           /\ requests' = IF t.method = "upnp" THEN sent
                                               ELSE Append(sent, MapRequest(t))
    BY <1>1
  <2>2. p \in Ports
    BY <1>1 DEF Option
  <2>3. New(t, p, wanted)
    BY <2>2, NewAttempt
  <2> QED
    BY <1>1, <2>1, <2>3 DEF Sends
<1> QED
  BY <1>1 DEF GetMapping

\* The mapping is the same but for its deadline.
SameMapping(m, n) == /\ n # NoMapping /\ n.method = m.method /\ n.port = m.port
                     /\ n.ext = m.ext /\ n.nonce = m.nonce

\* What became of the mapping that was held, and of the one being released.
MappingMoves ==
    /\ held' # NoMapping => /\ held # NoMapping /\ port' = port
                            /\ SameMapping(held, held')
    /\ releasing' # NoMapping => /\ releasing' = held /\ held' = NoMapping
                                 /\ task' = NoTask
    /\ held # NoMapping => \/ held' # NoMapping \/ releasing' = held
                           \/ held.port \in abandoned'
    /\ releasing # NoMapping =>
          \/ releasing.port \in abandoned'
          \/ releasing.method = "upnp" /\ table' = Without(releasing.ext)
          \/ /\ releasing.method # "upnp"
             /\ \E i \in DOMAIN requests' : requests'[i] = ReleaseRequest(releasing)

\* The attempt goes on, or is given up and perhaps another one started.
TaskMoves ==
    /\ task' = task \/ GivenUp(task) \subseteq abandoned'
    /\ task' # NoTask =>
          \/ task' = task /\ port' = port
          \/ \E wanted : /\ New(task', port', wanted)
                         /\ held' # NoMapping => wanted = held'.ext

\* A release, the request of a new attempt, or the one and then the other follow
\* what is on its way.
RequestsMove ==
    /\ DOMAIN requests \subseteq DOMAIN requests'
    /\ \A i \in DOMAIN requests : requests'[i] = requests[i]
    /\ \A j \in DOMAIN requests' \ DOMAIN requests :
          \/ /\ releasing # NoMapping /\ releasing.method # "upnp"
             /\ requests'[j] = ReleaseRequest(releasing)
          \/ /\ GivenUp(task) \subseteq abandoned'
             /\ \E wanted : New(task', port', wanted)
             /\ task'.method # "upnp" /\ requests'[j] = MapRequest(task')
             /\ j = Len(requests')
             /\ \A k \in DOMAIN requests' \ DOMAIN requests :
                   requests'[k].kind = "map" => k = j

ServiceMoves ==
    /\ UNCHANGED <<replies, supported, lease>>
    /\ abandoned \subseteq abandoned' /\ table' \subseteq table
    /\ MappingMoves /\ TaskMoves /\ RequestsMove

\* The datagrams after one or two of them were sent.
LEMMA AppendAt ==
    ASSUME NEW s \in Seq(Request), NEW x \in Request
    PROVE  /\ Append(s, x) \in Seq(Request)
           /\ DOMAIN Append(s, x) = DOMAIN s \cup {Len(s) + 1}
           /\ Len(s) + 1 \notin DOMAIN s
           /\ Append(s, x)[Len(s) + 1] = x
           /\ \A i \in DOMAIN s : Append(s, x)[i] = s[i]
           /\ Len(Append(s, x)) = Len(s) + 1
BY SMT

LEMMA StartMoves ==
    ASSUME TInv, abandoned \subseteq abandoned',
           NEW wanted, NEW sent \in Seq(Request),
           \/ sent = requests
           \/ /\ releasing # NoMapping /\ releasing.method # "upnp"
              /\ ReleaseRequest(releasing) \in Request
              /\ sent = Append(requests, ReleaseRequest(releasing)),
           task' = task \/ GivenUp(task) \subseteq abandoned',
           \/ requests' = sent
           \/ /\ New(task', port', wanted) /\ Sends(task', sent, requests')
              /\ GivenUp(task) \subseteq abandoned'
    PROVE  /\ RequestsMove
           /\ sent # requests =>
                 \E i \in DOMAIN requests' : requests'[i] = ReleaseRequest(releasing)
<1>0. requests \in Seq(Request)
  BY DEF TInv, TypeOK
<1> DEFINE q == ReleaseRequest(releasing)
           isq(x) == /\ releasing # NoMapping /\ releasing.method # "upnp"
                     /\ x = q
<1>1. q.kind = "release"
  BY DEF ReleaseRequest
<1> HIDE DEF q
<1>2. /\ DOMAIN requests \subseteq DOMAIN sent
      /\ \A i \in DOMAIN requests : sent[i] = requests[i]
      /\ \A j \in DOMAIN sent \ DOMAIN requests : isq(sent[j])
      /\ sent # requests => \E i \in DOMAIN sent : sent[i] = q
  BY <1>0, AppendAt, SMT DEF q
<1>3. CASE requests' = sent
  BY <1>2, <1>3 DEF RequestsMove, q
<1>4. CASE /\ New(task', port', wanted) /\ Sends(task', sent, requests')
           /\ requests' # sent /\ GivenUp(task) \subseteq abandoned'
  <2> DEFINE m == MapRequest(task')
             n == Len(sent) + 1
  <2>1. task'.method # "upnp" /\ m \in Request /\ requests' = Append(sent, m)
    BY <1>4 DEF New, Sends
  <2> HIDE DEF m
  <2>2. /\ DOMAIN requests' = DOMAIN sent \cup {n} /\ n \notin DOMAIN sent
        /\ requests'[n] = m /\ \A i \in DOMAIN sent : requests'[i] = sent[i]
        /\ Len(requests') = n
    BY <2>1, AppendAt, SMT
  <2> HIDE DEF n
  <2>3. \A k \in DOMAIN requests' \ DOMAIN requests :
           requests'[k].kind = "map" => k = n
    BY <1>1, <1>2, <2>2
  <2>4. \A j \in DOMAIN requests' \ DOMAIN requests :
           isq(requests'[j]) \/ j = n
    BY <1>2, <2>2
  <2> QED
    BY <1>2, <1>4, <2>1, <2>2, <2>3, <2>4, SMT DEF RequestsMove, q, m
<1> QED
  BY <1>3, <1>4

ServiceAction ==
    \/ \E p \in Option(Ports) : UpdateLocalPort(p)
    \/ Release \/ ReleaseFails \/ ProcureMapping \/ MappingEvent \/ DropClient

LEMMA ServiceSummary == ASSUME SInv, ServiceAction PROVE ServiceMoves
<1> USE NoneTypes
<1>0. /\ TInv /\ requests \in Seq(Request) /\ port \in Option(Ports)
      /\ held.ext \in Option(Exts) /\ releasing.ext \in Option(Exts)
      /\ None \in Option(Exts)
      /\ held = NoMapping <=> held.method = "none"
      /\ releasing = NoMapping <=> releasing.method = "none"
      /\ task = NoTask <=> task.method = "none"
      /\ GivenUp(NoTask) = {}
  BY DEF SInv, TInv, TypeOK, TaskOK, Mapping, Option, GivenUp
<1>1. ASSUME NEW p \in Option(Ports), UpdateLocalPort(p) PROVE ServiceMoves
  <2>1. /\ UNCHANGED <<replies, table, supported, lease>> /\ port' = p
        /\ releasing = NoMapping
    BY <1>1 DEF UpdateLocalPort, gateway
  <2>2. CASE held # NoMapping
    <3>1. /\ releasing' = held /\ held' = NoMapping /\ task' = NoTask
          /\ abandoned' = abandoned \cup GivenUp(task) /\ requests' = requests
      BY <1>0, <1>1, <2>2 DEF UpdateLocalPort
    <3>2. RequestsMove
      BY <1>0, <3>1, StartMoves
    <3>3. MappingMoves /\ TaskMoves
      BY <2>1, <2>2, <3>1 DEF MappingMoves, TaskMoves
    <3> QED
      BY <2>1, <3>1, <3>2, <3>3 DEF ServiceMoves
  <2>3. CASE held = NoMapping
    <3>1. /\ GetMapping(p, None, NoTask, requests, GivenUp(task))
          /\ held' = held /\ releasing' = releasing
      BY <1>0, <1>1, <2>3 DEF UpdateLocalPort
    <3>2. /\ abandoned' = abandoned \cup GivenUp(task)
          /\ \/ task' = NoTask /\ requests' = requests
             \/ New(task', port', None) /\ Sends(task', requests, requests')
      BY <1>0, <2>1, <3>1, GetMappingStarts, SMT
    <3>3. RequestsMove
      BY <1>0, <3>2, StartMoves
    <3>4. MappingMoves /\ TaskMoves
      BY <2>1, <2>3, <3>1, <3>2 DEF MappingMoves, TaskMoves
    <3> QED
      BY <2>1, <3>2, <3>3, <3>4 DEF ServiceMoves
  <2> QED
    BY <2>2, <2>3
<1>2. CASE Release
  <2>1. /\ UNCHANGED <<port, held, replies, supported, lease>>
        /\ releasing' = NoMapping /\ releasing # NoMapping
        /\ held = NoMapping /\ task = NoTask
    BY <1>0, <1>2 DEF Release, gateway, SInv, Service
  <2> DEFINE q == ReleaseRequest(releasing)
             sent == IF releasing.method = "upnp" THEN requests
                                                  ELSE Append(requests, q)
  <2>2. GetMapping(port, releasing.ext, task, sent, {})
    BY <1>2 DEF Release
  <2>3. q \in Request
    BY <1>0, <2>1, ConstantsAssumption
       DEF ReleaseRequest, Request, SInv, TInv, TypeOK, Mapping, Option,
           Transports
  <2>4. sent \in Seq(Request) /\ (releasing.method # "upnp" => sent # requests)
    <3>1. Append(requests, q) \in Seq(Request)
            /\ DOMAIN Append(requests, q) # DOMAIN requests
      BY <1>0, <2>3, AppendAt
    <3> QED
      BY <1>0, <3>1
  <2>5. /\ releasing.method = "upnp" => sent = requests
        /\ releasing.method # "upnp" => sent = Append(requests, q)
    OBVIOUS
  <2> HIDE DEF sent
  <2>6. /\ abandoned' = abandoned
        /\ \/ task' = task /\ requests' = sent
           \/ /\ New(task', port', releasing.ext)
              /\ Sends(task', sent, requests')
    <3>1. abandoned \cup {} = abandoned /\ abandoned \cup {} \cup GivenUp(task) = abandoned
      BY <1>0, <2>1
    <3> QED
      BY <1>0, <2>1, <2>2, <3>1, GetMappingStarts
  <2>7. /\ RequestsMove
        /\ sent # requests => \E i \in DOMAIN requests' : requests'[i] = q
    <3>1. \/ sent = requests
          \/ /\ releasing # NoMapping /\ releasing.method # "upnp"
             /\ q \in Request /\ sent = Append(requests, q)
      BY <2>1, <2>3, <2>5
    <3>2. GivenUp(task) \subseteq abandoned' /\ abandoned \subseteq abandoned'
      BY <1>0, <2>1, <2>6
    <3> QED
      BY <1>0, <2>4, <2>6, <3>1, <3>2, StartMoves
  <2>8. /\ releasing.method = "upnp" => table' = Without(releasing.ext)
        /\ releasing.method # "upnp" => table' = table
    BY <1>2 DEF Release
  <2>9. table' \subseteq table
    BY <2>8 DEF Without
  <2>10. MappingMoves
    BY <2>1, <2>4, <2>7, <2>8 DEF MappingMoves
  <2>11. TaskMoves
    BY <1>0, <2>1, <2>6 DEF TaskMoves
  <2> QED
    BY <2>1, <2>6, <2>7, <2>9, <2>10, <2>11 DEF ServiceMoves
<1>3. CASE ReleaseFails
  <2>1. /\ UNCHANGED <<port, held, replies, table, supported, lease>>
        /\ releasing' = NoMapping /\ releasing # NoMapping
        /\ held = NoMapping /\ task = NoTask
    BY <1>0, <1>3 DEF ReleaseFails, gateway, SInv, Service
  <2>2. GetMapping(port, releasing.ext, task, requests, GivenUp(releasing))
    BY <1>3 DEF ReleaseFails
  <2>3. /\ abandoned' = abandoned \cup GivenUp(releasing)
        /\ \/ task' = task /\ requests' = requests
           \/ /\ New(task', port', releasing.ext)
              /\ Sends(task', requests, requests')
    BY <1>0, <2>1, <2>2, GetMappingStarts, SMT
  <2>4. GivenUp(task) \subseteq abandoned' /\ releasing.port \in abandoned'
    BY <1>0, <2>1, <2>3 DEF GivenUp
  <2>5. RequestsMove
    BY <1>0, <2>3, <2>4, StartMoves
  <2>6. MappingMoves /\ TaskMoves
    BY <1>0, <2>1, <2>3, <2>4 DEF MappingMoves, TaskMoves
  <2> QED
    BY <2>1, <2>3, <2>5, <2>6 DEF ServiceMoves
<1>4. CASE ProcureMapping
  <2>1. /\ UNCHANGED <<port, held, releasing, replies, table, supported, lease>>
        /\ releasing = NoMapping /\ held = NoMapping
    BY <1>0, <1>4 DEF ProcureMapping, gateway
  <2>2. GetMapping(port, None, task, requests, {})
    BY <1>4 DEF ProcureMapping
  <2>3. /\ abandoned \subseteq abandoned'
        /\ \/ task' = task /\ requests' = requests
           \/ /\ New(task', port', None) /\ GivenUp(task) \subseteq abandoned'
              /\ Sends(task', requests, requests')
    BY <1>0, <2>1, <2>2, GetMappingStarts, SMT
  <2>4. RequestsMove
    BY <1>0, <2>3, StartMoves
  <2>5. MappingMoves /\ TaskMoves
    BY <1>0, <2>1, <2>3 DEF MappingMoves, TaskMoves
  <2> QED
    BY <2>1, <2>3, <2>4, <2>5 DEF ServiceMoves
<1>5. CASE MappingEvent
  <2>1. /\ UNCHANGED <<port, releasing, replies, table, supported, lease>>
        /\ releasing = NoMapping /\ held # NoMapping
    BY <1>0, <1>5 DEF MappingEvent, gateway
  <2> DEFINE gone == IF held.expire_after THEN GivenUp(held) ELSE {}
  <2>2. GetMapping(port, held.ext, task, requests, gone)
    BY <1>5 DEF MappingEvent
  <2>3. /\ held.expire_after => held.port \in gone /\ held' = NoMapping
        /\ ~held.expire_after => SameMapping(held, held')
    <3>1. CASE held.expire_after
      BY <1>0, <1>5, <2>1, <3>1 DEF MappingEvent, GivenUp
    <3>2. CASE ~held.expire_after
      <4>1. held' = [held EXCEPT !.left = held.half, !.expire_after = TRUE]
              /\ held \in Mapping
        BY <1>5, <3>2 DEF MappingEvent, SInv, TInv, TypeOK
      <4>2. /\ held'.method = held.method /\ held'.port = held.port
            /\ held'.ext = held.ext /\ held'.nonce = held.nonce
        BY <4>1 DEF Mapping
      <4> QED
        BY <1>0, <2>1, <3>2, <4>2 DEF SameMapping
    <3> QED
      BY <3>1, <3>2
  <2> HIDE DEF gone
  <2>4. /\ abandoned \cup gone \subseteq abandoned'
        /\ \/ task' = task /\ requests' = requests
           \/ /\ New(task', port', held.ext) /\ GivenUp(task) \subseteq abandoned'
              /\ Sends(task', requests, requests')
    BY <1>0, <2>1, <2>2, GetMappingStarts, SMT
  <2>5. RequestsMove
    BY <1>0, <2>4, StartMoves
  <2>6. MappingMoves
    BY <2>1, <2>3, <2>4 DEF MappingMoves, SameMapping
  <2>7. TaskMoves
    BY <2>1, <2>3, <2>4 DEF TaskMoves, SameMapping
  <2> QED
    BY <2>1, <2>4, <2>5, <2>6, <2>7 DEF ServiceMoves
<1>6. CASE DropClient
  <2>1. /\ held' = NoMapping /\ releasing' = NoMapping /\ task' = NoTask
        /\ abandoned' = abandoned \cup GivenUp(held) \cup GivenUp(releasing)
                                  \cup GivenUp(task)
        /\ UNCHANGED <<requests, replies, table, supported, lease>>
    BY <1>6 DEF DropClient, gateway
  <2>2. RequestsMove
    BY <1>0, <2>1, StartMoves
  <2>3. /\ held # NoMapping => held.port \in abandoned'
        /\ releasing # NoMapping => releasing.port \in abandoned'
    BY <1>0, <2>1 DEF GivenUp
  <2>4. MappingMoves /\ TaskMoves
    BY <2>1, <2>3 DEF MappingMoves, TaskMoves
  <2> QED
    BY <2>1, <2>2, <2>4 DEF ServiceMoves
<1> QED
  BY <1>1, <1>2, <1>3, <1>4, <1>5, <1>6 DEF ServiceAction

LEMMA ServiceS ==
    ASSUME SInv, TInv', ServiceMoves
    PROVE  OfMethod' /\ NoNonces' /\ Service'
<1> USE DEF SInv, ServiceMoves
<1>0. /\ UNCHANGED <<replies, supported, lease>> /\ table' \subseteq table
      /\ NoTask.nonce = None /\ NoMapping.nonce = None /\ StageOf(NoTask)
  BY DEF NoTask, NoMapping, StageOf
<1>1. /\ task' # NoTask => /\ task'.method \in supported /\ task'.port = port'
                           /\ task'.method # "pcp" => task'.nonce = None
      /\ task'.method # "pcp" => task'.nonce = None
      /\ StageOf(task')
  BY <1>0 DEF TaskMoves, New, StageOf, OfMethod, NoNonces, Service
<1>2. /\ \A m \in {held', releasing'} : /\ m # NoMapping => m.method \in supported
                                        /\ m.method # "pcp" => m.nonce = None
      /\ held' # NoMapping => held'.port = port'
      /\ releasing' # NoMapping => held' = NoMapping /\ task' = NoTask
  BY <1>0 DEF MappingMoves, SameMapping, OfMethod, NoNonces, Service
<1>3. held' # NoMapping /\ task' # NoTask => task'.wanted = held'.ext
  BY DEF MappingMoves, SameMapping, TaskMoves, New, Service
<1>4. ASSUME NEW j \in DOMAIN requests'
      PROVE  /\ requests'[j].method \in supported \ {"upnp"}
             /\ requests'[j].kind # "release" => requests'[j].transport = Transport
             /\ requests'[j].method # "pcp" => requests'[j].nonce = None
  <2>1. CASE j \in DOMAIN requests
    BY <2>1 DEF RequestsMove, OfMethod, NoNonces
  <2>2. CASE /\ releasing # NoMapping /\ releasing.method # "upnp"
             /\ requests'[j] = ReleaseRequest(releasing)
    BY <2>2, SMT DEF ReleaseRequest, OfMethod, NoNonces
  <2>3. CASE /\ \E wanted : New(task', port', wanted)
             /\ task'.method # "upnp" /\ requests'[j] = MapRequest(task')
    BY <2>3, SMT DEF MapRequest, New
  <2> QED
    BY <2>1, <2>2, <2>3 DEF RequestsMove
<1>5. OfMethod'
  BY <1>0, <1>1, <1>2, <1>4 DEF OfMethod
<1>6. NoNonces'
  BY <1>0, <1>1, <1>2, <1>4 DEF NoNonces
<1> QED
  BY <1>1, <1>2, <1>3, <1>5, <1>6 DEF Service

\* An attempt succeeds.
LEMMA AcceptS ==
    ASSUME SInv, task # NoTask, NEW ext, NEW half, Accept(ext, half),
           UNCHANGED <<port, releasing, requests, table, supported>>
    PROVE  OfMethod' /\ NoNonces' /\ Service'
<1>1. /\ held'.method = task.method /\ held'.port = task.port
      /\ held'.nonce = task.nonce /\ task' = NoTask
      /\ NoTask.nonce = None /\ NoMapping.nonce = None /\ StageOf(NoTask)
      /\ releasing' = releasing /\ releasing = NoMapping
  BY DEF Accept, NoTask, NoMapping, StageOf, SInv, Service
<1> QED
  BY <1>1 DEF SInv, OfMethod, NoNonces, Service

\* An attempt ends with an error.
LEMMA FailedS ==
    ASSUME SInv, task' = NoTask,
           UNCHANGED <<port, held, releasing, requests, table, supported>>
    PROVE  OfMethod' /\ NoNonces' /\ Service'
<1>1. NoTask.nonce = None /\ StageOf(NoTask)
  BY DEF NoTask, StageOf
<1> QED
  BY <1>1 DEF SInv, OfMethod, NoNonces, Service

\* The datagrams that are left when the i-th is gone.
LEMMA OthersAt ==
    ASSUME requests \in Seq(Request), NEW i \in DOMAIN requests
    PROVE  /\ Others(i) \in Seq(Request)
           /\ Len(Others(i)) = Len(requests) - 1
           /\ \A j \in DOMAIN Others(i) : \E k \in DOMAIN requests \ {i} :
                 /\ Others(i)[j] = requests[k]
                 /\ k = Len(requests) => j = Len(requests) - 1
           /\ \A k \in DOMAIN requests \ {i} :
                 \E j \in DOMAIN Others(i) : Others(i)[j] = requests[k]
           /\ \A j, l \in DOMAIN Others(i) : j # l =>
                 \E k, m \in DOMAIN requests \ {i} :
                    k # m /\ Others(i)[j] = requests[k] /\ Others(i)[l] = requests[m]
<1> DEFINE n == Len(requests)
           at(j) == IF j < i THEN j ELSE j + 1
           o == Others(i)
<1>1. /\ n \in Nat /\ n - 1 \in Nat /\ DOMAIN requests = 1..n /\ i \in 1..n
      /\ \A k \in 1..n : requests[k] \in Request
  BY SMT
<1>2. /\ \A j \in 1..(n - 1) : at(j) \in (1..n) \ {i}
      /\ \A j, l \in 1..(n - 1) : j # l => at(j) # at(l)
      /\ \A k \in (1..n) \ {i} : \E j \in 1..(n - 1) : at(j) = k
      /\ \A j \in 1..(n - 1) : at(j) = n => j = n - 1
  <2>1. \A k \in (1..n) \ {i} : \E j \in 1..(n - 1) : at(j) = k
    <3> SUFFICES ASSUME NEW k \in (1..n) \ {i}
                 PROVE  \E j \in 1..(n - 1) : at(j) = k
      OBVIOUS
    <3>1. CASE k < i
      BY <1>1, <3>1, SMT
    <3>2. CASE k > i
      <4>1. k - 1 \in 1..(n - 1) /\ at(k - 1) = k
        BY <1>1, <3>2, SMT
      <4> QED
        BY <4>1
    <3> QED
      BY <1>1, <3>1, <3>2, SMT
  <2>2. \A j \in 1..(n - 1) : at(j) \in (1..n) \ {i}
    BY <1>1, SMT
  <2>3. \A j, l \in 1..(n - 1) : j # l => at(j) # at(l)
    BY <1>1, SMT
  <2>4. \A j \in 1..(n - 1) : at(j) = n => j = n - 1
    <3> SUFFICES ASSUME NEW j \in 1..(n - 1), at(j) = n PROVE j = n - 1
      OBVIOUS
    <3> HIDE DEF n
    <3> QED
      BY <1>1, SMT
  <2> QED
    BY <2>1, <2>2, <2>3, <2>4
<1>3. o = [j \in 1..(n - 1) |-> requests[at(j)]]
  BY DEF Others
<1> HIDE DEF n, at, o
<1>4. o \in [1..(n - 1) -> Request]
  BY <1>1, <1>2, <1>3
<1>5. o \in Seq(Request) /\ Len(o) = n - 1 /\ DOMAIN o = 1..(n - 1)
  BY <1>1, <1>4, SMT
<1>6. \A j \in 1..(n - 1) : o[j] = requests[at(j)]
  BY <1>3
<1>7. \A j \in DOMAIN o : \E k \in DOMAIN requests \ {i} :
         o[j] = requests[k] /\ (k = n => j = n - 1)
  <2> SUFFICES ASSUME NEW j \in DOMAIN o
               PROVE  \E k \in DOMAIN requests \ {i} :
                         o[j] = requests[k] /\ (k = n => j = n - 1)
    OBVIOUS
  <2>1. /\ at(j) \in DOMAIN requests \ {i} /\ o[j] = requests[at(j)]
        /\ at(j) = n => j = n - 1
    BY <1>1, <1>2, <1>5, <1>6
  <2> QED
    BY <2>1
<1>8. \A k \in DOMAIN requests \ {i} : \E j \in DOMAIN o : o[j] = requests[k]
  BY <1>1, <1>2, <1>5, <1>6
<1>9. \A j, l \in DOMAIN o : j # l =>
         \E k, m \in DOMAIN requests \ {i} :
            k # m /\ o[j] = requests[k] /\ o[l] = requests[m]
  <2> SUFFICES ASSUME NEW j \in DOMAIN o, NEW l \in DOMAIN o, j # l
               PROVE  \E k, m \in DOMAIN requests \ {i} :
                         k # m /\ o[j] = requests[k] /\ o[l] = requests[m]
    OBVIOUS
  <2>1. /\ at(j) \in DOMAIN requests \ {i} /\ at(l) \in DOMAIN requests \ {i}
        /\ at(j) # at(l) /\ o[j] = requests[at(j)] /\ o[l] = requests[at(l)]
    BY <1>1, <1>2, <1>5, <1>6
  <2> QED
    BY <2>1
<1> QED
  BY <1>5, <1>7, <1>8, <1>9 DEF o, n

\* The entry is the same but for its lifetime.
SameEntry(e, f) == /\ f.method = e.method /\ f.transport = e.transport
                   /\ f.port = e.port /\ f.ext = e.ext /\ f.nonce = e.nonce

\* The gateway grants q: n is the new or the renewed entry.
Granted(q, n) ==
    /\ n.method = q.method /\ n.transport = q.transport
    /\ n.port = q.port /\ n.nonce = q.nonce /\ n.ttl = lease
    /\ n \in table' /\ table' \subseteq table \cup {n}
    /\ \A e \in table : e \in table' \/ SameEntry(e, n)
    /\ \/ Matching(q) = {} /\ n.ext \in Grantable(q)
       \/ \E e \in table : SameEntry(e, n)
    /\ replies' = replies \cup {Response(q, "map", n.ext)}

LEMMA GrantSummary ==
    ASSUME TInv, NEW q, Grant(q) PROVE \E n \in table' : Granted(q, n)
<1>1. CASE Matching(q) = {}
  <2> DEFINE n(x) == [method |-> q.method, transport |-> q.transport,
                      port |-> q.port, ext |-> x, nonce |-> q.nonce,
                      ttl |-> lease]
  <2>1. PICK x \in Grantable(q) :
            /\ table' = table \cup {n(x)}
            /\ replies' = replies \cup {Response(q, "map", x)}
    BY <1>1 DEF Grant
  <2>2. /\ n(x).method = q.method /\ n(x).transport = q.transport
        /\ n(x).port = q.port /\ n(x).ext = x /\ n(x).nonce = q.nonce
        /\ n(x).ttl = lease
    OBVIOUS
  <2> HIDE DEF n
  <2>3. Granted(q, n(x))
    BY <1>1, <2>1, <2>2 DEF Granted
  <2> QED
    BY <2>1, <2>3
<1>2. CASE Matching(q) # {}
  <2>1. PICK e \in Matching(q) :
            /\ e.nonce = q.nonce
            /\ table' = (table \ {e}) \cup {[e EXCEPT !.ttl = lease]}
            /\ replies' = replies \cup {Response(q, "map", e.ext)}
    BY <1>2 DEF Grant
  <2> DEFINE n == [e EXCEPT !.ttl = lease]
  <2>2. /\ e \in table /\ e \in Entry /\ e.port = q.port /\ e.method = q.method
        /\ e.transport = q.transport
    BY DEF Matching, TInv, TypeOK
  <2>3. SameEntry(e, n) /\ n.ttl = lease
    BY <2>2 DEF Entry, SameEntry
  <2>4. table' = (table \ {e}) \cup {n}
    BY <2>1
  <2> HIDE DEF n
  <2>5. Granted(q, n)
    BY <2>1, <2>2, <2>3, <2>4 DEF Granted, SameEntry
  <2> QED
    BY <2>4, <2>5
<1> QED
  BY <1>1, <1>2

\* What the gateway does with the i-th datagram.
ServeMoves(q) ==
    \/ q.kind = "map" /\ \E n \in table' : Granted(q, n)
    \/ /\ q.kind = "map" /\ Refuse(q)
    \/ /\ q.kind = "release" /\ replies' = replies
       /\ table' = {e \in table : e \notin Matching(q) \/ e.nonce # q.nonce}
    \/ /\ q.kind = "addr" /\ table' = table
       /\ replies' = replies \cup {Response(q, "addr", None)}

LEMMA ServeSummary ==
    ASSUME TInv, NEW i \in DOMAIN requests, Serve(i)
    PROVE  /\ UNCHANGED <<port, held, releasing, task, supported, lease, abandoned>>
           /\ ServeMoves(requests[i])
           /\ requests' = Others(i) \/ ("duplicate" \in Faults /\ requests' = requests)
           /\ "reorder" \in Faults \/ i = 1
           /\ \A f \in table' \ table :
                 /\ requests[i].kind = "map" /\ f.method = requests[i].method
                 /\ f.nonce = requests[i].nonce
                 /\ f.transport = requests[i].transport
           /\ \A j \in DOMAIN requests' :
                 \E k \in DOMAIN requests : requests'[j] = requests[k]
<1> DEFINE q == requests[i]
<1>1. /\ UNCHANGED <<port, held, releasing, task, supported, lease, abandoned>>
      /\ requests' = Others(i) \/ ("duplicate" \in Faults /\ requests' = requests)
      /\ "reorder" \in Faults \/ i = 1
  BY DEF Serve, gateway
<1>2. \/ q.kind = "map" /\ (Grant(q) \/ Refuse(q))
      \/ /\ q.kind = "release" /\ replies' = replies
         /\ table' = {e \in table : e \notin Matching(q) \/ e.nonce # q.nonce}
      \/ /\ q.kind = "addr" /\ table' = table
         /\ replies' = replies \cup {Response(q, "addr", None)}
  BY DEF Serve
<1> HIDE DEF q
<1>3. ServeMoves(q)
  BY <1>2, GrantSummary DEF ServeMoves
<1>4. \A f \in table' \ table : /\ q.kind = "map" /\ f.method = q.method
                                /\ f.nonce = q.nonce /\ f.transport = q.transport
  BY <1>3 DEF ServeMoves, Granted, Refuse
<1>5. \A j \in DOMAIN requests' :
         \E k \in DOMAIN requests : requests'[j] = requests[k]
  <2> DEFINE left == Others(i)
  <2>1. \A j \in DOMAIN left : \E k \in DOMAIN requests : left[j] = requests[k]
    BY OthersAt, SMT DEF TInv, TypeOK
  <2> HIDE DEF left
  <2>2. requests' = left \/ requests' = requests
    BY <1>1 DEF left
  <2> QED
    BY <2>1, <2>2
<1> QED
  BY <1>1, <1>3, <1>4, <1>5 DEF q

\* The attempt is the same but for what is left of its timeout.
SameTask(t, u) ==
    /\ u # NoTask /\ u.method = t.method /\ u.stage = t.stage /\ u.port = t.port
    /\ u.wanted = t.wanted /\ u.sock = t.sock /\ u.nonce = t.nonce
    /\ u.ext = t.ext /\ u.lifetime = t.lifetime

\* One unit of time passes for the service and for the gateway.
TickMoves ==
    /\ UNCHANGED <<port, releasing, requests, replies, supported, lease, abandoned>>
    /\ IF held = NoMapping THEN held' = NoMapping
       ELSE /\ SameMapping(held, held') /\ held'.half = held.half
            /\ held'.expire_after = held.expire_after
            /\ held.left \in Nat /\ held.left > 0 /\ held'.left = held.left - 1
    /\ IF task = NoTask THEN task' = NoTask
       ELSE /\ SameTask(task, task')
            /\ task.stage \in {"map", "addr"} =>
                  /\ task.wait \in Nat /\ task.wait > 0
                  /\ task'.wait = task.wait - 1
    /\ \A e \in table : e.ttl \in Nat /\
          (e.ttl > 1 => \E f \in table' : SameEntry(e, f) /\ f.ttl = e.ttl - 1)
    /\ \A f \in table' : \E e \in table : SameEntry(e, f) /\ f.ttl = e.ttl - 1

LEMMA TickSummary == ASSUME TInv, Tick PROVE TickMoves
<1>0. UNCHANGED <<port, releasing, requests, replies, supported, lease, abandoned>>
  BY DEF Tick, gateway
<1>1. IF held = NoMapping THEN held' = NoMapping
      ELSE /\ SameMapping(held, held') /\ held'.half = held.half
           /\ held'.expire_after = held.expire_after
           /\ held.left \in Nat /\ held.left > 0 /\ held'.left = held.left - 1
  <2>1. CASE held = NoMapping
    BY <2>1, NoneTypes DEF Tick
  <2>2. CASE held # NoMapping
    <3>1. held \in Mapping /\ held.method # "none"
      BY <2>2 DEF TInv, TypeOK
    <3>2. held.left > 0 /\ held' = [held EXCEPT !.left = held.left - 1]
      BY <3>1 DEF Tick
    <3>3. /\ held'.method = held.method /\ held'.ext = held.ext
          /\ held'.half = held.half /\ held'.left = held.left - 1
          /\ held'.expire_after = held.expire_after
          /\ held'.nonce = held.nonce /\ held'.port = held.port
          /\ held.left \in Nat
      BY <3>1, <3>2 DEF Mapping
    <3> QED
      BY <2>2, <3>1, <3>2, <3>3, NoneTypes DEF SameMapping
  <2> QED
    BY <2>1, <2>2
<1>2. IF task = NoTask THEN task' = NoTask
      ELSE /\ SameTask(task, task')
           /\ task.stage \in {"map", "addr"} =>
                 /\ task.wait \in Nat /\ task.wait > 0
                 /\ task'.wait = task.wait - 1
  <2>1. CASE task.stage \notin {"map", "addr"}
    BY <2>1 DEF Tick, SameTask, NoTask
  <2>2. CASE task.stage \in {"map", "addr"}
    <3>1. task \in Task /\ task # NoTask
      BY <2>2, SMT DEF TInv, TypeOK, NoTask
    <3>2. task.wait > 0 /\ task' = [task EXCEPT !.wait = task.wait - 1]
      BY <2>2 DEF Tick
    <3>3. /\ task.wait \in Nat /\ task'.wait = task.wait - 1
          /\ task'.method = task.method /\ task'.stage = task.stage
          /\ task'.port = task.port /\ task'.wanted = task.wanted
          /\ task'.sock = task.sock /\ task'.nonce = task.nonce
          /\ task'.ext = task.ext /\ task'.lifetime = task.lifetime
      BY <3>1, <3>2 DEF Task
    <3>4. task' # NoTask
      BY <2>2, <3>3, SMT DEF NoTask
    <3> QED
      BY <3>1, <3>2, <3>3, <3>4 DEF SameTask
  <2> QED
    BY <2>1, <2>2
<1> DEFINE older(e) == [e EXCEPT !.ttl = @ - 1]
<1>3. ASSUME NEW e \in table
      PROVE  e.ttl \in Nat /\ SameEntry(e, older(e)) /\ older(e).ttl = e.ttl - 1
  <2>1. e \in Entry
    BY DEF TInv, TypeOK
  <2> QED
    BY <2>1 DEF Entry, SameEntry
<1>4. table' = {older(f) : f \in {f \in table : f.ttl > 1}}
  BY DEF Tick
<1> HIDE DEF older
<1>5. \A e \in table : e.ttl \in Nat /\
         (e.ttl > 1 => \E f \in table' : SameEntry(e, f) /\ f.ttl = e.ttl - 1)
  BY <1>3, <1>4
<1>6. \A f \in table' : \E e \in table : SameEntry(e, f) /\ f.ttl = e.ttl - 1
  BY <1>3, <1>4
<1> QED
  BY <1>0, <1>1, <1>2, <1>5, <1>6 DEF TickMoves

\* A UPnP attempt comes to another stage.
Staged(stages) ==
    /\ task.method = "upnp" /\ task # NoTask /\ task' # NoTask
    /\ task'.method = "upnp" /\ task'.stage \in stages
    /\ task'.port = task.port /\ task'.wanted = task.wanted
    /\ task'.nonce = task.nonce
    /\ UNCHANGED <<port, held, releasing, requests, replies, supported, lease>>

\* The entry that add_port and add_any_port make.
Added(n, ext) ==
    /\ n \in table' /\ n.method = "upnp" /\ n.transport = Transport
    /\ n.port = task.port /\ n.ext = ext /\ n.nonce = None /\ n.ttl = 2 * Hour

UpnpMoves ==
    \/ /\ task.stage = "search" /\ Staged({"extip"})
       /\ table' = table /\ abandoned' = abandoned
    \/ /\ task.stage = "extip" /\ table' = table /\ abandoned' = abandoned
       /\ Staged(IF task.wanted # None THEN {"add"} ELSE {"any"})
    \/ /\ task.stage = "add" /\ abandoned' = abandoned
       /\ IF Free(task.wanted, task.port)
          THEN /\ Staged({"added"})
               /\ \E n : /\ Added(n, task.wanted)
                         /\ table' = Without(task.wanted) \cup {n}
          ELSE Staged({"any"}) /\ table' = table
    \/ /\ task.stage = "any" /\ abandoned' = abandoned
       /\ Staged({"any_added"})
       /\ \E n : /\ Added(n, task'.ext) /\ table' = table \cup {n}
                 /\ \A e \in table : e.ext # task'.ext \/ e.transport # Transport
    \/ /\ task.stage = "added" /\ "lose" \in Faults
       /\ Staged({"any"})
       /\ table' = table /\ abandoned' = abandoned \cup {task.port}

LEMMA UpnpSummary ==
    ASSUME TInv,
           \/ UpnpSearched \/ UpnpExternalIp \/ UpnpAddPort \/ UpnpAddAnyPort
           \/ UpnpAddPortFails
    PROVE  \/ UpnpMoves
           \/ /\ Failed /\ task.stage = "any"
              /\ \A ext \in Exts :
                    \E e \in table : e.ext = ext /\ e.transport = Transport
              /\ UNCHANGED <<port, held, releasing, requests, replies, table,
                             supported, lease>>
<1> USE NoneTypes
<1>0. task \in Task
  BY DEF TInv, TypeOK
<1>1. ASSUME NEW st, task.method = "upnp",
             task' = [task EXCEPT !.stage = st],
             UNCHANGED <<port, held, releasing, requests, replies, supported, lease>>
      PROVE  Staged({st})
  <2>1. /\ task'.method = "upnp" /\ task'.stage = st /\ task'.port = task.port
        /\ task'.wanted = task.wanted /\ task'.nonce = task.nonce
    BY <1>0, <1>1 DEF Task
  <2> QED
    BY <1>1, <2>1 DEF Staged
<1>2. ASSUME NEW ext, UpnpEntry(ext) \in table' PROVE Added(UpnpEntry(ext), ext)
  BY <1>2 DEF UpnpEntry, Added
<1>3. CASE UpnpSearched
  BY <1>1, <1>3 DEF UpnpSearched, Upnp, GotoStage, gateway, UpnpMoves
<1>4. CASE UpnpExternalIp
  <2>1. CASE task.wanted # None
    BY <1>1, <1>4, <2>1 DEF UpnpExternalIp, Upnp, GotoStage, gateway, UpnpMoves
  <2>2. CASE task.wanted = None
    BY <1>1, <1>4, <2>2 DEF UpnpExternalIp, Upnp, GotoStage, gateway, UpnpMoves
  <2> QED
    BY <2>1, <2>2
<1>5. CASE UpnpAddPort
  <2>0. /\ task.method = "upnp" /\ task.stage = "add" /\ abandoned' = abandoned
        /\ UNCHANGED <<port, held, releasing, requests, replies, supported, lease>>
    BY <1>5 DEF UpnpAddPort, Upnp, GotoStage, gateway
  <2>1. CASE Free(task.wanted, task.port)
    <3>1. /\ table' = Without(task.wanted) \cup {UpnpEntry(task.wanted)}
          /\ task' = [task EXCEPT !.stage = "added"]
      BY <1>5, <2>1 DEF UpnpAddPort, GotoStage
    <3>2. Staged({"added"}) /\ Added(UpnpEntry(task.wanted), task.wanted)
      BY <1>1, <1>2, <2>0, <3>1
    <3> QED
      BY <2>0, <2>1, <3>1, <3>2 DEF UpnpMoves
  <2>2. CASE ~Free(task.wanted, task.port)
    <3>1. table' = table /\ task' = [task EXCEPT !.stage = "any"]
      BY <1>5, <2>2 DEF UpnpAddPort, GotoStage
    <3>2. Staged({"any"})
      BY <1>1, <2>0, <3>1, ZenonT(30)
    <3> QED
      BY <2>0, <2>2, <3>1, <3>2 DEF UpnpMoves
  <2> QED
    BY <2>1, <2>2
<1>6. CASE UpnpAddAnyPort
  <2>0. /\ task.method = "upnp" /\ task.stage = "any"
        /\ UNCHANGED <<port, held, releasing, requests, replies, supported, lease>>
    BY <1>6 DEF UpnpAddAnyPort, Upnp, gateway
  <2>1. CASE \E ext \in Exts :
             /\ \A e \in table : e.ext # ext \/ e.transport # Transport
             /\ table' = table \cup {UpnpEntry(ext)}
             /\ task' = [task EXCEPT !.stage = "any_added", !.ext = ext]
             /\ abandoned' = abandoned
    <3>1. PICK ext \in Exts :
             /\ \A e \in table : e.ext # ext \/ e.transport # Transport
             /\ table' = table \cup {UpnpEntry(ext)}
             /\ task' = [task EXCEPT !.stage = "any_added", !.ext = ext]
      BY <2>1
    <3>2. /\ task'.method = "upnp" /\ task'.stage = "any_added"
          /\ task'.port = task.port /\ task'.wanted = task.wanted
          /\ task'.nonce = task.nonce /\ task'.ext = ext
      BY <1>0, <2>0, <3>1 DEF Task
    <3>3. Staged({"any_added"})
      BY <2>0, <3>2 DEF Staged
    <3>4. Added(UpnpEntry(ext), task'.ext)
      BY <1>2, <3>1, <3>2
    <3> QED
      BY <2>0, <2>1, <3>1, <3>2, <3>3, <3>4 DEF UpnpMoves
  <2>2. CASE /\ \A ext \in Exts :
                   \E e \in table : e.ext = ext /\ e.transport = Transport
             /\ table' = table /\ Failed
    BY <2>0, <2>2
  <2> QED
    BY <1>6, <2>1, <2>2 DEF UpnpAddAnyPort
<1>7. CASE UpnpAddPortFails
  BY <1>1, <1>7 DEF UpnpAddPortFails, Upnp, gateway, UpnpMoves
<1> QED
  BY <1>3, <1>4, <1>5, <1>6, <1>7

LEMMA UpnpS ==
    ASSUME SInv, UpnpMoves PROVE OfMethod' /\ NoNonces' /\ Service'
<1>1. PICK st : /\ Staged(st)
                /\ st \subseteq {"extip", "add", "any", "added", "any_added"}
  BY DEF UpnpMoves
<1>2. \A f \in table' \ table : /\ f.method = "upnp" /\ f.transport = Transport
                                /\ f.nonce = None
  BY DEF UpnpMoves, Added, Without
<1>3. Service'
  BY <1>1 DEF Staged, SInv, Service, StageOf
<1>4. task.method \in supported
  BY <1>1 DEF Staged, SInv, OfMethod
<1> QED
  BY <1>1, <1>2, <1>3, <1>4 DEF Staged, SInv, OfMethod, NoNonces

\* NAT-PMP has its mapping and asks for the external address.
NatPmpMapped(r) ==
    /\ task.method = "nat_pmp" /\ task.stage = "map"
    /\ r.kind = "map" /\ r.port = task.port
    /\ task' # NoTask /\ task'.method = "nat_pmp" /\ task'.stage = "addr"
    /\ task'.port = task.port /\ task'.wanted = task.wanted
    /\ task'.sock = task.sock /\ task'.nonce = task.nonce
    /\ task'.ext = r.ext /\ task'.lifetime = r.lifetime /\ task'.wait = Timeout
    /\ requests' = Append(requests, AddrRequest(task))
    /\ AddrRequest(task) \in Request
    /\ UNCHANGED <<held, abandoned>>

ResponseMoves(r) ==
    /\ task # NoTask /\ task.sock # None
    /\ r \in replies /\ r.sock = task.sock
    /\ replies' = replies \ {r} \/ ("duplicate" \in Faults /\ replies' = replies)
    /\ UNCHANGED <<port, releasing, table, supported, lease>>
    /\ \/ /\ task.method = "pcp" /\ PcpMatches(r)
          /\ Accept(r.ext, r.lifetime \div 2) /\ requests' = requests
       \/ /\ task.method = "nat_pmp" /\ task.stage = "addr" /\ r.kind = "addr"
          /\ Accept(task.ext, task.lifetime \div 2) /\ requests' = requests
       \/ NatPmpMapped(r)
       \/ /\ Failed /\ UNCHANGED <<held, requests>>
          /\ \/ task.method = "pcp"
             \/ /\ task.method = "nat_pmp" /\ task.stage = "map"
                /\ ~NatPmpMatches(r)
             \/ /\ task.method = "nat_pmp" /\ task.stage = "addr"
                /\ ~(r.kind = "addr" /\ r.method = "nat_pmp")

LEMMA ResponseSummary ==
    ASSUME TInv, NEW r \in replies,
           PcpResponse(r) \/ NatPmpMapResponse(r) \/ NatPmpAddrResponse(r)
    PROVE  ResponseMoves(r)
<1>0. task \in Task /\ task # NoTask
  BY NoneTypes DEF TInv, TypeOK, PcpResponse, NatPmpMapResponse,
     NatPmpAddrResponse
<1>1. /\ task.sock # None /\ r.sock = task.sock
      /\ replies' = replies \ {r} \/ ("duplicate" \in Faults /\ replies' = replies)
      /\ UNCHANGED <<port, releasing, table, supported, lease>>
  BY DEF PcpResponse, NatPmpMapResponse, NatPmpAddrResponse, Receives, gateway
<1>2. CASE PcpResponse(r)
  BY <1>0, <1>1, <1>2 DEF PcpResponse, ResponseMoves
<1>3. CASE NatPmpMapResponse(r) /\ NatPmpMatches(r)
  <2>1. /\ task' = [task EXCEPT !.stage = "addr", !.ext = r.ext,
                                !.lifetime = r.lifetime, !.wait = Timeout]
        /\ requests' = Append(requests, AddrRequest(task))
        /\ abandoned' = abandoned /\ held' = held
        /\ task.method = "nat_pmp" /\ task.stage = "map"
        /\ r.kind = "map" /\ r.port = task.port
    BY <1>3 DEF NatPmpMapResponse, NatPmpMatches
  <2>2. /\ task'.method = "nat_pmp" /\ task'.stage = "addr"
        /\ task'.port = task.port /\ task'.wanted = task.wanted
        /\ task'.sock = task.sock /\ task'.nonce = task.nonce
        /\ task'.ext = r.ext /\ task'.lifetime = r.lifetime
        /\ task'.wait = Timeout
    BY <1>0, <2>1 DEF Task
  <2>3. AddrRequest(task) \in Request
    BY <1>0, <2>1, ConstantsAssumption
       DEF AddrRequest, Request, Task, Option, Methods
  <2>4. task' # NoTask
    BY <2>2, SMT DEF NoTask
  <2>5. NatPmpMapped(r)
    BY <2>1, <2>2, <2>3, <2>4 DEF NatPmpMapped
  <2> QED
    BY <1>0, <1>1, <2>5 DEF ResponseMoves
<1>4. CASE NatPmpMapResponse(r) /\ ~NatPmpMatches(r)
  BY <1>0, <1>1, <1>4 DEF NatPmpMapResponse, ResponseMoves
<1>5. CASE NatPmpAddrResponse(r)
  BY <1>0, <1>1, <1>5 DEF NatPmpAddrResponse, ResponseMoves
<1> QED
  BY <1>2, <1>3, <1>4, <1>5

LEMMA ResponseS ==
    ASSUME SInv, NEW r \in replies, ResponseMoves(r)
    PROVE  OfMethod' /\ NoNonces' /\ Service'
<1>0. /\ task # NoTask /\ UNCHANGED <<port, releasing, table, supported, lease>>
  BY DEF ResponseMoves
<1>1. CASE /\ \E ext, half : Accept(ext, half)
           /\ requests' = requests
  BY <1>0, <1>1, AcceptS
<1>2. CASE Failed /\ UNCHANGED <<held, requests>>
  BY <1>0, <1>2, FailedS DEF Failed
<1>3. CASE NatPmpMapped(r)
  <2> DEFINE q == AddrRequest(task)
  <2>1. /\ q.method = task.method /\ q.transport = Transport /\ q.nonce = None
        /\ q \in Request
    BY <1>3 DEF AddrRequest, NatPmpMapped
  <2>2. requests' = Append(requests, q)
    BY <1>3 DEF NatPmpMapped
  <2> HIDE DEF q
  <2>3. requests \in Seq(Request)
    BY DEF SInv, TInv, TypeOK
  <2>4. \A j \in DOMAIN requests' :
           requests'[j] = q \/ \E k \in DOMAIN requests : requests'[j] = requests[k]
    BY <2>1, <2>2, <2>3, AppendElements
  <2>5. /\ task' # NoTask /\ task'.method = task.method /\ task'.port = task.port
        /\ task'.wanted = task.wanted /\ task'.nonce = task.nonce
        /\ StageOf(task') /\ held' = held /\ task.method = "nat_pmp"
    BY <1>3 DEF NatPmpMapped, StageOf
  <2>6. Service'
    BY <1>0, <2>5 DEF SInv, Service
  <2>7. OfMethod'
    BY <1>0, <2>1, <2>4, <2>5 DEF SInv, OfMethod
  <2>8. NoNonces'
    BY <1>0, <2>1, <2>4, <2>5 DEF SInv, NoNonces
  <2> QED
    BY <2>6, <2>7, <2>8
<1> QED
  BY <1>1, <1>2, <1>3 DEF ResponseMoves

\* The steps of the gateway, the network and the clock.
LEMMA GatewayS ==
    ASSUME SInv,
           \/ \E i \in DOMAIN requests : Serve(i) \/ LoseRequest(i)
           \/ \E r \in replies : LoseReply(r)
           \/ Reboot \/ Tick
    PROVE  OfMethod' /\ NoNonces' /\ Service'
<1>0. TInv /\ requests \in Seq(Request)
  BY DEF SInv, TInv, TypeOK
<1>1. ASSUME NEW i \in DOMAIN requests, Serve(i)
      PROVE  OfMethod' /\ NoNonces' /\ Service'
  <2>1. /\ UNCHANGED <<port, held, releasing, task, supported>>
        /\ \A f \in table' \ table :
              /\ requests[i].kind = "map" /\ f.method = requests[i].method
              /\ f.nonce = requests[i].nonce
              /\ f.transport = requests[i].transport
        /\ \A j \in DOMAIN requests' :
              \E k \in DOMAIN requests : requests'[j] = requests[k]
    BY <1>0, <1>1, ServeSummary
  <2>2. OfMethod'
    BY <2>1, SMT DEF SInv, OfMethod
  <2>3. NoNonces'
    BY <2>1, SMT DEF SInv, NoNonces
  <2> QED
    BY <2>1, <2>2, <2>3 DEF SInv, Service
<1>2. ASSUME NEW i \in DOMAIN requests, LoseRequest(i)
      PROVE  OfMethod' /\ NoNonces' /\ Service'
  <2> DEFINE left == Others(i)
  <2>1. \A j \in DOMAIN left : \E k \in DOMAIN requests : left[j] = requests[k]
    BY <1>0, OthersAt, SMT
  <2> HIDE DEF left
  <2>2. /\ requests' = left
        /\ UNCHANGED <<port, held, releasing, task, supported, table>>
    BY <1>2 DEF LoseRequest, left, gateway
  <2> QED
    BY <2>1, <2>2, ZenonT(30) DEF SInv, OfMethod, NoNonces, Service
<1>3. CASE \/ \E r \in replies : LoseReply(r)
           \/ Reboot
  <2>1. /\ UNCHANGED <<port, held, releasing, task, requests, supported>>
        /\ table' \subseteq table
    BY <1>3 DEF LoseReply, Reboot, gateway
  <2> QED
    BY <2>1 DEF SInv, OfMethod, NoNonces, Service
<1>4. CASE Tick
  <2>1. TickMoves
    BY <1>0, <1>4, TickSummary
  <2>2. OfMethod'
    BY <2>1, SMT DEF TickMoves, SInv, OfMethod, SameMapping, SameTask, SameEntry
  <2>3. NoNonces'
    BY <2>1, SMT DEF TickMoves, SInv, NoNonces, SameMapping, SameTask, SameEntry
  <2>4. Service'
    BY <2>1 DEF TickMoves, SInv, Service, SameMapping, SameTask, StageOf
  <2> QED
    BY <2>2, <2>3, <2>4
<1> QED
  BY <1>1, <1>2, <1>3, <1>4

LEMMA InitS == Init => SInv
<1> SUFFICES ASSUME Init PROVE SInv
  OBVIOUS
<1>1. OfMethod /\ NoNonces /\ Service
  BY SMT DEF Init, OfMethod, NoNonces, Service, NoTask, NoMapping, StageOf
<1> QED
  BY <1>1, InitTypes DEF SInv

\* A step of the mapping protocols, by the part of the system that takes it.
LEMMA Steps ==
    ASSUME TInv, Next
    PROVE  \/ ServiceAction
           \/ \E r \in replies : ResponseMoves(r) \/ LoseReply(r)
           \/ /\ Failed /\ task # NoTask
              /\ \/ "lose" \in Faults
                 \/ task.stage \in {"map", "addr"} /\ task.wait = 0
                 \/ /\ task.stage = "any"
                    /\ \A ext \in Exts :
                          \E e \in table : e.ext = ext /\ e.transport = Transport
              /\ UNCHANGED <<port, held, releasing, requests, replies, table,
                             supported, lease>>
           \/ UpnpMoves
           \/ /\ \/ task.stage = "added" /\ Accept(task.wanted, Hour)
                 \/ task.stage = "any_added" /\ Accept(task.ext, Hour)
              /\ task.method = "upnp"
              /\ UNCHANGED <<port, releasing, requests, replies, table,
                             supported, lease>>
           \/ \E i \in DOMAIN requests : Serve(i) \/ LoseRequest(i)
           \/ Reboot \/ Tick
<1>1. CASE AttemptFails
  BY <1>1, SMT DEF AttemptFails, gateway, NoTask
<1>2. CASE UpnpAdded
  BY <1>2 DEF UpnpAdded, Upnp, gateway
<1>3. CASE \/ UpnpSearched \/ UpnpExternalIp \/ UpnpAddPort \/ UpnpAddAnyPort
           \/ UpnpAddPortFails
  <2>1. task.stage = "any" => task # NoTask
    BY SMT DEF NoTask
  <2> QED
    BY <1>3, <2>1, UpnpSummary
<1>4. ASSUME NEW r \in replies,
             PcpResponse(r) \/ NatPmpMapResponse(r) \/ NatPmpAddrResponse(r)
      PROVE  ResponseMoves(r)
  BY <1>4, ResponseSummary
<1> QED
  BY <1>1, <1>2, <1>3, <1>4 DEF Next, ServiceAction

LEMMA StepS == SInv /\ [Next]_vars => SInv'
<1> SUFFICES ASSUME SInv, [Next]_vars PROVE SInv'
  OBVIOUS
<1>1. TInv /\ TInv'
  BY TypeStep DEF SInv
<1>2. OfMethod' /\ NoNonces' /\ Service'
  <2>1. CASE UNCHANGED vars
    BY <2>1 DEF vars, SInv, OfMethod, NoNonces, Service
  <2>2. CASE Next
    <3>1. CASE ServiceAction
      BY <1>1, <3>1, ServiceSummary, ServiceS
    <3>2. ASSUME NEW r \in replies, ResponseMoves(r)
          PROVE  OfMethod' /\ NoNonces' /\ Service'
      BY <3>2, ResponseS
    <3>3. CASE /\ Failed
               /\ UNCHANGED <<port, held, releasing, requests, replies, table,
                              supported, lease>>
      BY <3>3, FailedS DEF Failed
    <3>4. CASE UpnpMoves
      BY <3>4, UpnpS
    <3>5. CASE /\ \E ext : Accept(ext, Hour)
               /\ task.method = "upnp"
               /\ UNCHANGED <<port, releasing, requests, replies, table,
                              supported, lease>>
      BY <3>5, AcceptS, NoneTypes
    <3>6. CASE \/ \E i \in DOMAIN requests : Serve(i) \/ LoseRequest(i)
               \/ \E r \in replies : LoseReply(r)
               \/ Reboot \/ Tick
      BY <3>6, GatewayS
    <3> QED
      BY <1>1, <2>2, <3>1, <3>2, <3>3, <3>4, <3>5, <3>6, Steps
  <2> QED
    BY <2>1, <2>2
<1> QED
  BY <1>1, <1>2 DEF SInv

-----------------------------------------------------------------------------
(* The line to the gateway.                                                *)

\* Datagrams arrive once and in order, and a socket is not bound to a port that
\* answers to another one are still on their way to: without a nonce nothing
\* else ties a response to its request.
InOrder == Faults \cap {"duplicate", "reorder", "reuse"} = {}

\* PCP is not spoken.
WithoutPcp == "pcp" \notin supported

\* A datagram from or for the socket of the running attempt.
Own(x) == task # NoTask /\ x.sock = task.sock

\* The request of the running attempt is the last one sent, so that by the time
\* it is answered the gateway has served all others.
Asking ==
    task.stage = "map" =>
        /\ \A i \in DOMAIN requests : Own(requests[i]) =>
              requests[i] = MapRequest(task) /\ i = Len(requests)
        /\ \A r \in replies : Own(r) =>
              /\ requests = <<>>
              /\ r.kind \in {"map", "refused"} /\ r.method = "nat_pmp"
              /\ r.transport = Transport /\ r.port = task.port
              /\ \A s \in replies : Own(s) => s = r

\* While the external address is asked for, nothing else is.
AskingAddr ==
    task.stage = "addr" =>
        /\ task.lifetime = lease
        /\ \A i \in DOMAIN requests : requests[i].kind = "addr"
        /\ \A r \in replies : Own(r) => r.kind = "addr" /\ r.method = "nat_pmp"

\* While a mapping is held, nothing is on its way but its renewals.
Renewals ==
    held # NoMapping => \A i \in DOMAIN requests :
        \/ requests[i].kind = "addr"
        \/ /\ requests[i].kind = "map" /\ requests[i].port = held.port
           /\ requests[i].wanted = held.ext

Line == /\ \A r \in replies : r.lifetime = lease
        /\ Asking /\ AskingAddr /\ Renewals

LInv == SInv /\ Line

LEMMA Speaks ==
    ASSUME SInv, WithoutPcp
    PROVE  /\ task # NoTask => task.method \in {"nat_pmp", "upnp"}
           /\ task.stage \in {"map", "addr"} => task.method = "nat_pmp" /\ task # NoTask
           /\ \A i \in DOMAIN requests : requests[i].method = "nat_pmp"
<1>1. supported \subseteq Methods
  BY ConstantsAssumption DEF SInv, TInv, TypeOK
<1>2. task.stage \in {"map", "addr"} => task # NoTask
  BY SMT DEF NoTask
<1> QED
  BY <1>1, <1>2 DEF WithoutPcp, Methods, SInv, OfMethod, Service, StageOf

\* Nothing on its way is of the socket a new attempt is bound to.
LEMMA NewSocket ==
    ASSUME InOrder, NEW t, NEW p, NEW wanted, New(t, p, wanted), t.stage = "map"
    PROVE  /\ t.sock \in Socks
           /\ \A r \in replies : r.sock # t.sock
           /\ \A i \in DOMAIN requests : requests[i].sock # t.sock
BY DEF InOrder, New, FreeSocks

LEMMA LineService ==
    ASSUME LInv, WithoutPcp, InOrder, ServiceMoves, SInv' PROVE Line'
<1>0. /\ UNCHANGED <<replies, lease>> /\ TaskMoves /\ RequestsMove /\ MappingMoves
      /\ requests \in Seq(Request) /\ requests' \in Seq(Request)
  BY DEF ServiceMoves, LInv, SInv, TInv, TypeOK
<1>1. /\ DOMAIN requests \subseteq DOMAIN requests'
      /\ \A i \in DOMAIN requests : requests'[i] = requests[i]
  BY <1>0 DEF RequestsMove
<1>2. task # NoTask \/ held # NoMapping => releasing = NoMapping
  BY DEF LInv, SInv, Service
<1>3. ASSUME NEW j \in DOMAIN requests' \ DOMAIN requests
      PROVE  \/ releasing # NoMapping /\ requests'[j].sock = None
             \/ /\ \E wanted : New(task', port', wanted)
                /\ task'.stage = "map" /\ task' # NoTask
                /\ requests'[j] = MapRequest(task') /\ j = Len(requests')
  <2>1. ReleaseRequest(releasing).sock = None
    BY DEF ReleaseRequest
  <2> QED
    BY <1>0, <1>3, <2>1 DEF RequestsMove, New
<1>4. /\ task' # NoTask => task' = task \/ \E wanted : New(task', port', wanted)
      /\ NoTask.stage = "off"
  BY <1>0 DEF TaskMoves, NoTask
<1>5. Asking'
  <2> SUFFICES ASSUME task'.stage = "map" PROVE Asking'
    BY DEF Asking
  <2>1. CASE \E wanted : New(task', port', wanted)
    <3>1. /\ task'.sock \in Socks /\ \A r \in replies : r.sock # task'.sock
          /\ \A i \in DOMAIN requests : requests[i].sock # task'.sock
      BY <2>1, NewSocket
    <3>2. task'.sock # None
      BY <3>1, ConstantsAssumption
    <3> QED
      BY <1>0, <1>1, <1>3, <3>1, <3>2 DEF Asking, Own
  <2>2. CASE ~\E wanted : New(task', port', wanted)
    <3>1. task' = task /\ task # NoTask
      BY <1>4, <2>2
    <3>2. DOMAIN requests' = DOMAIN requests
      BY <1>1, <1>2, <1>3, <2>2, <3>1
    <3>3. requests' = requests
      BY <1>0, <1>1, <3>2, SMT
    <3> QED
      BY <1>0, <3>1, <3>3, SMT DEF Asking, Own, LInv, Line, MapRequest
  <2> QED
    BY <2>1, <2>2
<1>6. AskingAddr'
  <2> SUFFICES ASSUME task'.stage = "addr" PROVE AskingAddr'
    BY DEF AskingAddr
  <2>1. ~\E wanted : New(task', port', wanted)
    BY DEF New
  <2>2. task' = task /\ task # NoTask
    BY <1>4, <2>1
  <2>3. DOMAIN requests' = DOMAIN requests
    BY <1>1, <1>2, <1>3, <2>1, <2>2
  <2> QED
    BY <1>0, <1>1, <2>2, <2>3 DEF AskingAddr, Own, LInv, Line
<1>7. Renewals'
  <2> SUFFICES ASSUME held' # NoMapping PROVE Renewals'
    BY DEF Renewals
  <2>1. held # NoMapping /\ held'.port = held.port /\ held'.ext = held.ext
    BY <1>0 DEF MappingMoves, SameMapping
  <2>2. task' # NoTask => task'.port = held'.port /\ task'.wanted = held'.ext
    BY DEF SInv, Service
  <2>3. \A j \in DOMAIN requests' \ DOMAIN requests :
           /\ requests'[j].kind = "map" /\ requests'[j].port = held'.port
           /\ requests'[j].wanted = held'.ext
    BY <1>2, <1>3, <2>1, <2>2, SMT DEF MapRequest
  <2> QED
    BY <1>1, <2>1, <2>3, SMT DEF Renewals, LInv, Line
<1> QED
  BY <1>0, <1>5, <1>6, <1>7 DEF Line, LInv

\* The responses of a gateway that serves q.
LEMMA ServeReplies ==
    ASSUME NEW q, ServeMoves(q), lease' = lease
    PROVE  /\ replies \subseteq replies'
           /\ \A s \in replies' \ replies :
                 /\ s.sock = q.sock /\ s.method = q.method /\ s.port = q.port
                 /\ s.transport = q.transport /\ s.lifetime = lease
                 /\ \/ q.kind = "map" /\ s.kind \in {"map", "refused"}
                    \/ q.kind = "addr" /\ s.kind = "addr"
                 /\ \A u \in replies' \ replies : u = s
<1>1. \A k, x : LET s == Response(q, k, x) IN
         /\ s.kind = k /\ s.sock = q.sock /\ s.method = q.method /\ s.port = q.port
         /\ s.transport = q.transport /\ s.lifetime = lease
  BY DEF Response
<1>2. \/ replies' = replies
      \/ \E k, x : /\ replies' = replies \cup {Response(q, k, x)}
                   /\ \/ q.kind = "map" /\ k \in {"map", "refused"}
                      \/ q.kind = "addr" /\ k = "addr"
  BY DEF ServeMoves, Granted, Refuse
<1> QED
  BY <1>1, <1>2, SMT

\* The datagrams that are left when one was lost or served.
LEMMA OthersLine ==
    ASSUME SInv, NEW i \in DOMAIN requests, requests' = Others(i)
    PROVE  /\ \A j \in DOMAIN requests' : \E k \in DOMAIN requests :
                 /\ requests'[j] = requests[k]
                 /\ k = Len(requests) => j = Len(requests')
           /\ Len(requests) = 1 => requests' = <<>>
<1> DEFINE o == Others(i)
<1>1. requests \in Seq(Request) /\ requests' = o
  BY DEF SInv, TInv, TypeOK
<1>2. /\ o \in Seq(Request) /\ Len(o) = Len(requests) - 1
      /\ \A j \in DOMAIN o : \E k \in DOMAIN requests \ {i} :
            /\ o[j] = requests[k]
            /\ k = Len(requests) => j = Len(requests) - 1
  BY <1>1, OthersAt
<1> HIDE DEF o
<1> QED
  BY <1>1, <1>2, SMT

LEMMA LineServe ==
    ASSUME LInv, WithoutPcp, InOrder, NEW i \in DOMAIN requests, Serve(i)
    PROVE  Line'
<1> DEFINE q == requests[i]
<1>0. SInv /\ Line /\ TInv /\ requests \in Seq(Request)
  BY DEF LInv, SInv, TInv, TypeOK
<1>1. /\ UNCHANGED <<held, task, lease>> /\ requests' = Others(i) /\ i = 1
      /\ ServeMoves(q)
  BY <1>0, ServeSummary DEF InOrder
<1>2. q.method = "nat_pmp" /\ (q.kind # "release" => q.transport = Transport)
  BY <1>0, Speaks DEF SInv, OfMethod
<1> HIDE DEF q
<1>3. /\ replies \subseteq replies'
      /\ \A s \in replies' \ replies :
            /\ s.sock = q.sock /\ s.method = q.method /\ s.port = q.port
            /\ s.transport = q.transport /\ s.lifetime = lease
            /\ \/ q.kind = "map" /\ s.kind \in {"map", "refused"}
               \/ q.kind = "addr" /\ s.kind = "addr"
            /\ \A u \in replies' \ replies : u = s
  BY <1>1, ServeReplies
<1>4. /\ \A j \in DOMAIN requests' : \E k \in DOMAIN requests :
            /\ requests'[j] = requests[k]
            /\ k = Len(requests) => j = Len(requests')
      /\ Len(requests) = 1 => requests' = <<>>
  BY <1>0, <1>1, OthersLine
<1>5. Asking'
  <2> SUFFICES ASSUME task.stage = "map" PROVE Asking'
    BY <1>1 DEF Asking
  <2>1. /\ \A j \in DOMAIN requests : Own(requests[j]) =>
              requests[j] = MapRequest(task) /\ j = Len(requests)
        /\ \A r \in replies : ~Own(r)
    BY <1>0, SMT DEF Line, Asking
  <2>2. ASSUME NEW s \in replies', Own(s)
        PROVE  /\ requests' = <<>> /\ s.kind \in {"map", "refused"}
               /\ s.method = "nat_pmp" /\ s.transport = Transport
               /\ s.port = task.port /\ \A u \in replies' : Own(u) => u = s
    <3>1. s \in replies' \ replies /\ \A u \in replies' : Own(u) => u \notin replies
      BY <2>1, <2>2
    <3>2. Own(q)
      BY <1>3, <2>2, <3>1 DEF Own
    <3>3. q = MapRequest(task) /\ Len(requests) = 1
      BY <1>1, <2>1, <3>2 DEF q
    <3>4. q.kind = "map" /\ q.port = task.port
      BY <3>3 DEF MapRequest
    <3> QED
      BY <1>2, <1>3, <1>4, <3>1, <3>3, <3>4
  <2>3. \A j \in DOMAIN requests' : Own(requests'[j]) =>
              requests'[j] = MapRequest(task) /\ j = Len(requests')
    BY <1>4, <2>1
  <2> QED
    BY <1>1, <2>2, <2>3 DEF Asking, Own, MapRequest
<1>6. AskingAddr'
  <2> SUFFICES ASSUME task.stage = "addr" PROVE AskingAddr'
    BY <1>1 DEF AskingAddr
  <2>1. /\ task.lifetime = lease
        /\ \A j \in DOMAIN requests : requests[j].kind = "addr"
        /\ \A r \in replies : Own(r) => r.kind = "addr" /\ r.method = "nat_pmp"
    BY <1>0 DEF Line, AskingAddr
  <2>2. q.kind = "addr"
    BY <2>1 DEF q
  <2>3. \A s \in replies' : Own(s) => s.kind = "addr" /\ s.method = "nat_pmp"
    BY <1>2, <1>3, <2>1, <2>2
  <2> QED
    BY <1>1, <1>4, <2>1, <2>3, SMT DEF AskingAddr, Own
<1>7. Renewals'
  BY <1>0, <1>1, <1>4, SMT DEF Line, Renewals
<1>8. \A s \in replies' : s.lifetime = lease'
  BY <1>0, <1>1, <1>3 DEF Line
<1> QED
  BY <1>5, <1>6, <1>7, <1>8 DEF Line

LEMMA LineLose ==
    ASSUME LInv, \/ \E i \in DOMAIN requests : LoseRequest(i)
                 \/ \E r \in replies : LoseReply(r)
    PROVE  Line'
<1>0. SInv /\ Line
  BY DEF LInv
<1>1. ASSUME NEW i \in DOMAIN requests, LoseRequest(i) PROVE Line'
  <2>1. UNCHANGED <<held, task, lease, replies>> /\ requests' = Others(i)
    BY <1>1 DEF LoseRequest, gateway
  <2>2. \A j \in DOMAIN requests' : \E k \in DOMAIN requests :
            /\ requests'[j] = requests[k]
            /\ k = Len(requests) => j = Len(requests')
    BY <1>0, <2>1, OthersLine
  <2>3. Asking'
    <3>1. task.stage = "map" =>
             /\ \A r \in replies : ~Own(r)
             /\ \A j \in DOMAIN requests' : Own(requests'[j]) =>
                   requests'[j] = MapRequest(task) /\ j = Len(requests')
      BY <1>0, <2>2, SMT DEF Line, Asking
    <3> QED
      BY <2>1, <3>1 DEF Asking, Own, MapRequest
  <2> QED
    BY <1>0, <2>1, <2>2, <2>3, SMT DEF Line, AskingAddr, Renewals, Own
<1>2. ASSUME NEW r \in replies, LoseReply(r) PROVE Line'
  <2>1. UNCHANGED <<held, task, lease, requests>> /\ replies' \subseteq replies
    BY <1>2 DEF LoseReply, gateway
  <2> QED
    BY <1>0, <2>1, SMT DEF Line, Asking, AskingAddr, Renewals, Own, MapRequest
<1> QED
  BY <1>1, <1>2

LEMMA LineTick == ASSUME LInv, TickMoves PROVE Line'
<1>0. SInv /\ Line /\ UNCHANGED <<requests, replies, lease>>
  BY DEF LInv, TickMoves
<1>1. /\ held' # NoMapping =>
            held # NoMapping /\ held'.port = held.port /\ held'.ext = held.ext
      /\ task' # NoTask =>
            /\ task # NoTask /\ task'.stage = task.stage /\ task'.sock = task.sock
            /\ task'.port = task.port /\ task'.lifetime = task.lifetime
            /\ MapRequest(task') = MapRequest(task)
      /\ NoTask.stage = "off"
  BY DEF TickMoves, SameMapping, SameTask, MapRequest, NoTask
<1>2. task'.stage \in {"map", "addr"} => task' # NoTask
  BY SMT DEF NoTask
<1>3. Asking'
  BY <1>0, <1>1, <1>2, SMT DEF Line, Asking, Own
<1>4. AskingAddr' /\ Renewals'
  BY <1>0, <1>1, <1>2 DEF Line, AskingAddr, Renewals, Own
<1> QED
  BY <1>0, <1>3, <1>4 DEF Line

LEMMA LineResponse ==
    ASSUME LInv, WithoutPcp, InOrder, NEW r \in replies, ResponseMoves(r)
    PROVE  Line'
<1>0. /\ SInv /\ Line /\ NoTask.stage = "off" /\ task # NoTask /\ Own(r)
      /\ replies' = replies \ {r} /\ lease' = lease
      /\ task.method # "pcp" /\ requests \in Seq(Request)
  BY Speaks DEF LInv, ResponseMoves, InOrder, NoTask, Own, SInv, TInv, TypeOK
<1>1. \A s \in replies' : s.lifetime = lease'
  BY <1>0 DEF Line
<1>2. CASE task' = NoTask
  <2>1. Asking' /\ AskingAddr'
    BY <1>0, <1>2 DEF Asking, AskingAddr
  <2>2. CASE held' = held /\ requests' = requests
    BY <1>0, <1>1, <2>1, <2>2 DEF Line, Renewals
  <2>3. CASE task.stage = "addr" /\ requests' = requests
    <3>1. \A i \in DOMAIN requests : requests[i].kind = "addr"
      BY <1>0, <2>3 DEF Line, AskingAddr
    <3> QED
      BY <1>1, <2>1, <2>3, <3>1 DEF Line, Renewals
  <2> QED
    BY <1>0, <1>2, <2>2, <2>3 DEF ResponseMoves, NatPmpMapped
<1>3. CASE NatPmpMapped(r)
  <2>1. /\ requests = <<>> /\ \A s \in replies : Own(s) => s = r
    BY <1>0, <1>3 DEF NatPmpMapped, Line, Asking
  <2>2. /\ task'.stage = "addr" /\ task'.lifetime = lease /\ held' = held
        /\ task' # NoTask /\ task'.sock = task.sock
    BY <1>0, <1>3 DEF NatPmpMapped, Line
  <2>3. \A i \in DOMAIN requests' : requests'[i].kind = "addr"
    <3>1. /\ requests' = Append(requests, AddrRequest(task))
          /\ AddrRequest(task) \in Request /\ AddrRequest(task).kind = "addr"
      BY <1>3 DEF NatPmpMapped, AddrRequest
    <3>2. DOMAIN requests' = {1} /\ requests'[1] = AddrRequest(task)
      BY <2>1, <3>1, SMT
    <3> QED
      BY <3>1, <3>2
  <2>4. \A s \in replies' : s.sock # task'.sock
    BY <1>0, <2>1, <2>2 DEF Own
  <2> QED
    BY <1>0, <1>1, <2>2, <2>3, <2>4 DEF Line, Asking, AskingAddr, Renewals, Own
<1> QED
  BY <1>0, <1>2, <1>3 DEF ResponseMoves, Accept, Failed

\* An attempt ends without a datagram, or is one of UPnP.
LEMMA LineAttempt ==
    ASSUME LInv, OneMethod, UNCHANGED <<requests, replies, lease>>,
           task'.stage \notin {"map", "addr"},
           held' = held \/ (task.method = "upnp" /\ task # NoTask)
    PROVE  Line'
<1>0. SInv /\ Line
  BY DEF LInv
<1>1. Asking' /\ AskingAddr'
  BY DEF Asking, AskingAddr
<1>2. CASE held' = held
  BY <1>0, <1>1, <1>2 DEF Line, Renewals
<1>3. CASE task.method = "upnp" /\ task # NoTask
  <2>1. PICK m : supported \subseteq {m}
    BY <1>0 DEF OneMethod, SInv, TInv, TypeOK
  <2>2. "upnp" \in supported
    BY <1>0, <1>3 DEF SInv, OfMethod
  <2>3. DOMAIN requests = {}
    BY <1>0, <2>1, <2>2 DEF SInv, OfMethod
  <2> QED
    BY <1>0, <1>1, <2>3 DEF Line, Renewals
<1> QED
  BY <1>2, <1>3

LEMMA StepLine ==
    ASSUME LInv, WithoutPcp, OneMethod, InOrder, Next, SInv'
    PROVE  Line'
<1>0. SInv /\ Line /\ TInv
  BY DEF LInv, SInv
<1>1. CASE ServiceAction
  BY <1>0, <1>1, ServiceSummary, LineService
<1>2. CASE \E r \in replies : ResponseMoves(r)
  BY <1>2, LineResponse
<1>3. CASE \/ \E i \in DOMAIN requests : LoseRequest(i)
           \/ \E r \in replies : LoseReply(r)
  BY <1>3, LineLose
<1>4. CASE /\ Failed
           /\ UNCHANGED <<port, held, releasing, requests, replies, table,
                          supported, lease>>
  BY <1>4, LineAttempt DEF Failed, NoTask
<1>5. CASE UpnpMoves
  <2>1. /\ UNCHANGED <<held, requests, replies, lease>>
        /\ task'.stage \in {"extip", "add", "any", "added", "any_added"}
    BY <1>5 DEF UpnpMoves, Staged
  <2> QED
    BY <2>1, LineAttempt
<1>6. CASE /\ \E ext : Accept(ext, Hour)
           /\ task.method = "upnp"
           /\ UNCHANGED <<port, releasing, requests, replies, table,
                          supported, lease>>
  <2>1. /\ task # NoTask /\ UNCHANGED <<requests, replies, lease>>
        /\ task'.stage \notin {"map", "addr"}
    BY <1>6, NoneTypes, SMT DEF Accept, NoTask
  <2> QED
    BY <1>6, <2>1, LineAttempt
<1>7. CASE \E i \in DOMAIN requests : Serve(i)
  BY <1>7, LineServe
<1>8. CASE Tick
  BY <1>0, <1>8, TickSummary, LineTick
<1>9. CASE Reboot
  BY <1>0, <1>9, SMT
     DEF Reboot, gateway, Line, Asking, AskingAddr, Renewals, Own, MapRequest
<1> QED
  BY <1>0, <1>1, <1>2, <1>3, <1>4, <1>5, <1>6, <1>7, <1>8, <1>9, Steps

-----------------------------------------------------------------------------
(* What is left at the gateway.                                            *)

\* NAT-PMP releases are for UDP whatever Config.protocol says.
ReleaseFits == Transport = "udp" \/ \A g \in Gateways : "nat_pmp" \notin g

\* A datagram is delivered once, however late and in whatever order; the calls
\* of UPnP are no datagrams.
DeliveredOnce == \/ Faults \cap {"lose", "duplicate"} = {}
                 \/ \A g \in Gateways : g \subseteq {"upnp"}

\* A datagram of the running attempt.
Asked(q) == /\ task # NoTask /\ task.stage = "map"
            /\ q.port = task.port /\ q.nonce = task.nonce

\* Of a port that was never given up there is one request or one response on its
\* way, it is of the running attempt, and a response tells what the gateway has.
OneAnswer ==
    /\ \A i \in DOMAIN requests :
          requests[i].kind = "map" /\ requests[i].port \notin abandoned =>
             /\ Asked(requests[i])
             /\ \A j \in DOMAIN requests :
                   requests[j].kind = "map" /\ requests[j].port = requests[i].port
                     => j = i
             /\ \A r \in replies : ~(r.kind = "map" /\ r.port = requests[i].port)
    /\ \A r \in replies : r.kind = "map" /\ r.port \notin abandoned =>
          /\ Asked(r)
          /\ \A s \in replies : s.kind = "map" /\ s.port = r.port => s = r
          /\ \A e \in table : e.port = r.port => e.nonce = r.nonce

\* The gateway has no two owners of a port and no two ports behind one.
OneOwner == /\ \A e, f \in table : e.port = f.port => e.nonce = f.nonce
            /\ \A e, f \in table : e.ext = f.ext => e.port = f.port

\* The release of mapping m removes entry e.
Covers(m, e) ==
    /\ m.port = e.port
    /\ IF m.method = "upnp" THEN m.ext = e.ext ELSE m.nonce = e.nonce

\* Entry e is the one attempt t has made or asks for.
Makes(t, e) ==
    /\ t.port = e.port
    /\ \/ t.method # "upnp" /\ t.nonce = e.nonce
       \/ t.stage = "added" /\ t.wanted = e.ext
       \/ t.stage = "any_added" /\ t.ext = e.ext

Releases(q, e) ==
    /\ q.kind = "release" /\ q.method = e.method /\ q.transport = e.transport
    /\ q.port = e.port /\ q.nonce = e.nonce

\* Somebody will release the entry, or its port was given up.
Claimed(e) ==
    \/ e.port \in abandoned
    \/ held # NoMapping /\ Covers(held, e)
    \/ releasing # NoMapping /\ Covers(releasing, e)
    \/ task # NoTask /\ Makes(task, e)
    \/ \E i \in DOMAIN requests : Releases(requests[i], e)

AllClaimed == \A e \in table : Claimed(e)

\* Before any port is asked for, the gateway has none of this port.
AnyPort ==
    task.stage \in {"any", "any_added"} /\ task.port \notin abandoned =>
        \A e \in table : e.port = task.port =>
                            task.stage = "any_added" /\ e.ext = task.ext

Left == OneAnswer /\ OneOwner /\ AllClaimed /\ AnyPort
RInv == SInv /\ Left

\* A step that registers nothing: the gateway keeps no more than it had, the
\* attempt goes on, or is given up and perhaps another one started.
Recedes ==
    /\ supported' = supported /\ abandoned \subseteq abandoned'
    /\ replies' \subseteq replies
    /\ RequestsMove
    /\ \A f \in table' : \E e \in table : SameEntry(e, f)
    /\ \/ task # NoTask /\ SameTask(task, task')
       \/ /\ GivenUp(task) \subseteq abandoned'
          /\ task'.stage \in {"off", "map", "search", "extip"}
    /\ \A f \in table' : f.port \notin abandoned' =>
          /\ held # NoMapping /\ Covers(held, f) =>
                \/ held' # NoMapping /\ Covers(held', f)
                \/ releasing' # NoMapping /\ Covers(releasing', f)
          /\ releasing # NoMapping /\ Covers(releasing, f) =>
                \/ releasing' # NoMapping /\ Covers(releasing', f)
                \/ \E i \in DOMAIN requests' : Releases(requests'[i], f)

LEMMA RecedesLeft == ASSUME RInv, Recedes PROVE Left'
<1> USE DEF RInv, Left
<1>0. /\ \A e, f : SameEntry(e, f) =>
            /\ f.port = e.port /\ f.ext = e.ext /\ f.nonce = e.nonce
            /\ f.method = e.method /\ f.transport = e.transport
      /\ abandoned \subseteq abandoned' /\ replies' \subseteq replies
      /\ \A f \in table' : \E e \in table : SameEntry(e, f)
  BY DEF SameEntry, Recedes
\* The attempt of a port that is not given up goes on.
<1>1. ASSUME task # NoTask, task.port \notin abandoned'
      PROVE  SameTask(task, task')
  <2>1. task.port \in GivenUp(task)
    BY <1>1 DEF GivenUp, SInv, TInv, TaskOK
  <2> QED
    BY <1>1, <2>1 DEF Recedes
<1>2. \A q : Asked(q) /\ q.port \notin abandoned' => Asked(q)'
  <2> SUFFICES ASSUME NEW q, Asked(q), q.port \notin abandoned'
               PROVE  /\ task' # NoTask /\ task'.stage = "map"
                      /\ q.port = task'.port /\ q.nonce = task'.nonce
    BY DEF Asked
  <2>1. SameTask(task, task')
    BY <1>1 DEF Asked
  <2> QED
    BY <2>1 DEF Asked, SameTask
<1>3. OneAnswer'
  <2>1. ASSUME NEW r \in replies', r.kind = "map", r.port \notin abandoned'
        PROVE  /\ r \in replies /\ r.port \notin abandoned
               /\ Asked(r) /\ Asked(r)'
               /\ \A s \in replies' : s.kind = "map" /\ s.port = r.port => s = r
               /\ \A e \in table' : e.port = r.port => e.nonce = r.nonce
    <3>1. r \in replies /\ r.port \notin abandoned
      BY <1>0, <2>1
    <3>2. /\ Asked(r)
          /\ \A s \in replies : s.kind = "map" /\ s.port = r.port => s = r
          /\ \A e \in table : e.port = r.port => e.nonce = r.nonce
      BY <2>1, <3>1 DEF OneAnswer
    <3>3. Asked(r)'
      BY <1>2, <2>1, <3>2
    <3> QED
      BY <1>0, <3>1, <3>2, <3>3, SMT
  <2>2. ASSUME NEW i \in DOMAIN requests, requests[i].kind = "map",
               requests[i].port \notin abandoned'
        PROVE  /\ requests[i].port \notin abandoned
               /\ Asked(requests[i])
               /\ \A j \in DOMAIN requests :
                     requests[j].kind = "map" /\ requests[j].port = requests[i].port
                       => j = i
               /\ \A r \in replies' :
                     ~(r.kind = "map" /\ r.port = requests[i].port)
    <3>1. requests[i].port \notin abandoned
      BY <1>0, <2>2
    <3>2. /\ Asked(requests[i])
          /\ \A j \in DOMAIN requests :
                requests[j].kind = "map" /\ requests[j].port = requests[i].port
                  => j = i
          /\ \A r \in replies : ~(r.kind = "map" /\ r.port = requests[i].port)
      BY <2>2, <3>1 DEF OneAnswer
    <3> QED
      BY <1>0, <3>1, <3>2
  \* A request that is new is of an attempt in the place of one given up.
  <2>3. ASSUME NEW j \in DOMAIN requests' \ DOMAIN requests,
               requests'[j].kind = "map"
        PROVE  /\ GivenUp(task) \subseteq abandoned'
               /\ task' # NoTask /\ task'.stage = "map"
               /\ requests'[j].port = task'.port
               /\ requests'[j].nonce = task'.nonce
               /\ \A k \in DOMAIN requests' \ DOMAIN requests :
                     requests'[k].kind = "map" => k = j
    BY <2>3, SMT DEF Recedes, RequestsMove, ReleaseRequest, MapRequest, New
  <2>4. /\ DOMAIN requests \subseteq DOMAIN requests'
        /\ \A i \in DOMAIN requests : requests'[i] = requests[i]
    BY DEF Recedes, RequestsMove
  <2>5. \A q : Asked(q) /\ GivenUp(task) \subseteq abandoned'
                 => q.port \in abandoned'
    BY DEF Asked, GivenUp, SInv, TInv, TaskOK
  <2>6. ASSUME NEW i \in DOMAIN requests', requests'[i].kind = "map",
               requests'[i].port \notin abandoned'
        PROVE  /\ Asked(requests[i])'
               /\ \A j \in DOMAIN requests' :
                     requests'[j].kind = "map" /\ requests'[j].port = requests'[i].port
                       => j = i
               /\ \A r \in replies' :
                     ~(r.kind = "map" /\ r.port = requests'[i].port)
    <3>1. CASE i \in DOMAIN requests
      <4>1. requests'[i] = requests[i] /\ Asked(requests[i])
        BY <2>2, <2>4, <2>6, <3>1
      <4>2. ~(GivenUp(task) \subseteq abandoned')
        BY <2>5, <2>6, <4>1
      <4>3. \A j \in DOMAIN requests' : requests'[j].kind = "map"
              => j \in DOMAIN requests /\ requests'[j] = requests[j]
        BY <2>3, <2>4, <4>2
      <4>4. /\ task' # NoTask /\ task'.stage = "map"
            /\ requests'[i].port = task'.port /\ requests'[i].nonce = task'.nonce
        <5>1. SameTask(task, task')
          BY <1>1, <2>6, <4>1 DEF Asked
        <5> QED
          BY <4>1, <5>1 DEF Asked, SameTask
      <4> QED
        BY <2>2, <2>6, <3>1, <4>1, <4>3, <4>4, SMT DEF Asked
    <3>2. CASE i \notin DOMAIN requests
      <4>1. /\ GivenUp(task) \subseteq abandoned' /\ Asked(requests[i])'
            /\ \A k \in DOMAIN requests' \ DOMAIN requests :
                  requests'[k].kind = "map" => k = i
        BY <2>3, <2>6, <3>2 DEF Asked
      <4>2. \A r \in replies' : r.kind = "map" => r.port # requests'[i].port
        BY <2>1, <2>5, <2>6, <4>1
      <4>3. \A j \in DOMAIN requests :
               requests[j].kind = "map" => requests[j].port # requests'[i].port
        BY <2>2, <2>5, <2>6, <4>1
      <4> QED
        BY <2>4, <4>1, <4>2, <4>3
    <3> QED
      BY <3>1, <3>2
  <2> QED
    BY <2>1, <2>6 DEF OneAnswer
<1>4. OneOwner'
  BY <1>0, SMT DEF OneOwner
<1>5. AllClaimed'
  <2> SUFFICES ASSUME NEW f \in table', f.port \notin abandoned' PROVE Claimed(f)'
    BY DEF AllClaimed, Claimed
  <2>1. PICK e \in table : SameEntry(e, f)
    BY <1>0
  <2>2. Claimed(e) /\ e.port \notin abandoned
    BY <1>0, <2>1 DEF AllClaimed
  <2>3. CASE held # NoMapping /\ Covers(held, e)
    BY <1>0, <2>1, <2>3, SMT DEF Recedes, Covers, Claimed
  <2>4. CASE releasing # NoMapping /\ Covers(releasing, e)
    BY <1>0, <2>1, <2>4, SMT DEF Recedes, Covers, Claimed
  <2>5. CASE task # NoTask /\ Makes(task, e)
    <3>1. SameTask(task, task')
      BY <1>0, <1>1, <2>1, <2>5 DEF Makes
    <3>2. task' # NoTask /\ Makes(task', f)
      BY <1>0, <2>1, <2>5, <3>1, SMT DEF Makes, SameTask
    <3> QED
      BY <3>2 DEF Claimed
  <2>6. CASE \E i \in DOMAIN requests : Releases(requests[i], e)
    <3>1. PICK i \in DOMAIN requests : Releases(requests[i], e)
      BY <2>6
    <3>2. i \in DOMAIN requests' /\ requests'[i] = requests[i]
      BY DEF Recedes, RequestsMove
    <3>3. Releases(requests'[i], f)
      BY <1>0, <2>1, <3>1, <3>2, SMT DEF Releases
    <3> QED
      BY <3>2, <3>3 DEF Claimed
  <2> QED
    BY <2>2, <2>3, <2>4, <2>5, <2>6 DEF Claimed
<1>6. AnyPort'
  <2> SUFFICES ASSUME task'.stage \in {"any", "any_added"},
                      task'.port \notin abandoned',
                      NEW f \in table', f.port = task'.port
               PROVE  task'.stage = "any_added" /\ f.ext = task'.ext
    BY DEF AnyPort
  <2>1. SameTask(task, task')
    BY DEF Recedes
  <2>2. PICK e \in table : SameEntry(e, f)
    BY <1>0
  <2> QED
    BY <1>0, <2>1, <2>2, SMT DEF AnyPort, SameTask
<1> QED
  BY <1>3, <1>4, <1>5, <1>6

\* What the hypotheses say of this gateway.
LEMMA ThisGateway ==
    ASSUME TInv
    PROVE  /\ OneMethod => \A m, n \in supported : m = n
           /\ ReleaseFits => Transport = "udp" \/ "nat_pmp" \notin supported
           /\ DeliveredOnce => \/ Faults \cap {"lose", "duplicate"} = {}
                               \/ supported \subseteq {"upnp"}
BY DEF TInv, TypeOK, OneMethod, ReleaseFits, DeliveredOnce

\* The handlers of the service.
LEMMA ServiceRecedes ==
    ASSUME OneMethod, ReleaseFits, SInv, ServiceMoves PROVE Recedes
<1> USE DEF SInv
<1>0. /\ \A m, n \in supported : m = n
      /\ Transport = "udp" \/ "nat_pmp" \notin supported
  BY ThisGateway
<1>1. /\ supported' = supported /\ abandoned \subseteq abandoned'
      /\ replies' \subseteq replies /\ RequestsMove /\ table' \subseteq table
      /\ \A e : SameEntry(e, e)
  BY DEF ServiceMoves, SameEntry
<1>2. \/ task # NoTask /\ SameTask(task, task')
      \/ /\ GivenUp(task) \subseteq abandoned'
         /\ task'.stage \in {"off", "map", "search", "extip"}
  <2>0. NoTask.stage = "off" /\ GivenUp(NoTask) = {}
    BY DEF NoTask, GivenUp
  <2>1. CASE task' = task
    BY <2>0, <2>1 DEF SameTask
  <2>2. CASE task' # task
    <3>1. GivenUp(task) \subseteq abandoned'
      BY <2>2 DEF ServiceMoves, TaskMoves
    <3>2. task' # NoTask => task'.stage \in {"map", "search", "extip"}
      BY <2>2 DEF ServiceMoves, TaskMoves, New
    <3> QED
      BY <2>0, <3>1, <3>2
  <2> QED
    BY <2>1, <2>2
<1>3. ASSUME NEW f \in table', f.port \notin abandoned',
             held # NoMapping, Covers(held, f)
      PROVE  \/ held' # NoMapping /\ Covers(held', f)
             \/ releasing' # NoMapping /\ Covers(releasing', f)
  <2>1. held.port = f.port
    BY <1>3 DEF Covers
  <2>2. held' # NoMapping \/ releasing' = held
    BY <1>3, <2>1 DEF ServiceMoves, MappingMoves
  <2>3. held' # NoMapping => SameMapping(held, held')
    BY DEF ServiceMoves, MappingMoves
  <2> QED
    BY <1>3, <2>2, <2>3, SMT DEF SameMapping, Covers
<1>4. ASSUME NEW f \in table', f.port \notin abandoned',
             releasing # NoMapping, Covers(releasing, f)
      PROVE  \E i \in DOMAIN requests' : Releases(requests'[i], f)
  <2>1. /\ f.method \in supported /\ f.transport = Transport
        /\ releasing.method \in supported /\ releasing.port = f.port
    BY <1>1, <1>4 DEF OfMethod, Covers
  <2>2. CASE releasing.method = "upnp" /\ table' = Without(releasing.ext)
    BY <1>4, <2>1, <2>2 DEF Without, Covers
  <2>3. CASE /\ releasing.method # "upnp"
             /\ \E i \in DOMAIN requests' : requests'[i] = ReleaseRequest(releasing)
    <3>1. PICK i \in DOMAIN requests' : requests'[i] = ReleaseRequest(releasing)
      BY <2>3
    <3>2. releasing.nonce = f.nonce /\ releasing.method = f.method
      BY <1>0, <1>4, <2>1, <2>3 DEF Covers
    <3>3. releasing.method = "nat_pmp" => Transport = "udp"
      BY <1>0, <2>1
    <3>4. Releases(requests'[i], f)
      BY <2>1, <3>1, <3>2, <3>3, SMT DEF ReleaseRequest, Releases
    <3> QED
      BY <3>4
  <2> QED
    BY <1>4, <2>1, <2>2, <2>3 DEF ServiceMoves, MappingMoves
<1> QED
  BY <1>1, <1>2, <1>3, <1>4 DEF Recedes

\* The steps of the attempts, the network and the clock that register nothing.
LEMMA OthersRecede ==
    ASSUME SInv,
           \/ UNCHANGED vars
           \/ /\ Failed /\ replies' \subseteq replies
              /\ UNCHANGED <<port, held, releasing, requests, table,
                             supported, lease>>
           \/ \E r \in replies : LoseReply(r)
           \/ Reboot \/ Tick
    PROVE  Recedes
<1>0. /\ \A e : SameEntry(e, e)
      /\ task # NoTask => SameTask(task, task)
      /\ NoTask.stage = "off" /\ GivenUp(NoTask) = {}
  BY DEF SameEntry, SameTask, NoTask, GivenUp
<1>1. requests' = requests => RequestsMove
  BY DEF RequestsMove
<1>2. CASE UNCHANGED vars
  <2>1. UNCHANGED <<port, held, releasing, task, requests, replies, table,
                    supported, abandoned>>
    BY <1>2 DEF vars
  <2> QED
    BY <1>0, <1>1, <2>1 DEF Recedes
<1>3. CASE /\ Failed /\ replies' \subseteq replies
           /\ UNCHANGED <<port, held, releasing, requests, table,
                          supported, lease>>
  BY <1>0, <1>1, <1>3 DEF Recedes, Failed
<1>4. CASE \/ \E r \in replies : LoseReply(r)
           \/ Reboot
  <2>1. /\ UNCHANGED <<port, held, releasing, task, requests, supported, abandoned>>
        /\ replies' \subseteq replies /\ table' \subseteq table
    BY <1>4 DEF LoseReply, Reboot, gateway
  <2> QED
    BY <1>0, <1>1, <2>1 DEF Recedes
<1>5. CASE Tick
  <2>1. TickMoves
    BY <1>5, TickSummary DEF SInv
  <2>2. \A f : /\ held # NoMapping /\ Covers(held, f)
                    => held' # NoMapping /\ Covers(held', f)
               /\ releasing' = releasing
    BY <2>1 DEF TickMoves, SameMapping, Covers
  <2>3. /\ requests' = requests /\ replies' = replies /\ supported' = supported
        /\ abandoned' = abandoned
        /\ \A f \in table' : \E e \in table : SameEntry(e, f)
        /\ task # NoTask => SameTask(task, task')
        /\ task = NoTask => task' = NoTask
    BY <2>1 DEF TickMoves
  <2> QED
    BY <1>0, <1>1, <2>2, <2>3 DEF Recedes
<1> QED
  BY <1>2, <1>3, <1>4, <1>5

\* An attempt succeeds: its mapping is all the gateway has of the port.
LEMMA AcceptLeft ==
    ASSUME RInv, task # NoTask, NEW ext, NEW half, Accept(ext, half),
           UNCHANGED <<releasing, requests, table>>, replies' \subseteq replies,
           \A i \in DOMAIN requests :
               requests[i].kind = "map" => requests[i].port \in abandoned,
           \A r \in replies' : r.kind = "map" => r.port \in abandoned,
           \A e \in table : e.port = task.port /\ e.port \notin abandoned =>
               IF task.method = "upnp" THEN e.ext = ext ELSE e.nonce = task.nonce
    PROVE  Left'
<1> USE DEF RInv, Left
<1>1. /\ held' # NoMapping /\ held'.method = task.method
      /\ held'.port = task.port /\ held'.nonce = task.nonce /\ held'.ext = ext
      /\ task' = NoTask /\ NoTask.stage = "off" /\ abandoned' = abandoned
      /\ releasing = NoMapping /\ (held # NoMapping => held.port = task.port)
  BY NoneTypes, SMT DEF Accept, NoTask, SInv, TInv, TaskOK, Service
<1>2. OneAnswer'
  BY <1>1 DEF OneAnswer
<1>3. OneOwner'
  BY DEF OneOwner
<1>4. AllClaimed'
  <2> SUFFICES ASSUME NEW e \in table, e.port \notin abandoned PROVE Claimed(e)'
    BY <1>1 DEF AllClaimed, Claimed
  <2>1. CASE e.port = task.port
    BY <1>1, <2>1 DEF Claimed, Covers
  <2>2. CASE e.port # task.port
    BY <1>1, <2>2 DEF AllClaimed, Claimed, Covers, Makes
  <2> QED
    BY <2>1, <2>2
<1>5. AnyPort'
  BY <1>1 DEF AnyPort
<1> QED
  BY <1>2, <1>3, <1>4, <1>5

\* Responses.
LEMMA ResponseLeft ==
    ASSUME OneMethod, DeliveredOnce, RInv, NEW r \in replies, ResponseMoves(r)
    PROVE  Left'
<1> USE DEF RInv, Left
<1>0. /\ task # NoTask /\ replies' \subseteq replies
      /\ UNCHANGED <<port, releasing, table, supported, lease>>
      /\ task.method \in supported
  BY DEF ResponseMoves, SInv, OfMethod
<1>1. CASE Failed /\ UNCHANGED <<held, requests>>
  BY <1>0, <1>1, OthersRecede, RecedesLeft
<1>2. task.method # "upnp" => replies' = replies \ {r}
  <2>1. task.method # "upnp" => "duplicate" \notin Faults
    BY <1>0, ThisGateway DEF SInv
  <2> QED
    BY <2>1 DEF ResponseMoves
<1>3. CASE /\ task.method = "pcp" /\ PcpMatches(r)
           /\ Accept(r.ext, r.lifetime \div 2) /\ requests' = requests
  <2>1. r.kind = "map" /\ r.nonce = task.nonce /\ r.port = task.port
    BY <1>3 DEF PcpMatches
  <2>2. \A i \in DOMAIN requests :
           requests[i].kind = "map" => requests[i].port \in abandoned
    BY <2>1, SMT DEF OneAnswer, Asked
  <2>3. \A s \in replies' : s.kind = "map" => s.port \in abandoned
    BY <1>2, <1>3, <2>1 DEF OneAnswer, Asked
  <2>4. \A e \in table : e.port = task.port /\ e.port \notin abandoned =>
           e.nonce = task.nonce
    BY <2>1 DEF OneAnswer
  <2> QED
    BY <1>0, <1>3, <2>2, <2>3, <2>4, AcceptLeft
<1>4. CASE /\ task.method = "nat_pmp" /\ task.stage = "addr" /\ r.kind = "addr"
           /\ Accept(task.ext, task.lifetime \div 2) /\ requests' = requests
  <2>1. \A i \in DOMAIN requests :
           requests[i].kind = "map" => requests[i].port \in abandoned
    BY <1>4 DEF OneAnswer, Asked
  <2>2. \A s \in replies' : s.kind = "map" => s.port \in abandoned
    BY <1>0, <1>4 DEF OneAnswer, Asked
  <2>3. \A e \in table : e.port = task.port /\ e.port \notin abandoned =>
           e.nonce = task.nonce
    <3>1. \A e \in table : e.method = "nat_pmp"
      BY <1>0, <1>4, ThisGateway DEF SInv, OfMethod
    <3> QED
      BY <1>4, <3>1 DEF SInv, NoNonces
  <2> QED
    BY <1>0, <1>4, <2>1, <2>2, <2>3, AcceptLeft
<1>5. CASE NatPmpMapped(r)
  <2>0. /\ task # NoTask /\ task.method = "nat_pmp" /\ task.stage = "map"
        /\ r.kind = "map" /\ r.port = task.port
        /\ task' # NoTask /\ task'.method = "nat_pmp" /\ task'.stage = "addr"
        /\ task'.port = task.port /\ task'.nonce = task.nonce
        /\ UNCHANGED <<held, releasing, table, abandoned>>
    BY <1>0, <1>5 DEF NatPmpMapped
  <2> DEFINE q == AddrRequest(task)
  <2>1. /\ q \in Request /\ requests' = Append(requests, q)
        /\ requests \in Seq(Request) /\ q.kind = "addr"
    BY <1>5 DEF NatPmpMapped, SInv, TInv, TypeOK, AddrRequest
  <2> HIDE DEF q
  <2>2. /\ \A i \in DOMAIN requests : i \in DOMAIN requests' /\ requests'[i] = requests[i]
        /\ \A j \in DOMAIN requests' : requests'[j].kind = "map"
             => j \in DOMAIN requests /\ requests'[j] = requests[j]
    BY <2>1, AppendAt, SMT
  <2>3. \A i \in DOMAIN requests' :
           requests'[i].kind = "map" => requests'[i].port \in abandoned
    BY <2>0, <2>2, SMT DEF OneAnswer, Asked
  <2>4. \A s \in replies' : s.kind = "map" => s.port \in abandoned
    BY <1>2, <2>0 DEF OneAnswer, Asked
  <2>5. OneAnswer'
    BY <2>0, <2>3, <2>4 DEF OneAnswer
  <2>6. OneOwner' /\ AnyPort'
    BY <2>0 DEF OneOwner, AnyPort
  <2>7. AllClaimed'
    <3> SUFFICES ASSUME NEW e \in table, e.port \notin abandoned
                 PROVE  Claimed(e)'
      BY <2>0 DEF AllClaimed, Claimed
    <3>1. CASE \E i \in DOMAIN requests : Releases(requests[i], e)
      BY <2>2, <3>1 DEF Claimed
    <3>2. CASE ~\E i \in DOMAIN requests : Releases(requests[i], e)
      BY <2>0, <3>2 DEF AllClaimed, Claimed, Makes
    <3> QED
      BY <3>1, <3>2
  <2> QED
    BY <2>5, <2>6, <2>7
<1> QED
  BY <1>1, <1>3, <1>4, <1>5 DEF ResponseMoves

\* With a UPnP gateway there are no datagrams, and before a port is added the
\* gateway has of the ports not given up what is held.
LEMMA UpnpClaims ==
    ASSUME OneMethod, RInv, task # NoTask, task.method = "upnp"
    PROVE  /\ DOMAIN requests = {} /\ releasing = NoMapping
           /\ \A r \in replies : r.kind = "map" => r.port \in abandoned
           /\ \A e \in table : /\ e.transport = Transport
                               /\ \/ e.port \in abandoned
                                  \/ /\ held # NoMapping /\ held.ext = e.ext
                                     /\ held.port = e.port /\ Covers(held, e)
                                     /\ task.wanted = e.ext /\ e.ext # None
                                  \/ /\ task.stage \in {"added", "any_added"}
                                     /\ Makes(task, e)
<1> USE DEF RInv, Left
<1>1. supported = {"upnp"}
  BY ThisGateway DEF SInv, OfMethod
<1>2. DOMAIN requests = {} /\ releasing = NoMapping
  BY <1>1, ZenonT(30) DEF SInv, OfMethod, Service
<1>3. \A r \in replies : r.kind = "map" => r.port \in abandoned
  BY DEF OneAnswer, Asked, SInv, Service, StageOf
<1>4. held # NoMapping => /\ held.method = "upnp" /\ held.ext # None
                          /\ task.wanted = held.ext
  BY <1>1 DEF SInv, OfMethod, Service, TInv, TypeOK
<1>5. \A e \in table : Claimed(e) /\ e.transport = Transport
  BY DEF AllClaimed, SInv, OfMethod
<1> QED
  BY <1>2, <1>3, <1>4, <1>5 DEF Claimed, Covers, Makes

LEMMA UpnpLeft == ASSUME OneMethod, RInv, SInv', UpnpMoves PROVE Left'
<1> USE DEF RInv, Left
<1>0. /\ task # NoTask /\ task.method = "upnp"
      /\ task' # NoTask /\ task'.method = "upnp" /\ task'.port = task.port
      /\ task'.wanted = task.wanted /\ abandoned \subseteq abandoned'
      /\ UNCHANGED <<held, releasing, requests, replies, supported>>
  BY DEF UpnpMoves, Staged
<1>1. /\ DOMAIN requests = {} /\ releasing = NoMapping
      /\ \A r \in replies : r.kind = "map" => r.port \in abandoned
  BY <1>0, UpnpClaims
<1>2. \A e \in table : /\ e.transport = Transport
                       /\ \/ e.port \in abandoned
                          \/ /\ held # NoMapping /\ held.ext = e.ext
                             /\ held.port = e.port /\ Covers(held, e)
                             /\ task.wanted = e.ext /\ e.ext # None
                          \/ /\ task.stage \in {"added", "any_added"}
                             /\ Makes(task, e)
  BY <1>0, UpnpClaims
<1>3. OneAnswer'
  BY <1>0, <1>1 DEF OneAnswer
<1>4. ASSUME NEW e, \/ e.port \in abandoned'
                    \/ held # NoMapping /\ Covers(held, e)
                    \/ Makes(task', e)
      PROVE  Claimed(e)'
  BY <1>0, <1>4 DEF Claimed
<1>5. \A e, f \in table' : e.port = f.port => e.nonce = f.nonce
  <2>1. supported' = {"upnp"}
    BY <1>0, ThisGateway DEF SInv, OfMethod
  <2> QED
    BY <2>1, SMT DEF SInv, OfMethod, NoNonces
<1>6. \A e, f \in table : e.ext = f.ext => e.port = f.port
  BY DEF OneOwner
<1>7. CASE task.stage = "search" /\ Staged({"extip"}) /\ table' = table
  <2>1. task'.stage = "extip"
    BY <1>7 DEF Staged
  <2>2. AllClaimed'
    BY <1>0, <1>2, <1>4, <1>7 DEF AllClaimed
  <2> QED
    BY <1>3, <1>5, <1>6, <1>7, <2>1, <2>2 DEF OneOwner, AnyPort
<1>8. CASE /\ task.stage = "extip" /\ table' = table
           /\ Staged(IF task.wanted # None THEN {"add"} ELSE {"any"})
  <2>1. task'.stage = "any" => task.wanted = None
    BY <1>8 DEF Staged
  <2>2. task'.stage # "any_added"
    BY <1>8 DEF Staged
  <2>3. AllClaimed'
    BY <1>0, <1>2, <1>4, <1>8 DEF AllClaimed
  <2>4. AnyPort'
    BY <1>0, <1>2, <1>8, <2>1, <2>2 DEF AnyPort
  <2> QED
    BY <1>3, <1>5, <1>6, <1>8, <2>3, <2>4 DEF OneOwner
<1>9. CASE /\ task.stage = "add" /\ Free(task.wanted, task.port)
           /\ Staged({"added"})
           /\ \E n : /\ Added(n, task.wanted)
                     /\ table' = Without(task.wanted) \cup {n}
  <2>1. PICK n : Added(n, task.wanted) /\ table' = Without(task.wanted) \cup {n}
    BY <1>9
  <2>2. \A e \in Without(task.wanted) : e \in table /\ e.ext # task.wanted
    BY <1>2 DEF Without
  <2>3. task'.stage = "added" /\ Makes(task', n) /\ n.ext = task.wanted
    BY <1>0, <1>9, <2>1 DEF Staged, Added, Makes
  <2>4. \A e, f \in table' : e.ext = f.ext => e.port = f.port
    BY <1>6, <2>1, <2>2, <2>3, SMT
  <2>5. AllClaimed'
    BY <1>0, <1>2, <1>4, <1>9, <2>1, <2>2, <2>3 DEF AllClaimed
  <2> QED
    BY <1>3, <1>5, <2>3, <2>4, <2>5 DEF OneOwner, AnyPort
<1>10. CASE /\ task.stage = "add" /\ ~Free(task.wanted, task.port)
            /\ Staged({"any"}) /\ table' = table
  <2>1. PICK f \in table : f.ext = task.wanted /\ f.port # task.port
    BY <1>10 DEF Free
  <2>2. \A e \in table : e.port = task.port => e.port \in abandoned
    BY <1>2, <1>6, <1>10, <2>1
  <2>3. AnyPort'
    BY <1>0, <1>10, <2>2 DEF AnyPort
  <2>4. AllClaimed'
    BY <1>0, <1>2, <1>4, <1>10 DEF AllClaimed
  <2> QED
    BY <1>3, <1>5, <1>6, <1>10, <2>3, <2>4 DEF OneOwner
<1>11. CASE /\ task.stage = "any" /\ abandoned' = abandoned
            /\ Staged({"any_added"})
            /\ \E n : /\ Added(n, task'.ext) /\ table' = table \cup {n}
                      /\ \A e \in table : e.ext # task'.ext \/ e.transport # Transport
  <2>1. PICK n : /\ Added(n, task'.ext) /\ table' = table \cup {n}
                 /\ \A e \in table : e.ext # task'.ext \/ e.transport # Transport
    BY <1>11
  <2>2. \A e \in table : e.ext # task'.ext
    BY <1>2, <2>1
  <2>3. task'.stage = "any_added" /\ Makes(task', n) /\ n.ext = task'.ext
    BY <1>0, <1>11, <2>1 DEF Staged, Added, Makes
  <2>4. \A e, f \in table' : e.ext = f.ext => e.port = f.port
    BY <1>6, <2>1, <2>2, <2>3, SMT
  <2>5. AllClaimed'
    BY <1>0, <1>2, <1>4, <1>11, <2>1, <2>3 DEF AllClaimed
  <2>6. AnyPort'
    BY <1>0, <1>11, <2>1, <2>3 DEF AnyPort
  <2> QED
    BY <1>3, <1>5, <2>4, <2>5, <2>6 DEF OneOwner
<1>12. CASE /\ task.stage = "added" /\ Staged({"any"})
            /\ table' = table /\ abandoned' = abandoned \cup {task.port}
  <2>1. AnyPort'
    BY <1>0, <1>12 DEF AnyPort
  <2>2. AllClaimed'
    BY <1>0, <1>2, <1>4, <1>12 DEF AllClaimed, Makes
  <2> QED
    BY <1>3, <1>5, <1>6, <1>12, <2>1, <2>2 DEF OneOwner
<1> QED
  BY <1>7, <1>8, <1>9, <1>10, <1>11, <1>12 DEF UpnpMoves

\* The answer to add_port or add_any_port arrives.
LEMMA UpnpAddedLeft ==
    ASSUME OneMethod, RInv, task.method = "upnp",
           \/ task.stage = "added" /\ Accept(task.wanted, Hour)
           \/ task.stage = "any_added" /\ Accept(task.ext, Hour),
           UNCHANGED <<port, releasing, requests, replies, table, supported, lease>>
    PROVE  Left'
<1>0. task # NoTask
  BY NoneTypes
<1>1. /\ DOMAIN requests = {}
      /\ \A r \in replies : r.kind = "map" => r.port \in abandoned
  BY <1>0, UpnpClaims
<1>2. \A e \in table : \/ e.port \in abandoned
                       \/ task.wanted = e.ext
                       \/ Makes(task, e)
  BY <1>0, UpnpClaims
<1>3. CASE task.stage = "added" /\ Accept(task.wanted, Hour)
  <2>1. \A e \in table : e.port = task.port /\ e.port \notin abandoned =>
           e.ext = task.wanted
    BY <1>2, <1>3 DEF Makes
  <2> QED
    BY <1>0, <1>1, <1>3, <2>1, AcceptLeft
<1>4. CASE task.stage = "any_added" /\ Accept(task.ext, Hour)
  <2>1. \A e \in table : e.port = task.port /\ e.port \notin abandoned =>
           e.ext = task.ext
    BY <1>4 DEF RInv, Left, AnyPort
  <2> QED
    BY <1>0, <1>1, <1>4, <2>1, AcceptLeft
<1> QED
  BY <1>3, <1>4

\* The gateway serves a request.
LEMMA ServeLeft ==
    ASSUME OneMethod, DeliveredOnce, RInv, NEW i \in DOMAIN requests, Serve(i)
    PROVE  Left'
<1> USE DEF RInv, Left
<1> DEFINE q == requests[i]
<1>0. TInv /\ requests \in Seq(Request) /\ q.method \in supported \ {"upnp"}
        /\ (q.kind = "map" => q.transport = Transport)
  BY DEF SInv, OfMethod, TInv, TypeOK
<1>1. /\ UNCHANGED <<port, held, releasing, task, supported, lease, abandoned>>
      /\ ServeMoves(q)
      /\ requests' = Others(i) \/ ("duplicate" \in Faults /\ requests' = requests)
  BY <1>0, ServeSummary
<1>2. "duplicate" \notin Faults /\ \A m \in supported : m = q.method
  BY <1>0, ThisGateway
<1>3. /\ \A j \in DOMAIN requests' :
            \E k \in DOMAIN requests \ {i} : requests'[j] = requests[k]
      /\ \A k \in DOMAIN requests \ {i} :
            \E j \in DOMAIN requests' : requests'[j] = requests[k]
      /\ \A j, l \in DOMAIN requests' : j # l =>
            \E k, m \in DOMAIN requests \ {i} :
               k # m /\ requests'[j] = requests[k] /\ requests'[l] = requests[m]
  <2> DEFINE left == Others(i)
  <2>1. /\ \A j \in DOMAIN left :
              \E k \in DOMAIN requests \ {i} : left[j] = requests[k]
        /\ \A k \in DOMAIN requests \ {i} :
              \E j \in DOMAIN left : left[j] = requests[k]
        /\ \A j, l \in DOMAIN left : j # l =>
              \E k, m \in DOMAIN requests \ {i} :
                 k # m /\ left[j] = requests[k] /\ left[l] = requests[m]
    BY <1>0, OthersAt, SMT
  <2>2. requests' = left
    BY <1>1, <1>2
  <2> HIDE DEF left
  <2> QED
    BY <2>1, <2>2, SMT
<1>4. \A e \in table : e.method = q.method /\ e.transport = Transport
  BY <1>2 DEF SInv, OfMethod
\* What the running attempt asks for.
<1>5. q.kind = "map" /\ q.port \notin abandoned =>
         /\ Asked(q)
         /\ \A j \in DOMAIN requests :
               requests[j].kind = "map" /\ requests[j].port = q.port => j = i
         /\ \A r \in replies : ~(r.kind = "map" /\ r.port = q.port)
  BY DEF OneAnswer
<1> HIDE DEF q
<1>6. ASSUME NEW n, q.kind = "map", Granted(q, n)
      PROVE  /\ \A f \in table' : f.port = q.port => f.nonce = q.nonce
             /\ \A f \in table : f.ext = n.ext => f.port = q.port
  <2>1. CASE Matching(q) = {} /\ n.ext \in Grantable(q)
    <3>1. \A f \in table : f.port # q.port
      BY <1>0, <1>4, <1>6, <2>1 DEF Matching
    <3>2. \A f \in table : f.ext # n.ext
      BY <1>0, <1>4, <1>6, <2>1 DEF Grantable
    <3> QED
      BY <1>6, <3>1, <3>2 DEF Granted
  <2>2. CASE \E e \in table : SameEntry(e, n)
    <3>1. PICK e \in table : e.port = n.port /\ e.ext = n.ext /\ e.nonce = n.nonce
      BY <2>2 DEF SameEntry
    <3>2. n.port = q.port /\ n.nonce = q.nonce /\ table' \subseteq table \cup {n}
      BY <1>6 DEF Granted
    <3> QED
      BY <3>1, <3>2, SMT DEF OneOwner
  <2> QED
    BY <1>6, <2>1, <2>2 DEF Granted
\* The new entry, if any, and the new response, if any, are for the request.
<1>7. /\ \A f \in table' \ table : q.kind = "map" /\ Granted(q, f)
      /\ \A r \in replies' : r.kind = "map" => \/ r \in replies
                                               \/ /\ q.kind = "map"
                                                  /\ r.port = q.port
                                                  /\ r.nonce = q.nonce
                                                  /\ \E n \in table' :
                                                       /\ Granted(q, n)
                                                       /\ r = Response(q, "map", n.ext)
  <2>1. ASSUME q.kind = "map", NEW n \in table', Granted(q, n)
        PROVE  /\ \A f \in table' : f \in table \/ f = n
               /\ \A r \in replies' : r \in replies \/ r = Response(q, "map", n.ext)
    BY <2>1 DEF Granted
  <2>2. \A x, k : /\ Response(q, k, x).port = q.port
                  /\ Response(q, k, x).nonce = q.nonce
                  /\ Response(q, k, x).kind = k
    BY DEF Response
  <2>3. CASE q.kind = "map" /\ \E n \in table' : Granted(q, n)
    <3>1. PICK n \in table' : Granted(q, n)
      BY <2>3
    <3> QED
      BY <2>1, <2>2, <2>3, <3>1, SMT
  <2>4. CASE Refuse(q)
    BY <2>2, <2>4, SMT DEF Refuse
  <2>5. CASE /\ table' \subseteq table
             /\ replies' = replies \/ replies' = replies \cup {Response(q, "addr", None)}
    BY <2>2, <2>5, SMT
  <2> QED
    BY <1>1, <2>3, <2>4, <2>5 DEF ServeMoves
<1>8. OneAnswer'
  <2>1. ASSUME NEW j \in DOMAIN requests', requests'[j].kind = "map",
               requests'[j].port \notin abandoned
        PROVE  /\ Asked(requests'[j])
               /\ \A l \in DOMAIN requests' :
                     requests'[l].kind = "map" /\ requests'[l].port = requests'[j].port
                       => l = j
               /\ \A r \in replies' :
                     ~(r.kind = "map" /\ r.port = requests'[j].port)
    <3>1. PICK k \in DOMAIN requests \ {i} : requests'[j] = requests[k]
      BY <1>3
    <3>2. /\ Asked(requests[k])
          /\ \A m \in DOMAIN requests :
                requests[m].kind = "map" /\ requests[m].port = requests[k].port
                  => m = k
          /\ \A r \in replies : ~(r.kind = "map" /\ r.port = requests[k].port)
      BY <2>1, <3>1 DEF OneAnswer
    <3>3. ~(q.kind = "map" /\ q.port = requests[k].port)
      BY <3>2 DEF q
    <3>4. \A l \in DOMAIN requests' :
             requests'[l].kind = "map" /\ requests'[l].port = requests'[j].port
               => l = j
      <4> SUFFICES ASSUME NEW l \in DOMAIN requests', l # j,
                          requests'[l].kind = "map",
                          requests'[l].port = requests'[j].port
                   PROVE  FALSE
        OBVIOUS
      <4>1. PICK a, b \in DOMAIN requests \ {i} :
               a # b /\ requests'[l] = requests[a] /\ requests'[j] = requests[b]
        BY <1>3
      <4> QED
        BY <2>1, <4>1 DEF OneAnswer
    <3> QED
      BY <1>7, <3>1, <3>2, <3>3, <3>4
  <2>2. ASSUME NEW r \in replies', r.kind = "map", r.port \notin abandoned
        PROVE  /\ Asked(r)
               /\ \A s \in replies' : s.kind = "map" /\ s.port = r.port => s = r
               /\ \A e \in table' : e.port = r.port => e.nonce = r.nonce
    <3>1. CASE r \in replies
      <4>1. /\ Asked(r)
            /\ \A s \in replies : s.kind = "map" /\ s.port = r.port => s = r
            /\ \A e \in table : e.port = r.port => e.nonce = r.nonce
        BY <2>2, <3>1 DEF OneAnswer
      <4>2. ~(q.kind = "map" /\ q.port = r.port)
        BY <1>5, <2>2, <3>1
      <4>3. \A e \in table' : e.port = r.port => e \in table
        BY <1>7, <4>2 DEF Granted
      <4> QED
        BY <1>7, <4>1, <4>2, <4>3
    <3>2. CASE r \notin replies
      <4>1. PICK n \in table' : /\ q.kind = "map" /\ r.port = q.port
                                /\ r.nonce = q.nonce /\ Granted(q, n)
        BY <1>7, <2>2, <3>2
      <4>2. Asked(r)
        BY <1>5, <2>2, <4>1 DEF Asked
      <4>3. replies' \subseteq replies \cup {Response(q, "map", n.ext)}
        BY <4>1 DEF Granted
      <4>4. \A s \in replies' : s.kind = "map" /\ s.port = r.port => s = r
        BY <1>5, <2>2, <3>2, <4>1, <4>3
      <4> QED
        BY <1>6, <4>1, <4>2, <4>4
    <3> QED
      BY <3>1, <3>2
  <2>3. \A x : Asked(x)' <=> /\ task # NoTask /\ task.stage = "map"
                             /\ x.port = task.port /\ x.nonce = task.nonce
    BY <1>1 DEF Asked
  <2> QED
    BY <1>1, <2>1, <2>2 DEF OneAnswer, Asked
<1>9. OneOwner'
  <2>1. CASE table' \subseteq table
    BY <2>1 DEF OneOwner
  <2>2. ASSUME NEW n \in table', q.kind = "map", Granted(q, n) PROVE OneOwner'
    <3>1. /\ \A f \in table' : f.port = q.port => f.nonce = q.nonce
          /\ \A f \in table : f.ext = n.ext => f.port = q.port
          /\ \A f \in table' : f \in table \/ f = n
          /\ n.port = q.port
      BY <1>6, <2>2 DEF Granted
    <3> QED
      BY <3>1, SMT DEF OneOwner
  <2> QED
    BY <1>7, <2>1, <2>2
<1>10. AllClaimed'
  <2> SUFFICES ASSUME NEW f \in table', f.port \notin abandoned PROVE Claimed(f)'
    BY <1>1 DEF AllClaimed, Claimed
  <2>1. CASE f \in table
    <3>1. Claimed(f)
      BY <2>1 DEF AllClaimed
    <3>2. CASE \E k \in DOMAIN requests : Releases(requests[k], f)
      <4>1. PICK k \in DOMAIN requests : Releases(requests[k], f)
        BY <3>2
      <4>2. k # i
        <5> SUFFICES ASSUME Releases(q, f) PROVE FALSE
          BY <4>1 DEF q
        <5>1. q.kind = "release" /\ f \in Matching(q) /\ f.nonce = q.nonce
          BY <2>1 DEF Releases, Matching
        <5>2. f \notin table'
          BY <1>1, <5>1 DEF ServeMoves
        <5> QED
          BY <5>2
      <4>3. \E j \in DOMAIN requests' : requests'[j] = requests[k]
        BY <1>3, <4>2
      <4> QED
        BY <4>1, <4>3 DEF Claimed
    <3>3. CASE ~\E k \in DOMAIN requests : Releases(requests[k], f)
      BY <1>1, <3>1, <3>3 DEF Claimed
    <3> QED
      BY <3>2, <3>3
  <2>2. CASE f \notin table
    <3>1. q.kind = "map" /\ f.port = q.port /\ f.nonce = q.nonce
      BY <1>7, <2>2 DEF Granted
    <3>2. Asked(q)
      BY <1>5, <3>1
    <3>3. task.method # "upnp"
      BY <3>2 DEF Asked, SInv, Service, StageOf
    <3>4. task # NoTask /\ Makes(task, f)
      BY <3>1, <3>2, <3>3 DEF Asked, Makes
    <3> QED
      BY <1>1, <3>4 DEF Claimed
  <2> QED
    BY <2>1, <2>2
<1>11. AnyPort'
  <2>1. task.stage \notin {"any", "any_added"}
    BY <1>0, <1>2, NoneTypes DEF SInv, Service, StageOf, OfMethod, NoTask
  <2> QED
    BY <1>1, <2>1 DEF AnyPort
<1> QED
  BY <1>8, <1>9, <1>10, <1>11

LEMMA InitR == Init => RInv
<1> SUFFICES ASSUME Init PROVE RInv
  OBVIOUS
<1>1. OneAnswer /\ OneOwner
  BY SMT DEF Init, OneAnswer, OneOwner
<1>2. AllClaimed /\ AnyPort
  BY DEF Init, AllClaimed, AnyPort
<1> QED
  BY <1>1, <1>2, InitS DEF RInv, Left

LEMMA StepR ==
    ASSUME OneMethod, ReleaseFits, DeliveredOnce, RInv, [Next]_vars
    PROVE  RInv'
<1>1. SInv /\ TInv /\ SInv'
  BY StepS DEF RInv, SInv
<1>2. Left'
  <2>1. CASE UNCHANGED vars
    BY <1>1, <2>1, OthersRecede, RecedesLeft
  <2>2. CASE Next
    <3>1. CASE ServiceAction
      BY <1>1, <3>1, ServiceSummary, ServiceRecedes, RecedesLeft
    <3>2. ASSUME NEW r \in replies, ResponseMoves(r) PROVE Left'
      BY <3>2, ResponseLeft
    <3>3. CASE /\ Failed
               /\ UNCHANGED <<port, held, releasing, requests, replies, table,
                              supported, lease>>
      BY <1>1, <3>3, OthersRecede, RecedesLeft
    <3>4. CASE UpnpMoves
      BY <1>1, <3>4, UpnpLeft
    <3>5. CASE /\ \/ task.stage = "added" /\ Accept(task.wanted, Hour)
                  \/ task.stage = "any_added" /\ Accept(task.ext, Hour)
               /\ task.method = "upnp"
               /\ UNCHANGED <<port, releasing, requests, replies, table,
                              supported, lease>>
      BY <3>5, UpnpAddedLeft
    <3>6. ASSUME NEW i \in DOMAIN requests, Serve(i) PROVE Left'
      BY <3>6, ServeLeft
    <3>7. ASSUME NEW i \in DOMAIN requests, LoseRequest(i) PROVE FALSE
      BY <1>1, <3>7, ThisGateway DEF LoseRequest, SInv, OfMethod
    <3>8. CASE \/ \E r \in replies : LoseReply(r)
               \/ Reboot \/ Tick
      BY <1>1, <3>8, OthersRecede, RecedesLeft
    <3> QED
      BY <1>1, <2>2, <3>1, <3>2, <3>3, <3>4, <3>5, <3>6, <3>7, <3>8, Steps, SMT
  <2> QED
    BY <2>1, <2>2
<1> QED
  BY <1>1, <1>2 DEF RInv

LEMMA ClaimedLeft == RInv => OnlyAbandonedLeft
<1> SUFFICES ASSUME RInv, NEW e \in table,
                    e.port \notin abandoned \cup {held.port, task.port, releasing.port}
             PROVE  \E i \in DOMAIN requests :
                       requests[i].kind = "release" /\ requests[i].port = e.port
  BY DEF OnlyAbandonedLeft
<1> QED
  BY DEF RInv, Left, AllClaimed, Claimed, Covers, Makes, Releases

\* Mapping::release and invalidate_mapping: whatever mapping the gateway has is
\* held, in the making, being released, or of a port whose attempt or mapping was
\* given up.  It holds with every delay and reordering of the datagrams, with
\* ports of sockets that are used again, with a gateway that restarts and with no
\* home router in sight, as long as each datagram arrives once; with UPnP
\* whatever fails.  A release takes with it all the gateway has of the port: no
\* earlier renewal or attempt left something behind.
THEOREM OnlyAbandonedIsLeft ==
    ASSUME OneMethod, ReleaseFits, DeliveredOnce
    PROVE  Spec => []OnlyAbandonedLeft
<1>1. Init => RInv
  BY InitR
<1>2. RInv /\ [Next]_vars => RInv'
  BY StepR
<1> QED
  BY <1>1, <1>2, ClaimedLeft, PTL DEF Spec
=============================================================================
