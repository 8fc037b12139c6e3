----------------------- MODULE MappingProtocolsProofs -----------------------
(***************************************************************************)
(* Theorems about the mapping protocols, for every set of ports, nonces    *)
(* and sockets, every lifetime and timeout and any number of datagrams.    *)
(***************************************************************************)
EXTENDS MappingProtocols, TLAPS

-----------------------------------------------------------------------------
(* Datagrams on their way.                                                 *)

\* A datagram that leaves the sequence leaves the others in it.
LEMMA OthersElements ==
    ASSUME requests \in Seq(Request), NEW i \in 1..Len(requests)
    PROVE  /\ Others(i) \in Seq(Request)
           /\ Len(Others(i)) <= Len(requests)
           /\ \A j \in DOMAIN Others(i) :
                 \E k \in DOMAIN requests : Others(i)[j] = requests[k]
<1> DEFINE n == Len(requests)
           at(j) == IF j < i THEN j ELSE j + 1
<1>1. n \in Nat /\ n - 1 \in Nat /\ n - 1 <= n /\ DOMAIN requests = 1..n
        /\ \A k \in 1..n : requests[k] \in Request
  OBVIOUS
<1>2. \A j \in 1..(n - 1) : at(j) \in 1..n
  BY <1>1
<1>3. Others(i) = [j \in 1..(n - 1) |-> requests[at(j)]]
  BY DEF Others
<1> HIDE DEF n, at
<1>4. Others(i) \in [1..(n - 1) -> Request]
  BY <1>1, <1>2, <1>3
<1>5. Others(i) \in Seq(Request) /\ Len(Others(i)) = n - 1
  BY <1>1, <1>4
<1>6. \A j \in DOMAIN Others(i) :
         \E k \in DOMAIN requests : Others(i)[j] = requests[k]
  BY <1>1, <1>2, <1>3
<1> QED
  BY <1>1, <1>5, <1>6 DEF n

-----------------------------------------------------------------------------
(* Types.                                                                  *)

LEMMA NoneTypes ==
    /\ NoMapping \in Mapping /\ NoTask \in Task
    /\ NoMapping.method = "none" /\ NoTask.method = "none"
BY DEF NoMapping, NoTask, Mapping, Task, Option, Stages

\* What an attempt knows at each of its awaits.
TaskOK ==
    /\ task # NoTask => task.port \in Ports /\ task.method # "none"
    /\ task.stage \in {"add", "added"} => task.wanted \in Exts
    /\ task.stage \in {"any_added", "addr"} => task.ext \in Exts

\* What a datagram says.
MessagesOK ==
    /\ \A i \in DOMAIN requests :
          requests[i].kind \in {"map", "release"} => requests[i].port \in Ports
    /\ \A r \in replies : r.kind = "map" => r.ext \in Exts

TInv == TypeOK /\ TaskOK /\ MessagesOK

\* The attempts of get_mapping.
LEMMA AttemptTypes ==
    ASSUME TInv, NEW p \in Ports, NEW wanted \in Option(Exts),
           NEW t \in Attempts(p, wanted)
    PROVE  /\ t \in Task /\ t.port = p /\ t.method \in supported
           /\ t.method = "pcp" =>
                 /\ t.stage = "map" /\ t.nonce \in FreshNonces
                 /\ t.wait = Timeout
           /\ t.method # "upnp" => /\ MapRequest(t) \in Request
                                  /\ t.stage = "map"
           /\ t.stage \notin {"add", "added", "any_added", "addr"}
<1>1. supported \subseteq Methods
  BY ConstantsAssumption DEF TInv, TypeOK
<1>2. PICK m \in supported :
         t \in CASE m = "pcp" -> NewPcp(p, wanted)
                [] m = "nat_pmp" -> NewNatPmp(p, wanted)
                [] m = "upnp" -> NewUpnp(p, wanted)
  BY Zenon DEF Attempts
<1>3. CASE m = "pcp"
  <2>0. t \in NewPcp(p, wanted)
    BY <1>2, <1>3
  <2>1. PICK sn \in FreeSocks \X FreshNonces :
          t = [NoTask EXCEPT !.method = "pcp", !.stage = "map", !.port = p,
                    !.wanted = wanted, !.sock = sn[1], !.nonce = sn[2],
                    !.wait = Timeout]
    BY <2>0, Zenon DEF NewPcp
  <2> USE ConstantsAssumption DEF Task, NoTask, Option, Stages, Methods
  <2>2. sn[1] \in Socks /\ sn[2] \in Nonces /\ sn[2] \in FreshNonces
    BY DEF FreeSocks, FreshNonces
  <2>3. /\ t \in Task /\ t.port = p /\ t.method = "pcp" /\ t.stage = "map"
        /\ t.nonce = sn[2] /\ t.wait = Timeout
    BY <2>1, <2>2
  <2> QED
    BY <1>3, <2>2, <2>3 DEF MapRequest, Request
<1> USE ConstantsAssumption DEF Task, NoTask, Option, Stages, Methods
<1>4. CASE m = "nat_pmp"
  <2>0. t \in NewNatPmp(p, wanted)
    BY <1>2, <1>4
  <2>1. PICK sk \in FreeSocks :
          t = [NoTask EXCEPT !.method = "nat_pmp", !.stage = "map", !.port = p,
                    !.wanted = wanted, !.sock = sk, !.wait = Timeout]
    BY <2>0, Zenon DEF NewNatPmp
  <2>2. sk \in Socks
    BY DEF FreeSocks
  <2>3. t \in Task /\ t.port = p /\ t.method = "nat_pmp" /\ t.stage = "map"
    BY <2>1, <2>2, Zenon
  <2> QED
    BY <1>4, <2>3 DEF MapRequest, Request
<1>5. CASE m = "upnp"
  <2>1. PICK st \in {"search", "extip"} :
          t = [NoTask EXCEPT !.method = "upnp", !.stage = st, !.port = p,
                    !.wanted = wanted]
    BY <1>2, <1>5 DEF NewUpnp
  <2>2. /\ t \in Task /\ t.port = p /\ t.method = "upnp"
        /\ t.stage \in {"search", "extip"}
    BY <2>1, Zenon
  <2> QED
    BY <1>5, <2>2
<1> QED
  BY <1>1, <1>3, <1>4, <1>5

\* get_mapping, whatever it is given.
LEMMA GetMappingTypes ==
    ASSUME TInv, NEW p \in Option(Ports), NEW wanted \in Option(Exts),
           NEW old \in {task, NoTask}, NEW sent \in Seq(Request),
           Len(sent) <= MaxRequests, NEW gone \in SUBSET Ports,
           \A i \in DOMAIN sent :
               sent[i].kind \in {"map", "release"} => sent[i].port \in Ports,
           GetMapping(p, wanted, old, sent, gone)
    PROVE  /\ task' \in Task
           /\ task' # NoTask => task'.port \in Ports /\ task'.method # "none"
           /\ task'.stage \in {"add", "added"} => task'.wanted \in Exts
           /\ task'.stage \in {"any_added", "addr"} => task'.ext \in Exts
           /\ requests' \in Seq(Request) /\ Len(requests') <= MaxRequests
           /\ \A i \in DOMAIN requests' : requests'[i].kind \in {"map", "release"}
                 => requests'[i].port \in Ports
           /\ abandoned' \subseteq Ports
<1>1. CASE task' = old /\ requests' = sent /\ abandoned' = abandoned \cup gone
  BY <1>1, NoneTypes DEF TInv, TypeOK, TaskOK, NoTask
<1>2. CASE /\ p # None
           /\ Len(sent) < MaxRequests
           /\ \E t \in Attempts(p, wanted) :
                 /\ task' = t
                 /\ requests' = IF t.method = "upnp" THEN sent
                                ELSE Append(sent, MapRequest(t))
           /\ abandoned' = abandoned \cup gone \cup GivenUp(old)
  <2>1. PICK t \in Attempts(p, wanted) :
           /\ task' = t
           /\ requests' = IF t.method = "upnp" THEN sent
                                               ELSE Append(sent, MapRequest(t))
    BY <1>2
  <2>2. p \in Ports
    BY <1>2 DEF Option
  <2>3. supported \subseteq Methods
    BY ConstantsAssumption DEF TInv, TypeOK
  <2>4. /\ task' \in Task /\ task'.port \in Ports /\ task'.method # "none"
        /\ task'.stage \notin {"add", "added", "any_added", "addr"}
    BY <2>1, <2>2, <2>3, AttemptTypes DEF Methods
  <2>5. abandoned' \subseteq Ports
    BY <1>2 DEF GivenUp, TInv, TypeOK, TaskOK, NoTask
  <2>6. CASE t.method = "upnp"
    BY <2>1, <2>4, <2>5, <2>6
  <2>7. CASE t.method # "upnp"
    <3>1. MapRequest(t) \in Request /\ MapRequest(t).port \in Ports
      BY <2>2, <2>7, AttemptTypes DEF MapRequest
    <3>2. requests' = Append(sent, MapRequest(t))
      BY <2>1, <2>7
    <3>3. requests' \in Seq(Request) /\ Len(requests') <= MaxRequests
      BY <1>2, <3>1, <3>2, ConstantsAssumption
    <3>4. \A i \in DOMAIN requests' : requests'[i].kind \in {"map", "release"}
             => requests'[i].port \in Ports
      BY <3>1, <3>2
    <3> QED
      BY <2>4, <2>5, <3>3, <3>4
  <2> QED
    BY <2>6, <2>7
<1> QED
  BY <1>1, <1>2 DEF GetMapping

LEMMA InitTypes == Init => TInv
<1> SUFFICES ASSUME Init PROVE TInv
  OBVIOUS
<1>1. TypeOK
  BY NoneTypes, ConstantsAssumption DEF Init, TypeOK, Option
<1>2. TaskOK /\ MessagesOK
  BY DEF Init, TaskOK, MessagesOK, NoTask
<1> QED
  BY <1>1, <1>2 DEF TInv

\* Accept makes a mapping of the attempt.
LEMMA AcceptTypes ==
    ASSUME TInv, task # NoTask, NEW ext \in Exts, NEW half \in Nat,
           Accept(ext, half)
    PROVE  /\ held' \in Mapping /\ None \notin {held'.port, held'.ext}
           /\ held'.method # "none" /\ task' = NoTask
           /\ abandoned' = abandoned
BY ConstantsAssumption
   DEF Accept, TInv, TypeOK, TaskOK, Mapping, Task, Option

LEMMA FailedTypes ==
    ASSUME TInv, Failed
    PROVE  task' = NoTask /\ abandoned' \subseteq Ports
BY DEF Failed, GivenUp, TInv, TypeOK, TaskOK, NoTask

\* Responses to an attempt.
LEMMA ResponseTypes ==
    ASSUME TInv, NEW r \in replies,
           PcpResponse(r) \/ NatPmpMapResponse(r) \/ NatPmpAddrResponse(r)
    PROVE  TInv'
<1>1. /\ replies' \subseteq replies
      /\ UNCHANGED <<port, releasing, table, supported, lease>>
  BY DEF PcpResponse, NatPmpMapResponse, NatPmpAddrResponse, Receives, gateway
<1>2. /\ r \in Reply /\ r.lifetime \in Nat /\ task # NoTask
      /\ r.kind = "map" => r.ext \in Exts
  BY NoneTypes DEF TInv, TypeOK, MessagesOK, Reply, PcpResponse,
     NatPmpMapResponse, NatPmpAddrResponse
<1>3. r.lifetime \div 2 \in Nat /\ task.lifetime \div 2 \in Nat
  <2>1. \A n \in Nat : n \div 2 \in Nat
    OBVIOUS
  <2>2. task.lifetime \in Nat
    BY DEF TInv, TypeOK, Task
  <2> QED
    BY <1>2, <2>1, <2>2
<1>4. CASE task' = NoTask /\ abandoned' \subseteq Ports /\ held' = held
           /\ requests' = requests
  BY <1>1, <1>4, NoneTypes
     DEF TInv, TypeOK, TaskOK, MessagesOK, NoTask
<1>5. CASE PcpMatches(r) /\ PcpResponse(r)
  <2>1. Accept(r.ext, r.lifetime \div 2) /\ r.ext \in Exts /\ requests' = requests
    BY <1>2, <1>5 DEF PcpResponse, PcpMatches
  <2>2. /\ held' \in Mapping /\ None \notin {held'.port, held'.ext}
        /\ held'.method # "none" /\ task' = NoTask /\ abandoned' = abandoned
    BY <1>2, <1>3, <2>1, AcceptTypes
  <2> QED
    BY <1>1, <2>1, <2>2, NoneTypes
       DEF TInv, TypeOK, TaskOK, MessagesOK, NoTask
<1>6. CASE r.kind = "addr" /\ r.method = "nat_pmp" /\ NatPmpAddrResponse(r)
  <2>1. Accept(task.ext, task.lifetime \div 2) /\ task.ext \in Exts
          /\ requests' = requests
    BY <1>6 DEF NatPmpAddrResponse, TInv, TaskOK
  <2>2. /\ held' \in Mapping /\ None \notin {held'.port, held'.ext}
        /\ held'.method # "none" /\ task' = NoTask /\ abandoned' = abandoned
    BY <1>2, <1>3, <2>1, AcceptTypes
  <2> QED
    BY <1>1, <2>1, <2>2, NoneTypes
       DEF TInv, TypeOK, TaskOK, MessagesOK, NoTask
<1>7. CASE NatPmpMatches(r) /\ NatPmpMapResponse(r)
  <2>1. /\ task' = [task EXCEPT !.stage = "addr", !.ext = r.ext,
                                !.lifetime = r.lifetime, !.wait = Timeout]
        /\ requests' = Append(requests, AddrRequest(task))
        /\ Len(requests) < MaxRequests
        /\ abandoned' = abandoned /\ held' = held /\ r.ext \in Exts
    BY <1>2, <1>7 DEF NatPmpMapResponse, NatPmpMatches
  <2>2. /\ task' \in Task /\ task'.stage = "addr" /\ task'.ext \in Exts
        /\ task'.port \in Ports /\ task'.method # "none"
    BY <1>2, <2>1, ConstantsAssumption, Zenon
       DEF TInv, TypeOK, TaskOK, Task, Stages, Option
  <2>3. AddrRequest(task) \in Request /\ AddrRequest(task).kind = "addr"
    BY <1>7, ConstantsAssumption
       DEF NatPmpMapResponse, AddrRequest, Request, TInv, TypeOK, Task, Option,
           Methods
  <2>4. requests' \in Seq(Request) /\ Len(requests') <= MaxRequests
    BY <2>1, <2>3, ConstantsAssumption DEF TInv, TypeOK
  <2>5. \A i \in DOMAIN requests' : requests'[i].kind \in {"map", "release"}
             => requests'[i].port \in Ports
    BY <2>1, <2>3 DEF TInv, TypeOK, MessagesOK
  <2> QED
    BY <1>1, <2>1, <2>2, <2>4, <2>5 DEF TInv, TypeOK, TaskOK, MessagesOK
<1>8. CASE Failed /\ held' = held /\ requests' = requests
  BY <1>4, <1>8, FailedTypes
<1> QED
  BY <1>5, <1>6, <1>7, <1>8
     DEF PcpResponse, NatPmpMapResponse, NatPmpAddrResponse

\* UPnP attempts, and attempts that end.
LEMMA AttemptStepTypes ==
    ASSUME TInv,
           \/ AttemptFails
           \/ UpnpSearched \/ UpnpExternalIp \/ UpnpAddPort \/ UpnpAddAnyPort
           \/ UpnpAdded \/ UpnpAddPortFails
    PROVE  TInv'
<1> USE NoneTypes
<1>1. CASE AttemptFails
  BY <1>1, FailedTypes
     DEF AttemptFails, TInv, TypeOK, TaskOK, MessagesOK, NoTask, gateway
<1>2. ASSUME NEW st \in Stages, task.stage # "off",
             st \notin {"addr", "any_added"},
             st \in {"add", "added"} => task.wanted \in Exts,
             task' = [task EXCEPT !.stage = st]
      PROVE  /\ task' \in Task
             /\ task'.port \in Ports /\ task'.method # "none"
             /\ task'.stage \in {"add", "added"} => task'.wanted \in Exts
             /\ task'.stage \notin {"any_added", "addr"}
  BY <1>2 DEF TInv, TypeOK, TaskOK, Task, NoTask
<1>3. ASSUME NEW ext \in Exts, task.method = "upnp"
      PROVE  UpnpEntry(ext) \in Entry
  BY <1>3, ConstantsAssumption
     DEF UpnpEntry, Entry, TInv, TaskOK, NoTask, Methods, Option
<1>4. \A ext : Without(ext) \subseteq table
  BY DEF Without
<1>5. CASE UpnpSearched
  <2>1. task' = [task EXCEPT !.stage = "extip"] /\ task.stage # "off"
    BY <1>5 DEF UpnpSearched, Upnp, GotoStage
  <2>2. /\ UNCHANGED <<port, held, releasing, requests, replies, table>>
        /\ UNCHANGED <<supported, lease, abandoned>>
    BY <1>5 DEF UpnpSearched, Upnp, GotoStage, gateway
  <2>3. /\ task' \in Task
        /\ task'.port \in Ports /\ task'.method # "none"
        /\ task'.stage \in {"add", "added"} => task'.wanted \in Exts
        /\ task'.stage \notin {"any_added", "addr"}
    BY <1>2, <2>1 DEF Stages
  <2> QED
    BY <2>2, <2>3 DEF TInv, TypeOK, TaskOK, MessagesOK
<1>6. CASE UpnpExternalIp
  <2> DEFINE st == IF task.wanted # None THEN "add" ELSE "any"
  <2>1. task' = [task EXCEPT !.stage = st] /\ task.stage # "off"
    BY <1>6 DEF UpnpExternalIp, Upnp, GotoStage
  <2>2. /\ UNCHANGED <<port, held, releasing, requests, replies, table>>
        /\ UNCHANGED <<supported, lease, abandoned>>
    BY <1>6 DEF UpnpExternalIp, Upnp, GotoStage, gateway
  <2>3. st \in {"add", "any"} /\ (st = "add" => task.wanted \in Exts)
    BY DEF TInv, TypeOK, Task, Option
  <2> HIDE DEF st
  <2>4. /\ task' \in Task
        /\ task'.port \in Ports /\ task'.method # "none"
        /\ task'.stage \in {"add", "added"} => task'.wanted \in Exts
        /\ task'.stage \notin {"any_added", "addr"}
    BY <1>2, <2>1, <2>3 DEF Stages
  <2> QED
    BY <2>2, <2>4 DEF TInv, TypeOK, TaskOK, MessagesOK
<1>7. CASE UpnpAddPort
  <2>1. /\ task.method = "upnp" /\ task.stage = "add"
        /\ UNCHANGED <<port, held, releasing, requests, replies>>
        /\ UNCHANGED <<supported, lease, abandoned>>
    BY <1>7 DEF UpnpAddPort, Upnp, GotoStage, gateway
  <2>2. PICK st \in {"added", "any"} : task' = [task EXCEPT !.stage = st]
    BY <1>7 DEF UpnpAddPort, GotoStage
  <2>3. task.wanted \in Exts
    BY <2>1 DEF TInv, TaskOK
  <2>4. /\ task' \in Task
        /\ task'.port \in Ports /\ task'.method # "none"
        /\ task'.stage \in {"add", "added"} => task'.wanted \in Exts
        /\ task'.stage \notin {"any_added", "addr"}
    BY <1>2, <2>1, <2>2, <2>3 DEF Stages
  <2>5. table' \subseteq Entry
    BY <1>3, <1>4, <1>7, <2>1, <2>3 DEF UpnpAddPort, TInv, TypeOK
  <2> QED
    BY <2>1, <2>4, <2>5 DEF TInv, TypeOK, TaskOK, MessagesOK
<1>8. CASE UpnpAddAnyPort
  <2>1. /\ task.method = "upnp" /\ task.stage = "any"
        /\ UNCHANGED <<port, held, releasing, requests, replies>>
        /\ UNCHANGED <<supported, lease>>
    BY <1>8, Zenon DEF UpnpAddAnyPort, Upnp, gateway
  <2>2. CASE table' = table /\ Failed
    BY <2>1, <2>2, FailedTypes DEF TInv, TypeOK, TaskOK, MessagesOK, NoTask
  <2>3. CASE \E ext \in Exts :
             /\ table' = table \cup {UpnpEntry(ext)}
             /\ task' = [task EXCEPT !.stage = "any_added", !.ext = ext]
             /\ abandoned' = abandoned
    <3>1. PICK ext \in Exts :
             /\ table' = table \cup {UpnpEntry(ext)}
             /\ task' = [task EXCEPT !.stage = "any_added", !.ext = ext]
             /\ abandoned' = abandoned
      BY <2>3
    <3>2. /\ task' \in Task /\ task'.ext \in Exts
          /\ task'.port \in Ports /\ task'.method # "none"
          /\ task'.stage = "any_added"
      BY <2>1, <3>1, Zenon DEF TInv, TypeOK, TaskOK, Task, NoTask, Stages, Option
    <3>3. table' \subseteq Entry
      BY <1>3, <2>1, <3>1 DEF TInv, TypeOK
    <3> QED
      BY <2>1, <3>1, <3>2, <3>3 DEF TInv, TypeOK, TaskOK, MessagesOK
  <2> QED
    BY <1>8, <2>2, <2>3, Zenon DEF UpnpAddAnyPort
<1>9. CASE UpnpAdded
  <2>1. PICK ext \in Exts : Accept(ext, Hour)
    BY <1>9 DEF UpnpAdded, Upnp, TInv, TaskOK
  <2>2. /\ task # NoTask
        /\ UNCHANGED <<port, releasing, requests, replies, table>>
        /\ UNCHANGED <<supported, lease>>
    BY <1>9 DEF UpnpAdded, Upnp, gateway
  <2>3. /\ held' \in Mapping /\ None \notin {held'.port, held'.ext}
        /\ held'.method # "none" /\ task' = NoTask /\ abandoned' = abandoned
    BY <2>1, <2>2, AcceptTypes, ConstantsAssumption
  <2> QED
    BY <2>2, <2>3 DEF TInv, TypeOK, TaskOK, MessagesOK, NoTask
<1>10. CASE UpnpAddPortFails
  <2>1. task' = [task EXCEPT !.stage = "any"] /\ task.stage # "off"
    BY <1>10 DEF UpnpAddPortFails, Upnp
  <2>2. /\ UNCHANGED <<port, held, releasing, requests, replies, table>>
        /\ UNCHANGED <<supported, lease>>
        /\ abandoned' = abandoned \cup {task.port}
    BY <1>10 DEF UpnpAddPortFails, Upnp, gateway
  <2>3. /\ task' \in Task
        /\ task'.port \in Ports /\ task'.method # "none"
        /\ task'.stage \in {"add", "added"} => task'.wanted \in Exts
        /\ task'.stage \notin {"any_added", "addr"}
    BY <1>2, <2>1 DEF Stages
  <2>4. task.port \in Ports
    BY <2>1 DEF TInv, TaskOK, NoTask
  <2> QED
    BY <2>2, <2>3, <2>4 DEF TInv, TypeOK, TaskOK, MessagesOK
<1> QED
  BY <1>1, <1>5, <1>6, <1>7, <1>8, <1>9, <1>10

\* The service's handlers.
LEMMA ServiceStepTypes ==
    ASSUME TInv,
           \/ \E p \in Option(Ports) : UpdateLocalPort(p)
           \/ Release \/ ReleaseFails \/ ProcureMapping \/ MappingEvent
           \/ DropClient
    PROVE  TInv'
<1> USE NoneTypes
<1>0. /\ requests \in Seq(Request) /\ Len(requests) <= MaxRequests
      /\ \A i \in DOMAIN requests :
            requests[i].kind \in {"map", "release"} => requests[i].port \in Ports
      /\ None \in Option(Exts) /\ held.ext \in Option(Exts)
      /\ releasing.ext \in Option(Exts) /\ port \in Option(Ports)
      /\ GivenUp(held) \in SUBSET Ports /\ GivenUp(releasing) \in SUBSET Ports
      /\ GivenUp(task) \in SUBSET Ports /\ {} \in SUBSET Ports
  BY DEF TInv, TypeOK, TaskOK, MessagesOK, Mapping, GivenUp, Option
<1> DEFINE Got == /\ task' \in Task
                  /\ task' # NoTask => task'.port \in Ports
                                          /\ task'.method # "none"
                  /\ task'.stage \in {"add", "added"} => task'.wanted \in Exts
                  /\ task'.stage \in {"any_added", "addr"} => task'.ext \in Exts
                  /\ requests' \in Seq(Request) /\ Len(requests') <= MaxRequests
                  /\ \A i \in DOMAIN requests' :
                        requests'[i].kind \in {"map", "release"}
                          => requests'[i].port \in Ports
                  /\ abandoned' \subseteq Ports
<1>1. ASSUME NEW p \in Option(Ports), UpdateLocalPort(p)
      PROVE  TInv'
  <2>1. CASE held.method # "none"
    <3>1. /\ port' = p /\ releasing' = held /\ held' = NoMapping /\ task' = NoTask
          /\ abandoned' = abandoned \cup GivenUp(task) /\ requests' = requests
          /\ UNCHANGED <<replies, table, supported, lease>>
      BY <1>1, <2>1 DEF UpdateLocalPort, gateway
    <3> QED
      BY <1>0, <3>1 DEF TInv, TypeOK, TaskOK, MessagesOK, NoTask
  <2>2. CASE held.method = "none"
    <3>1. /\ GetMapping(p, None, NoTask, requests, GivenUp(task))
          /\ UNCHANGED <<held, releasing, replies, table, supported, lease>>
          /\ port' = p
      BY <1>1, <2>2 DEF UpdateLocalPort, gateway
    <3>2. Got
      BY <1>0, <3>1, GetMappingTypes
    <3> QED
      BY <3>1, <3>2 DEF TInv, TypeOK, TaskOK, MessagesOK
  <2> QED
    BY <2>1, <2>2
<1>2. CASE Release
  <2>0. /\ releasing' = NoMapping /\ table' \subseteq table
        /\ UNCHANGED <<port, held, replies, supported, lease>>
    BY <1>2 DEF Release, Without, gateway
  <2>1. CASE releasing.method = "upnp"
    <3>1. GetMapping(port, releasing.ext, task, requests, {})
      BY <1>2, <2>1 DEF Release
    <3>2. Got
      BY <1>0, <3>1, GetMappingTypes
    <3> QED
      BY <2>0, <3>2 DEF TInv, TypeOK, TaskOK, MessagesOK
  <2>2. CASE releasing.method # "upnp"
    <3> DEFINE q == ReleaseRequest(releasing)
               sent == Append(requests, q)
    <3>1. GetMapping(port, releasing.ext, task, sent, {})
            /\ Len(requests) < MaxRequests
      BY <1>2, <2>2 DEF Release
    <3>2. q \in Request /\ q.port \in Ports
      BY <1>2, ConstantsAssumption
         DEF Release, ReleaseRequest, Request, TInv, TypeOK, Mapping, Option,
             Transports
    <3> HIDE DEF q
    <3>3. /\ sent \in Seq(Request) /\ Len(sent) <= MaxRequests
          /\ \A i \in DOMAIN sent :
                sent[i].kind \in {"map", "release"} => sent[i].port \in Ports
      <4>1. requests \in Seq(Request) /\ Len(requests) \in Nat /\ MaxRequests \in Nat
        BY <1>0, ConstantsAssumption
      <4>2. sent \in Seq(Request) /\ Len(sent) = Len(requests) + 1
        BY <3>2, <4>1
      <4>3. Len(sent) <= MaxRequests
        BY <3>1, <4>1, <4>2
      <4>4. \A i \in DOMAIN sent :
              sent[i].kind \in {"map", "release"} => sent[i].port \in Ports
        BY <1>0, <3>2, <4>1
      <4> QED
        BY <4>2, <4>3, <4>4
    <3> HIDE DEF sent
    <3>4. Got
      BY <1>0, <3>1, <3>3, GetMappingTypes
    <3> QED
      BY <2>0, <3>4 DEF TInv, TypeOK, TaskOK, MessagesOK
  <2> QED
    BY <2>1, <2>2
<1>3. CASE ReleaseFails
  <2>1. /\ GetMapping(port, releasing.ext, task, requests, GivenUp(releasing))
        /\ releasing' = NoMapping
        /\ UNCHANGED <<port, held, replies, table, supported, lease>>
    BY <1>3 DEF ReleaseFails, gateway
  <2>2. Got
    BY <1>0, <2>1, GetMappingTypes
  <2> QED
    BY <2>1, <2>2 DEF TInv, TypeOK, TaskOK, MessagesOK
<1>4. CASE ProcureMapping
  <2>1. /\ GetMapping(port, None, task, requests, {})
        /\ UNCHANGED <<port, held, releasing, replies, table, supported, lease>>
    BY <1>4 DEF ProcureMapping, gateway
  <2>2. Got
    BY <1>0, <2>1, GetMappingTypes
  <2> QED
    BY <2>1, <2>2 DEF TInv, TypeOK, TaskOK, MessagesOK
<1>5. CASE MappingEvent
  <2> DEFINE gone == IF held.expire_after THEN GivenUp(held) ELSE {}
  <2>1. /\ GetMapping(port, held.ext, task, requests, gone)
        /\ UNCHANGED <<port, releasing, replies, table, supported, lease>>
    BY <1>5 DEF MappingEvent, gateway
  <2>2. gone \in SUBSET Ports
    BY <1>0
  <2> HIDE DEF gone
  <2>3. Got
    BY <1>0, <2>1, <2>2, GetMappingTypes
  <2>4. /\ held' \in Mapping
        /\ held' # NoMapping => None \notin {held'.port, held'.ext}
                                  /\ held'.method # "none"
    BY <1>5, Zenon DEF MappingEvent, TInv, TypeOK, Mapping
  <2> QED
    BY <2>1, <2>3, <2>4 DEF TInv, TypeOK, TaskOK, MessagesOK
<1>6. CASE DropClient
  BY <1>0, <1>6
     DEF DropClient, TInv, TypeOK, TaskOK, MessagesOK, NoTask, gateway, Option
<1> QED
  BY <1>1, <1>2, <1>3, <1>4, <1>5, <1>6

\* The gateway, the network and the clock.
LEMMA GrantTypes ==
    ASSUME TInv, NEW i \in DOMAIN requests,
           requests[i].kind = "map", Grant(requests[i])
    PROVE  /\ table' \subseteq Entry /\ replies' \subseteq Reply
           /\ \A r \in replies' : r.kind = "map" => r.ext \in Exts
<1> DEFINE q == requests[i]
<1>1. q \in Request /\ q.port \in Ports /\ q.kind = "map"
  BY DEF TInv, TypeOK, MessagesOK
<1>2. lease \in Nat
  BY ConstantsAssumption DEF TInv, TypeOK
<1>3. Grant(q)
  OBVIOUS
<1> HIDE DEF q
<1>4. ASSUME NEW x \in Exts
      PROVE  Response(q, "map", x) \in Reply /\ Response(q, "map", x).ext \in Exts
  BY <1>1, <1>2 DEF Response, Reply, Request, Option
<1>5. CASE Matching(q) = {}
  <2>1. PICK x \in Grantable(q) :
            /\ table' = table \cup
                 {[method |-> q.method, transport |-> q.transport,
                   port |-> q.port, ext |-> x, nonce |-> q.nonce,
                   ttl |-> lease]}
            /\ replies' = replies \cup {Response(q, "map", x)}
    BY <1>3, <1>5 DEF Grant
  <2>2. x \in Exts
    BY DEF Grantable
  <2>3. [method |-> q.method, transport |-> q.transport, port |-> q.port,
         ext |-> x, nonce |-> q.nonce, ttl |-> lease] \in Entry
    BY <1>1, <1>2, <2>2 DEF Entry, Request
  <2> QED
    BY <1>4, <2>1, <2>2, <2>3 DEF TInv, TypeOK, MessagesOK
<1>6. CASE Matching(q) # {}
  <2>1. PICK e \in Matching(q) :
            /\ table' = (table \ {e}) \cup {[e EXCEPT !.ttl = lease]}
            /\ replies' = replies \cup {Response(q, "map", e.ext)}
    BY <1>3, <1>6 DEF Grant
  <2>2. e \in Entry /\ e.ext \in Exts /\ [e EXCEPT !.ttl = lease] \in Entry
    BY <1>2 DEF Matching, TInv, TypeOK, Entry
  <2> QED
    BY <1>4, <2>1, <2>2 DEF TInv, TypeOK, MessagesOK
<1> QED
  BY <1>5, <1>6

LEMMA ServeTypes ==
    ASSUME TInv, NEW i \in DOMAIN requests, Serve(i) \/ LoseRequest(i)
    PROVE  TInv'
<1>1. /\ i \in 1..Len(requests) /\ requests \in Seq(Request)
      /\ Len(requests) <= MaxRequests
      /\ requests[i] \in Request /\ lease \in Nat
  BY ConstantsAssumption DEF TInv, TypeOK
<1>2. /\ requests' \in Seq(Request) /\ Len(requests') <= MaxRequests
      /\ \A j \in DOMAIN requests' :
            requests'[j].kind \in {"map", "release"} => requests'[j].port \in Ports
  <2>1. CASE requests' = requests
    BY <1>1, <2>1 DEF TInv, MessagesOK
  <2>2. CASE requests' = Others(i)
    <3>1. /\ requests' \in Seq(Request) /\ Len(requests') <= Len(requests)
          /\ \A j \in DOMAIN requests' :
                \E k \in DOMAIN requests : requests'[j] = requests[k]
      <4> DEFINE left == Others(i)
      <4>1. /\ left \in Seq(Request) /\ Len(left) <= Len(requests)
            /\ \A j \in DOMAIN left :
                  \E k \in DOMAIN requests : left[j] = requests[k]
        BY <1>1, OthersElements
      <4> HIDE DEF left
      <4>2. requests' = left
        BY <2>2 DEF left
      <4> QED
        BY <4>1, <4>2
    <3>2. Len(requests') \in Nat /\ Len(requests) \in Nat
      BY <1>1, <3>1
    <3>3. Len(requests') <= MaxRequests
      BY <1>1, <3>1, <3>2, ConstantsAssumption
    <3> QED
      BY <3>1, <3>3 DEF TInv, MessagesOK
  <2> QED
    BY <2>1, <2>2 DEF Serve, LoseRequest
<1>3. /\ UNCHANGED <<port, held, releasing, task, supported, lease, abandoned>>
      /\ table' \subseteq Entry /\ replies' \subseteq Reply
      /\ \A r \in replies' : r.kind = "map" => r.ext \in Exts
  <2>0. UNCHANGED <<port, held, releasing, task, supported, lease, abandoned>>
    BY DEF Serve, LoseRequest, gateway
  <2>1. CASE LoseRequest(i)
    BY <2>0, <2>1 DEF LoseRequest, TInv, TypeOK, MessagesOK
  <2>2. CASE requests[i].kind = "map" /\ Grant(requests[i])
    BY <2>0, <2>2, GrantTypes
  <2>3. ASSUME NEW kind \in {"refused", "addr"}, table' \subseteq table,
               replies' = replies \cup {Response(requests[i], kind, None)}
        PROVE  /\ table' \subseteq Entry /\ replies' \subseteq Reply
               /\ \A r \in replies' : r.kind = "map" => r.ext \in Exts
    <3>1. /\ Response(requests[i], kind, None) \in Reply
          /\ Response(requests[i], kind, None).kind # "map"
      BY <1>1, <2>3 DEF Response, Reply, Request, Option
    <3> QED
      BY <2>3, <3>1 DEF TInv, TypeOK, MessagesOK
  <2>4. CASE table' \subseteq table /\ replies' = replies
    BY <2>0, <2>4 DEF TInv, TypeOK, MessagesOK
  <2>5. CASE Serve(i)
    <3>1. \/ requests[i].kind = "map" /\ Grant(requests[i])
          \/ \E kind \in {"refused", "addr"} :
                /\ table' \subseteq table
                /\ replies' = replies \cup {Response(requests[i], kind, None)}
          \/ table' \subseteq table /\ replies' = replies
      BY <2>5, Zenon DEF Serve, Refuse
    <3> QED
      BY <2>0, <2>2, <2>3, <2>4, <3>1, Zenon
  <2> QED
    BY <2>1, <2>5
<1> QED
  BY <1>2, <1>3 DEF TInv, TypeOK, TaskOK, MessagesOK

LEMMA TickTypes == ASSUME TInv, Tick PROVE TInv'
<1>1. /\ UNCHANGED <<port, releasing, requests, replies, supported, lease>>
      /\ abandoned' = abandoned
  BY DEF Tick, gateway
<1>2. /\ held' \in Mapping
      /\ held' # NoMapping => None \notin {held'.port, held'.ext}
                                /\ held'.method # "none"
  <2>1. CASE held.method = "none"
    BY <2>1 DEF Tick, TInv, TypeOK
  <2>2. CASE held.method # "none"
    <3>1. held.left \in Nat /\ held.left > 0 /\ held \in Mapping
            /\ held # NoMapping
      BY <2>2 DEF Tick, TInv, TypeOK, Mapping, NoMapping
    <3>2. held.left - 1 \in Nat
      BY <3>1
    <3>3. held' = [held EXCEPT !.left = held.left - 1]
      BY <2>2 DEF Tick
    <3> QED
      BY <3>1, <3>2, <3>3 DEF TInv, TypeOK, Mapping
  <2> QED
    BY <2>1, <2>2
<1>3. task' \in Task /\ TaskOK'
  <2>1. CASE task.stage \notin {"map", "addr"}
    BY <2>1 DEF Tick, TInv, TypeOK, TaskOK
  <2>2. CASE task.stage \in {"map", "addr"}
    <3>1. task.wait \in Nat /\ task.wait > 0 /\ task \in Task
      BY <2>2 DEF Tick, TInv, TypeOK, Task
    <3>2. task.wait - 1 \in Nat
      BY <3>1
    <3>3. task' = [task EXCEPT !.wait = task.wait - 1]
      BY <2>2 DEF Tick
    <3>4. task # NoTask
      BY <2>2 DEF NoTask
    <3> QED
      BY <3>1, <3>2, <3>3, <3>4 DEF TInv, TaskOK, Task
  <2> QED
    BY <2>1, <2>2
<1>4. table' \subseteq Entry
  <2> SUFFICES ASSUME NEW g \in table' PROVE g \in Entry
    OBVIOUS
  <2>1. PICK e \in {f \in table : f.ttl > 1} : g = [e EXCEPT !.ttl = @ - 1]
    BY Zenon DEF Tick
  <2>2. e \in Entry /\ e.ttl > 1 /\ e.ttl \in Nat
    BY <2>1 DEF TInv, TypeOK, Entry
  <2>3. e.ttl - 1 \in Nat
    BY <2>2
  <2> QED
    BY <2>1, <2>2, <2>3 DEF Entry
<1> QED
  BY <1>1, <1>2, <1>3, <1>4 DEF TInv, TypeOK, MessagesOK

LEMMA TypeStep == TInv /\ [Next]_vars => TInv'
<1> SUFFICES ASSUME TInv, [Next]_vars PROVE TInv'
  OBVIOUS
<1>1. CASE UNCHANGED vars
  BY <1>1 DEF vars, TInv, TypeOK, TaskOK, MessagesOK
<1>2. ASSUME NEW r \in replies,
             \/ PcpResponse(r) \/ NatPmpMapResponse(r) \/ NatPmpAddrResponse(r)
      PROVE  TInv'
  BY <1>2, ResponseTypes
<1>3. ASSUME NEW r \in replies, LoseReply(r) PROVE TInv'
  BY <1>3 DEF LoseReply, TInv, TypeOK, TaskOK, MessagesOK, gateway
<1>4. ASSUME NEW i \in DOMAIN requests, Serve(i) \/ LoseRequest(i) PROVE TInv'
  BY <1>4, ServeTypes
<1>5. CASE Reboot
  BY <1>5 DEF Reboot, TInv, TypeOK, TaskOK, MessagesOK, gateway
<1>6. CASE Tick
  BY <1>6, TickTypes
<1> QED
  BY <1>1, <1>2, <1>3, <1>4, <1>5, <1>6, AttemptStepTypes, ServiceStepTypes
     DEF Next

\* Every state of the protocols has values of the right types, for every mix of
\* the three methods and every fault of the network: what the service holds and
\* publishes always has a local port, an external port and a method.
THEOREM TypeCorrect == Spec => []TypeOK
<1>1. TInv => TypeOK
  BY DEF TInv
<1> QED
  BY <1>1, InitTypes, TypeStep, PTL DEF Spec

-----------------------------------------------------------------------------
(* PCP: the nonce ties a response, and a release, to one attempt.          *)

\* With a gateway that speaks PCP only, the service deals in PCP only, and a
\* release is awaited by a service that holds nothing and attempts nothing.
PcpService ==
    /\ supported = {"pcp"}
    /\ task # NoTask => /\ task.method = "pcp" /\ task.stage = "map"
                        /\ task.nonce \in Nonces /\ task.wait <= Timeout
    /\ held # NoMapping => /\ held.method = "pcp" /\ held.nonce \in Nonces
                           /\ held.half = lease \div 2 /\ held.left <= held.half
    /\ releasing # NoMapping => /\ releasing.method = "pcp"
                                /\ releasing.nonce \in Nonces
                                /\ held = NoMapping /\ task = NoTask

\* So do the network and the gateway, in one transport and with one lifetime.
PcpNetwork ==
    /\ \A i \in DOMAIN requests : /\ requests[i].method = "pcp"
                                  /\ requests[i].transport = Transport
                                  /\ requests[i].nonce \in Nonces
    /\ \A r \in replies : r.lifetime = lease
    /\ \A e \in table : e.method = "pcp" /\ e.transport = Transport

\* A nonce belongs to one attempt: whatever is asked for with the nonce of the
\* attempt, or of the mapping it became, is a mapping of its port.
Owner ==
    /\ held # NoMapping => held.nonce # task.nonce
    /\ \A i \in DOMAIN requests : \A t \in {task, held} :
          requests[i].nonce = t.nonce =>
             requests[i].kind # "release" /\ requests[i].port = t.port

\* The gateway has one mapping of a port.
OneEntry == \A e, f \in table : e.port = f.port => e = f

\* The gateway has a mapping of t's nonce and port that lasts for another n,
\* less the time a response may take.
Lasts(t, ext, n) ==
    \/ n <= Timeout
    \/ \E e \in table : /\ e.nonce = t.nonce /\ e.port = t.port /\ e.ext = ext
                        /\ e.ttl + Timeout >= n

\* A response to the attempt tells of such a mapping, and the mapping the
\* service holds is one.
Answered ==
    task # NoTask => \A r \in replies :
        r.kind = "map" /\ r.nonce = task.nonce =>
            Lasts(task, r.ext, lease + task.wait)

HeldLasts == held # NoMapping => Lasts(held, held.ext, Remaining)

PcpInv == /\ PcpService /\ PcpNetwork /\ Owner /\ OneEntry
          /\ Answered /\ HeldLasts

PInv == TInv /\ PcpInv

\* get_mapping has started a PCP attempt.
StartedPcp ==
    /\ task' # NoTask /\ task'.method = "pcp" /\ task'.stage = "map"
    /\ task'.nonce \in FreshNonces /\ task'.wait = Timeout

\* A step of the service or a loss: what is on its way to the gateway was so
\* before, or is the release of `releasing`, or the request of a new attempt.
ServiceStep ==
    /\ replies' \subseteq replies /\ UNCHANGED <<table, supported, lease>>
    /\ task' \in {task, NoTask} \/ StartedPcp
    /\ \A j \in DOMAIN requests' :
          \/ \E k \in DOMAIN requests : requests'[j] = requests[k]
          \/ releasing # NoMapping /\ requests'[j] = ReleaseRequest(releasing)
          \/ StartedPcp /\ requests'[j] = MapRequest(task')
    /\ \/ held' = NoMapping
       \/ /\ held # NoMapping
          /\ held'.method = held.method /\ held'.port = held.port
          /\ held'.ext = held.ext /\ held'.nonce = held.nonce
          /\ held'.half = held.half /\ held'.left <= held.half
          /\ Remaining' = Remaining
    /\ \/ releasing' = NoMapping
       \/ releasing' = held /\ held' = NoMapping /\ task' = NoTask
       \/ releasing' = releasing /\ held' = held /\ task' \in {task, NoTask}

LEMMA FreshNonce ==
    ASSUME NEW n \in FreshNonces
    PROVE  /\ n \in Nonces
           /\ n # held.nonce /\ n # releasing.nonce /\ n # task.nonce
           /\ \A i \in DOMAIN requests : requests[i].nonce # n
           /\ \A r \in replies : r.nonce # n
           /\ \A e \in table : e.nonce # n
BY DEF FreshNonces

LEMMA NoNonce == /\ None \notin Nonces
                 /\ NoTask.nonce = None /\ NoMapping.nonce = None
BY ConstantsAssumption DEF NoTask, NoMapping

LEMMA TimeoutNat == Timeout \in Nat
BY ConstantsAssumption

LEMMA ServiceStepPcp == ASSUME PInv, ServiceStep PROVE PcpInv'
<1> USE NoNonce
<1>1. ASSUME StartedPcp
      PROVE  /\ task'.nonce \in Nonces
             /\ task'.nonce # held.nonce /\ task'.nonce # releasing.nonce
             /\ \A i \in DOMAIN requests : requests[i].nonce # task'.nonce
             /\ \A r \in replies : r.nonce # task'.nonce
  BY <1>1, FreshNonce DEF StartedPcp
<1>2. ASSUME NEW j \in DOMAIN requests'
      PROVE  /\ requests'[j].method = "pcp" /\ requests'[j].transport = Transport
             /\ requests'[j].nonce \in Nonces
             /\ \A t \in {task', held'} : requests'[j].nonce = t.nonce =>
                   requests'[j].kind # "release" /\ requests'[j].port = t.port
  <2>1. CASE \E k \in DOMAIN requests : requests'[j] = requests[k]
    <3>1. PICK k \in DOMAIN requests : requests'[j] = requests[k]
      BY <2>1
    <3>2. /\ requests[k].method = "pcp" /\ requests[k].transport = Transport
          /\ requests[k].nonce \in Nonces
          /\ \A t \in {task, held} : requests[k].nonce = t.nonce =>
                requests[k].kind # "release" /\ requests[k].port = t.port
      BY DEF PInv, PcpInv, PcpNetwork, Owner
    <3>3. requests[k].nonce = task'.nonce => task' = task
      BY <1>1, <3>2 DEF ServiceStep
    <3>4. requests[k].nonce = held'.nonce =>
             held'.nonce = held.nonce /\ held'.port = held.port
      BY <3>2 DEF ServiceStep
    <3> QED
      BY <3>1, <3>2, <3>3, <3>4
  <2>2. CASE releasing # NoMapping /\ requests'[j] = ReleaseRequest(releasing)
    <3>1. /\ releasing.method = "pcp" /\ releasing.nonce \in Nonces
          /\ held = NoMapping /\ task = NoTask
      BY <2>2 DEF PInv, PcpInv, PcpService
    <3>2. /\ requests'[j].method = "pcp" /\ requests'[j].transport = Transport
          /\ requests'[j].nonce = releasing.nonce
      BY <2>2, <3>1 DEF ReleaseRequest
    <3>3. held' = NoMapping
      BY <3>1 DEF ServiceStep
    <3>4. task' = NoTask \/ task'.nonce # releasing.nonce
      BY <1>1, <3>1 DEF ServiceStep
    <3>5. \A t \in {task', held'} : t.nonce # requests'[j].nonce
      <4>1. NoTask.nonce # releasing.nonce /\ NoMapping.nonce # releasing.nonce
        BY <3>1
      <4> QED
        BY <3>2, <3>3, <3>4, <4>1, Zenon
    <3> QED
      BY <3>1, <3>2, <3>5, Zenon
  <2>3. CASE StartedPcp /\ requests'[j] = MapRequest(task')
    <3>1. /\ requests'[j].method = "pcp" /\ requests'[j].transport = Transport
          /\ requests'[j].nonce = task'.nonce /\ requests'[j].kind = "map"
          /\ requests'[j].port = task'.port
      <4>1. task'.method = "pcp" /\ requests'[j] = MapRequest(task')
        BY <2>3 DEF StartedPcp
      <4> QED
        BY <4>1 DEF MapRequest
    <3>2. held'.nonce # task'.nonce
      BY <1>1, <2>3 DEF ServiceStep
    <3> QED
      BY <1>1, <2>3, <3>1, <3>2
  <2> QED
    BY <2>1, <2>2, <2>3 DEF ServiceStep
<1>3. PcpService' /\ PcpNetwork'
  <2>1. task' # NoTask => /\ task'.method = "pcp" /\ task'.stage = "map"
                          /\ task'.nonce \in Nonces /\ task'.wait <= Timeout
    <3>1. CASE StartedPcp
      BY <1>1, <3>1, TimeoutNat DEF StartedPcp
    <3>2. CASE task' \in {task, NoTask}
      BY <3>2 DEF PInv, PcpInv, PcpService
    <3> QED
      BY <3>1, <3>2 DEF ServiceStep
  <2>2. held' # NoMapping => /\ held'.method = "pcp" /\ held'.nonce \in Nonces
                             /\ held'.half = lease' \div 2
                             /\ held'.left <= held'.half
    BY DEF ServiceStep, PInv, PcpInv, PcpService
  <2>3. releasing' # NoMapping => /\ releasing'.method = "pcp"
                                  /\ releasing'.nonce \in Nonces
                                  /\ held' = NoMapping /\ task' = NoTask
    BY DEF ServiceStep, PInv, PcpInv, PcpService
  <2>4. /\ supported' = {"pcp"}
        /\ \A r \in replies' : r.lifetime = lease'
        /\ \A e \in table' : e.method = "pcp" /\ e.transport = Transport
    BY DEF ServiceStep, PInv, PcpInv, PcpService, PcpNetwork
  <2> QED
    BY <1>2, <2>1, <2>2, <2>3, <2>4 DEF PcpService, PcpNetwork
<1>4. Owner'
  <2>1. held' # NoMapping => held'.nonce # task'.nonce
    <3> SUFFICES ASSUME held' # NoMapping PROVE held'.nonce # task'.nonce
      OBVIOUS
    <3>1. held # NoMapping /\ held'.nonce = held.nonce /\ held.nonce \in Nonces
      BY DEF ServiceStep, PInv, PcpInv, PcpService
    <3> QED
      BY <1>1, <3>1 DEF ServiceStep, PInv, PcpInv, Owner
  <2> QED
    BY <1>2, <2>1 DEF Owner
<1>5. OneEntry'
  BY DEF ServiceStep, PInv, PcpInv, OneEntry
<1>6. Answered'
  <2> SUFFICES ASSUME task' # NoTask, NEW r \in replies', r.kind = "map",
                      r.nonce = task'.nonce
               PROVE  Lasts(task, r.ext, lease + task.wait)'
    BY DEF Answered
  <2>1. task' = task /\ r \in replies
    BY <1>1 DEF ServiceStep
  <2>2. Lasts(task, r.ext, lease + task.wait)
    BY <2>1 DEF PInv, PcpInv, Answered
  <2> QED
    BY <2>1, <2>2 DEF ServiceStep, Lasts
<1>7. HeldLasts'
  <2> SUFFICES ASSUME held' # NoMapping
               PROVE  Lasts(held, held.ext, Remaining)'
    BY DEF HeldLasts
  <2>1. Lasts(held, held.ext, Remaining)
    BY DEF ServiceStep, PInv, PcpInv, HeldLasts
  <2>2. /\ held'.port = held.port /\ held'.ext = held.ext
        /\ held'.nonce = held.nonce /\ Remaining' = Remaining /\ table' = table
    BY DEF ServiceStep
  <2> HIDE DEF Remaining
  <2> QED
    BY <2>1, <2>2 DEF Lasts
<1> QED
  BY <1>3, <1>4, <1>5, <1>6, <1>7, Zenon DEF PcpInv

LEMMA AppendElements ==
    ASSUME NEW s \in Seq(Request), NEW x \in Request
    PROVE  /\ Append(s, x) \in Seq(Request)
           /\ \A j \in DOMAIN Append(s, x) :
                 \/ Append(s, x)[j] = x
                 \/ \E k \in DOMAIN s : Append(s, x)[j] = s[k]
OBVIOUS

\* get_mapping of a gateway that speaks PCP only.
LEMMA GetMappingPcp ==
    ASSUME PInv, NEW p \in Option(Ports), NEW wanted \in Option(Exts),
           NEW old \in {task, NoTask}, NEW sent \in Seq(Request), NEW gone,
           GetMapping(p, wanted, old, sent, gone)
    PROVE  \/ task' = old /\ requests' = sent
           \/ /\ StartedPcp
              /\ \A j \in DOMAIN requests' :
                    \/ \E k \in DOMAIN sent : requests'[j] = sent[k]
                    \/ requests'[j] = MapRequest(task')
<1>1. CASE task' = old /\ requests' = sent
  BY <1>1
<1>2. CASE /\ p # None
           /\ \E t \in Attempts(p, wanted) :
                 /\ task' = t
                 /\ requests' = IF t.method = "upnp" THEN sent
                                ELSE Append(sent, MapRequest(t))
  <2>1. PICK t \in Attempts(p, wanted) :
           /\ task' = t
           /\ requests' = IF t.method = "upnp" THEN sent
                                               ELSE Append(sent, MapRequest(t))
    BY <1>2
  <2>2. p \in Ports /\ TInv /\ supported = {"pcp"}
    BY <1>2 DEF Option, PInv, PcpInv, PcpService
  <2>3. /\ t.method = "pcp" /\ t.stage = "map" /\ t.nonce \in FreshNonces
        /\ t.wait = Timeout /\ MapRequest(t) \in Request
    <3>1. t.method \in supported
      BY <2>2, AttemptTypes
    <3>2. t.method = "pcp"
      BY <2>2, <3>1
    <3>3. /\ t.method = "pcp" =>
                /\ t.stage = "map" /\ t.nonce \in FreshNonces
                /\ t.wait = Timeout
          /\ t.method # "upnp" => MapRequest(t) \in Request
      BY <2>2, AttemptTypes
    <3>4. t.method # "upnp"
      BY <3>2
    <3> QED
      BY <3>2, <3>3, <3>4, Zenon
  <2>4. StartedPcp
    BY <2>1, <2>3, NoneTypes DEF StartedPcp
  <2>5. requests' = Append(sent, MapRequest(t))
    BY <2>1, <2>3
  <2>6. \A j \in DOMAIN requests' :
           requests'[j] = MapRequest(t) \/ \E k \in DOMAIN sent : requests'[j] = sent[k]
    BY <2>3, <2>5, AppendElements
  <2> QED
    BY <2>1, <2>4, <2>6
<1> QED
  BY <1>1, <1>2 DEF GetMapping

\* Nothing but PCP happens.
LEMMA OtherMethodsPcp ==
    ASSUME PInv
    PROVE  /\ ~(\E r \in replies : NatPmpMapResponse(r) \/ NatPmpAddrResponse(r))
           /\ ~(UpnpSearched \/ UpnpExternalIp \/ UpnpAddPort \/ UpnpAddAnyPort)
           /\ ~(UpnpAdded \/ UpnpAddPortFails)
<1>1. task.method \in {"pcp", "none"}
  BY NoneTypes DEF PInv, PcpInv, PcpService
<1> QED
  BY <1>1, Zenon DEF NatPmpMapResponse, NatPmpAddrResponse, UpnpSearched, UpnpExternalIp,
     UpnpAddPort, UpnpAddAnyPort, UpnpAdded, UpnpAddPortFails, Upnp

\* The service's handlers are such steps.
LEMMA ServicePcp ==
    ASSUME PInv,
           \/ \E p \in Option(Ports) : UpdateLocalPort(p)
           \/ Release \/ ReleaseFails \/ ProcureMapping \/ MappingEvent
           \/ DropClient \/ AttemptFails
           \/ \E r \in replies : LoseReply(r)
           \/ \E i \in DOMAIN requests : LoseRequest(i)
           \/ UNCHANGED vars
    PROVE  ServiceStep
<1>0. /\ TInv /\ requests \in Seq(Request) /\ port \in Option(Ports)
      /\ None \in Option(Exts) /\ held.ext \in Option(Exts)
      /\ releasing.ext \in Option(Exts)
      /\ held \in Mapping /\ releasing \in Mapping
      /\ held = NoMapping <=> held.method = "none"
      /\ releasing = NoMapping <=> releasing.method = "none"
  BY NoneTypes DEF PInv, TInv, TypeOK, Option, Mapping
<1>00. held # NoMapping => held.half \in Nat /\ held.left \in Nat
                            /\ held.left <= held.half
  BY <1>0 DEF PInv, PcpInv, PcpService, Mapping
<1>1. ASSUME NEW p \in Option(Ports), UpdateLocalPort(p)
      PROVE  ServiceStep
  <2>1. CASE held.method # "none"
    BY <1>1, <2>1 DEF UpdateLocalPort, ServiceStep, gateway
  <2>2. CASE held.method = "none"
    <3>1. /\ GetMapping(p, None, NoTask, requests, GivenUp(task))
          /\ UNCHANGED <<replies, table, supported, lease>>
          /\ held' = NoMapping /\ releasing' = NoMapping
      BY <1>0, <1>1, <2>2 DEF UpdateLocalPort, gateway
    <3>2. \/ task' = NoTask /\ requests' = requests
          \/ /\ StartedPcp
             /\ \A j \in DOMAIN requests' :
                   \/ \E k \in DOMAIN requests : requests'[j] = requests[k]
                   \/ requests'[j] = MapRequest(task')
      BY <1>0, <3>1, GetMappingPcp
    <3> QED
      BY <3>1, <3>2 DEF ServiceStep
  <2> QED
    BY <2>1, <2>2
<1>2. CASE Release
  <2> DEFINE q == ReleaseRequest(releasing)
             sent == Append(requests, q)
  <2>1. /\ releasing # NoMapping /\ releasing.method = "pcp"
        /\ held = NoMapping /\ task = NoTask
    BY <1>0, <1>2, Zenon DEF Release, PInv, PcpInv, PcpService
  <2>2. /\ GetMapping(port, releasing.ext, task, sent, {})
        /\ UNCHANGED <<held, replies, table, supported, lease>>
        /\ releasing' = NoMapping
    BY <1>2, <2>1 DEF Release, gateway
  <2>3. q \in Request
    BY <1>0, <2>1, ConstantsAssumption
       DEF ReleaseRequest, Request, Mapping, Option, Transports, Methods
  <2> HIDE DEF q
  <2>4. /\ sent \in Seq(Request)
        /\ \A k \in DOMAIN sent :
              sent[k] = q \/ \E m \in DOMAIN requests : sent[k] = requests[m]
    <3>1. requests \in Seq(Request)
      BY <1>0
    <3> QED
      BY <2>3, <3>1, AppendElements, Zenon
  <2> HIDE DEF sent
  <2>5. \/ task' = task /\ requests' = sent
        \/ /\ StartedPcp
           /\ \A j \in DOMAIN requests' :
                 \/ \E k \in DOMAIN sent : requests'[j] = sent[k]
                 \/ requests'[j] = MapRequest(task')
    BY <1>0, <2>2, <2>4, GetMappingPcp, Zenon
  <2>6. task' \in {task, NoTask} \/ StartedPcp
    BY <2>5
  <2>7. \A j \in DOMAIN requests' :
           \/ \E k \in DOMAIN requests : requests'[j] = requests[k]
           \/ requests'[j] = q
           \/ StartedPcp /\ requests'[j] = MapRequest(task')
    BY <2>4, <2>5
  <2> QED
    BY <2>1, <2>2, <2>6, <2>7, Zenon DEF ServiceStep, q
<1>3. CASE ReleaseFails
  <2>1. /\ GetMapping(port, releasing.ext, task, requests, GivenUp(releasing))
        /\ UNCHANGED <<replies, table, supported, lease>>
        /\ releasing' = NoMapping /\ held' = NoMapping
    BY <1>0, <1>3 DEF ReleaseFails, gateway, PInv, PcpInv, PcpService
  <2>2. \/ task' = task /\ requests' = requests
        \/ /\ StartedPcp
           /\ \A j \in DOMAIN requests' :
                 \/ \E k \in DOMAIN requests : requests'[j] = requests[k]
                 \/ requests'[j] = MapRequest(task')
    BY <1>0, <2>1, GetMappingPcp
  <2> QED
    BY <2>1, <2>2 DEF ServiceStep
<1>4. CASE ProcureMapping
  <2>1. /\ GetMapping(port, None, task, requests, {})
        /\ UNCHANGED <<replies, table, supported, lease>>
        /\ releasing' = NoMapping /\ held' = NoMapping
    BY <1>4 DEF ProcureMapping, gateway
  <2>2. \/ task' = task /\ requests' = requests
        \/ /\ StartedPcp
           /\ \A j \in DOMAIN requests' :
                 \/ \E k \in DOMAIN requests : requests'[j] = requests[k]
                 \/ requests'[j] = MapRequest(task')
    BY <1>0, <2>1, GetMappingPcp
  <2> QED
    BY <2>1, <2>2 DEF ServiceStep
<1>5. CASE MappingEvent
  <2> DEFINE gone == IF held.expire_after THEN GivenUp(held) ELSE {}
  <2>1. /\ GetMapping(port, held.ext, task, requests, gone)
        /\ UNCHANGED <<replies, table, supported, lease>>
        /\ releasing' = NoMapping /\ held # NoMapping
    BY <1>0, <1>5 DEF MappingEvent, gateway
  <2> HIDE DEF gone
  <2>2. \/ task' = task /\ requests' = requests
        \/ /\ StartedPcp
           /\ \A j \in DOMAIN requests' :
                 \/ \E k \in DOMAIN requests : requests'[j] = requests[k]
                 \/ requests'[j] = MapRequest(task')
    BY <1>0, <2>1, GetMappingPcp
  <2>3. \/ held' = NoMapping
        \/ /\ held'.method = held.method /\ held'.port = held.port
           /\ held'.ext = held.ext /\ held'.nonce = held.nonce
           /\ held'.half = held.half /\ held'.left <= held.half
           /\ Remaining' = Remaining
    <3>1. CASE held.expire_after
      BY <1>5, <3>1 DEF MappingEvent
    <3>2. CASE ~held.expire_after
      <4>1. /\ held' = [held EXCEPT !.left = held.half, !.expire_after = TRUE]
            /\ held.left = 0
        BY <1>5, <3>2 DEF MappingEvent
      <4>2. /\ held'.method = held.method /\ held'.port = held.port
            /\ held'.ext = held.ext /\ held'.nonce = held.nonce
            /\ held'.half = held.half /\ held'.left = held.half
            /\ held'.expire_after = TRUE
        BY <1>0, <4>1 DEF Mapping
      <4> QED
        BY <1>00, <2>1, <3>2, <4>1, <4>2 DEF Remaining
    <3> QED
      BY <3>1, <3>2
  <2> HIDE DEF Remaining
  <2> QED
    BY <2>1, <2>2, <2>3 DEF ServiceStep
<1>6. ASSUME held' = held PROVE Remaining' = Remaining
  BY <1>6 DEF Remaining
<1>7. CASE DropClient
  BY <1>7 DEF DropClient, ServiceStep, gateway
<1>8. ASSUME UNCHANGED <<held, releasing, table, supported, lease>>,
             replies' \subseteq replies, task' \in {task, NoTask},
             \A j \in DOMAIN requests' :
                \E k \in DOMAIN requests : requests'[j] = requests[k]
      PROVE  ServiceStep
  BY <1>00, <1>6, <1>8 DEF ServiceStep
<1>9. CASE AttemptFails
  BY <1>8, <1>9 DEF AttemptFails, Failed, gateway
<1>10. ASSUME NEW r \in replies, LoseReply(r) PROVE ServiceStep
  BY <1>8, <1>10 DEF LoseReply, gateway
<1>11. ASSUME NEW i \in DOMAIN requests, LoseRequest(i) PROVE ServiceStep
  <2> DEFINE left == Others(i)
  <2>1. \A j \in DOMAIN left : \E k \in DOMAIN requests : left[j] = requests[k]
    <3>1. i \in 1..Len(requests)
      BY <1>0
    <3> QED
      BY <1>0, <3>1, OthersElements
  <2> HIDE DEF left
  <2>2. requests' = left
    BY <1>11 DEF LoseRequest, left
  <2> QED
    BY <1>8, <1>11, <2>1, <2>2 DEF LoseRequest, gateway
<1>12. CASE UNCHANGED vars
  BY <1>8, <1>12 DEF vars
<1> QED
  BY <1>1, <1>2, <1>3, <1>4, <1>5, <1>7, <1>9, <1>10, <1>11, <1>12

\* A response to the attempt becomes the mapping.
LEMMA ResponsePcp ==
    ASSUME PInv, NEW r \in replies, PcpResponse(r)
    PROVE  PcpInv'
<1> USE NoNonce
<1>0. replies' \subseteq replies /\ UNCHANGED <<releasing, table, supported, lease>>
        /\ requests' = requests /\ task # NoTask /\ task' = NoTask
  BY NoneTypes DEF PcpResponse, Receives, Failed, Accept, gateway
<1>1. CASE ~PcpMatches(r)
  <2>1. held' = held /\ Remaining' = Remaining
    BY <1>1 DEF PcpResponse, Remaining
  <2>2. held # NoMapping => held.left <= held.half
    BY DEF PInv, PcpInv, PcpService
  <2> HIDE DEF Remaining
  <2>3. ServiceStep
    BY <1>0, <2>1, <2>2 DEF ServiceStep
  <2> QED
    BY <2>3, ServiceStepPcp
<1>2. CASE PcpMatches(r)
  <2> DEFINE h == lease \div 2
  <2>1. /\ lease \in Nat /\ h \in Nat /\ 2 * h <= lease /\ r.lifetime = lease
        /\ task.wait \in Nat
    <3>1. lease \in Nat /\ task.wait \in Nat
      BY ConstantsAssumption DEF PInv, TInv, TypeOK, Task
    <3>2. r.lifetime = lease
      BY DEF PInv, PcpInv, PcpNetwork
    <3> QED
      BY <3>1, <3>2
  <2>2. held' = [method |-> task.method, port |-> task.port, ext |-> r.ext,
                 nonce |-> task.nonce, half |-> h, left |-> h,
                 expire_after |-> FALSE]
    BY <1>2, <2>1 DEF PcpResponse, Accept
  <2>3. /\ releasing = NoMapping /\ task.method = "pcp" /\ task.nonce \in Nonces
    BY <1>0 DEF PInv, PcpInv, PcpService
  <2>4. Lasts(task, r.ext, lease + task.wait)
    BY <1>0, <1>2 DEF PInv, PcpInv, Answered, PcpMatches
  <2> HIDE DEF h
  <2>5. /\ held'.method = "pcp" /\ held'.port = task.port /\ held'.ext = r.ext
        /\ held'.nonce = task.nonce /\ held'.half = h /\ held'.left = h
        /\ Remaining' = h + h
    BY <2>2, <2>3 DEF Remaining
  <2>6. PcpService' /\ PcpNetwork'
    <3>1. /\ held'.method = "pcp" /\ held'.nonce \in Nonces
          /\ held'.half = lease' \div 2 /\ held'.left <= held'.half
      BY <1>0, <2>1, <2>3, <2>5 DEF h
    <3>2. /\ \A j \in DOMAIN requests' : /\ requests'[j].method = "pcp"
                                         /\ requests'[j].transport = Transport
                                         /\ requests'[j].nonce \in Nonces
          /\ \A s \in replies' : s.lifetime = lease'
          /\ \A e \in table' : e.method = "pcp" /\ e.transport = Transport
          /\ supported' = {"pcp"}
      BY <1>0 DEF PInv, PcpInv, PcpService, PcpNetwork
    <3>3. releasing' = NoMapping
      BY <1>0, <2>3
    <3>4. PcpNetwork'
      BY <3>2 DEF PcpNetwork
    <3> QED
      BY <1>0, <3>1, <3>2, <3>3, <3>4 DEF PcpService
  <2>7. Owner'
    <3>1. ASSUME NEW j \in DOMAIN requests
          PROVE  /\ requests[j].nonce # NoTask.nonce
                 /\ requests[j].nonce = task.nonce =>
                      requests[j].kind # "release" /\ requests[j].port = task.port
      BY DEF PInv, PcpInv, PcpNetwork, Owner
    <3>2. held'.nonce # task'.nonce
      BY <1>0, <2>3, <2>5
    <3>3. /\ requests' = requests /\ task' = NoTask
          /\ held'.nonce = task.nonce /\ held'.port = task.port
      BY <1>0, <2>5
    <3> QED
      BY <3>1, <3>2, <3>3 DEF Owner
  <2>8. OneEntry' /\ Answered'
    BY <1>0 DEF PInv, PcpInv, OneEntry, Answered
  <2>9. Lasts(held, held.ext, Remaining)'
    <3> HIDE DEF Remaining
    <3>1. CASE lease + task.wait <= Timeout
      <4>1. h + h <= Timeout
        BY <2>1, <3>1, TimeoutNat
      <4> QED
        BY <2>5, <4>1 DEF Lasts
    <3>2. ASSUME NEW e \in table, e.nonce = task.nonce, e.port = task.port,
                 e.ext = r.ext, e.ttl + Timeout >= lease + task.wait
          PROVE  Lasts(held, held.ext, Remaining)'
      <4>1. e.ttl \in Nat
        BY DEF PInv, TInv, TypeOK, Entry
      <4>2. e.ttl + Timeout >= h + h
        BY <2>1, <3>2, <4>1, TimeoutNat
      <4> QED
        BY <1>0, <2>5, <3>2, <4>2 DEF Lasts
    <3> QED
      BY <2>4, <3>1, <3>2 DEF Lasts
  <2> QED
    BY <2>6, <2>7, <2>8, <2>9, Zenon DEF PInv, PcpInv, HeldLasts
<1> QED
  BY <1>1, <1>2

\* Entry e lives on as f, perhaps renewed.
Kept(e, f) == /\ f.nonce = e.nonce /\ f.port = e.port /\ f.ext = e.ext
              /\ f.ttl \in {e.ttl, lease}

\* A granted request leaves the mappings of other nonces as they are, and gives
\* the one of its own nonce its whole lifetime.
LEMMA GrantKeeps ==
    ASSUME PInv, NEW i \in DOMAIN requests, Grant(requests[i]),
           NEW e \in table
    PROVE  \E f \in table' : Kept(e, f)
<1> DEFINE q == requests[i]
<1>0. Kept(e, e)
  BY DEF Kept
<1>1. CASE Matching(q) = {}
  BY <1>0, <1>1 DEF Grant
<1>2. CASE Matching(q) # {}
  <2>1. PICK f \in Matching(q) :
            table' = (table \ {f}) \cup {[f EXCEPT !.ttl = lease]}
    BY <1>2 DEF Grant
  <2>2. f \in Entry
    BY DEF Matching, PInv, TInv, TypeOK
  <2>3. CASE e = f
    <3>1. Kept(e, [f EXCEPT !.ttl = lease])
      BY <2>2, <2>3 DEF Entry, Kept
    <3> QED
      BY <2>1, <3>1
  <2>4. CASE e # f
    BY <1>0, <2>1, <2>4
  <2> QED
    BY <2>3, <2>4
<1> QED
  BY <1>1, <1>2

\* The gateway answers a request.
LEMMA GrantPcp ==
    ASSUME PInv, NEW i \in DOMAIN requests, Grant(requests[i])
    PROVE  /\ OneEntry'
           /\ \A e \in table' : e.method = "pcp" /\ e.transport = Transport
           /\ \E x : /\ replies' = replies \cup {Response(requests[i], "map", x)}
                     /\ \E e \in table' : /\ e.nonce = requests[i].nonce
                                           /\ e.port = requests[i].port
                                           /\ e.ext = x /\ e.ttl = lease
<1> DEFINE q == requests[i]
<1>0. /\ q.method = "pcp" /\ q.transport = Transport /\ Grant(q)
      /\ \A e \in table : e.method = "pcp" /\ e.transport = Transport
      /\ table \subseteq Entry
  BY DEF PInv, PcpInv, PcpNetwork, TInv, TypeOK
<1> HIDE DEF q
<1>1. CASE Matching(q) = {}
  <2> DEFINE n(x) == [method |-> q.method, transport |-> q.transport,
                      port |-> q.port, ext |-> x, nonce |-> q.nonce,
                      ttl |-> lease]
  <2>1. PICK x \in Grantable(q) :
            /\ table' = table \cup {n(x)}
            /\ replies' = replies \cup {Response(q, "map", x)}
    BY <1>0, <1>1 DEF Grant
  <2>2. /\ n(x).method = "pcp" /\ n(x).transport = Transport
        /\ n(x).port = q.port /\ n(x).ext = x /\ n(x).nonce = q.nonce
        /\ n(x).ttl = lease
    BY <1>0
  <2>3. \A e \in table : e.port # q.port
    BY <1>0, <1>1 DEF Matching
  <2> HIDE DEF n
  <2>4. OneEntry'
    BY <2>1, <2>2, <2>3 DEF PInv, PcpInv, OneEntry
  <2> QED
    BY <1>0, <2>1, <2>2, <2>4 DEF q
<1>2. CASE Matching(q) # {}
  <2>1. PICK e \in Matching(q) :
            /\ e.nonce = q.nonce
            /\ table' = (table \ {e}) \cup {[e EXCEPT !.ttl = lease]}
            /\ replies' = replies \cup {Response(q, "map", e.ext)}
    BY <1>0, <1>2 DEF Grant
  <2> DEFINE n == [e EXCEPT !.ttl = lease]
  <2>2. e \in table /\ e \in Entry /\ e.port = q.port
    BY <1>0 DEF Matching
  <2>3. /\ n.method = e.method /\ n.transport = e.transport
        /\ n.port = e.port /\ n.ext = e.ext /\ n.nonce = e.nonce
        /\ n.ttl = lease
    BY <2>2 DEF Entry
  <2>4. table' = (table \ {e}) \cup {n}
    BY <2>1
  <2> HIDE DEF n
  <2>5. OneEntry'
    BY <2>2, <2>3, <2>4 DEF PInv, PcpInv, OneEntry
  <2> QED
    BY <1>0, <2>1, <2>2, <2>3, <2>4, <2>5 DEF q
<1> QED
  BY <1>1, <1>2

LEMMA ServePcp ==
    ASSUME PInv, NEW i \in DOMAIN requests, Serve(i)
    PROVE  PcpInv'
<1> USE NoNonce
<1> DEFINE q == requests[i]
<1>0. /\ UNCHANGED <<port, held, releasing, task, supported, lease>>
      /\ lease \in Nat
  BY ConstantsAssumption DEF Serve, gateway, PInv, TInv, TypeOK
<1>1. \A j \in DOMAIN requests' :
         \E k \in DOMAIN requests : requests'[j] = requests[k]
  <2> DEFINE left == Others(i)
  <2>1. requests \in Seq(Request) /\ i \in 1..Len(requests)
    BY DEF PInv, TInv, TypeOK
  <2>2. \A j \in DOMAIN left : \E k \in DOMAIN requests : left[j] = requests[k]
    BY <2>1, OthersElements
  <2> HIDE DEF left
  <2>3. requests' = left \/ requests' = requests
    BY DEF Serve, left
  <2> QED
    BY <2>2, <2>3
<1>2. /\ q.nonce \in Nonces
      /\ \A t \in {task, held} :
            q.nonce = t.nonce => q.kind # "release" /\ q.port = t.port
  BY DEF PInv, PcpInv, PcpNetwork, Owner
<1>3. \/ q.kind = "map" /\ Grant(q)
      \/ table' = table /\ replies' = replies \cup {Response(q, "refused", None)}
      \/ /\ q.kind = "release" /\ replies' = replies
         /\ table' = {e \in table : e \notin Matching(q) \/ e.nonce # q.nonce}
      \/ table' = table /\ replies' = replies \cup {Response(q, "addr", None)}
  BY DEF Serve, Refuse
<1> HIDE DEF q
\* The mappings of the attempt's and of the held mapping's nonce are kept.
<1>4. \A e \in table : e.nonce \in {task.nonce, held.nonce} =>
         \E f \in table' : Kept(e, f)
  <2> TAKE e \in table
  <2>0. HAVE e.nonce \in {task.nonce, held.nonce}
  <2>1. CASE q.kind = "map" /\ Grant(q)
    BY <2>1, GrantKeeps DEF q
  <2>2. CASE e \in table'
    BY <2>2 DEF Kept
  <2>3. CASE /\ q.kind = "release"
             /\ table' = {g \in table : g \notin Matching(q) \/ g.nonce # q.nonce}
    <3>1. e \in table'
      BY <1>2, <2>0, <2>3
    <3> QED
      BY <2>2, <3>1
  <2> QED
    BY <1>3, <2>1, <2>2, <2>3
<1>5. ASSUME NEW t \in {task, held}, NEW ext, NEW n \in Nat,
             n <= lease + Timeout, Lasts(t, ext, n)
      PROVE  n <= Timeout \/ \E e \in table' : /\ e.nonce = t.nonce
                /\ e.port = t.port /\ e.ext = ext /\ e.ttl + Timeout >= n
  <2>1. CASE n <= Timeout
    BY <2>1
  <2>2. ASSUME NEW e \in table, e.nonce = t.nonce, e.port = t.port, e.ext = ext,
               e.ttl + Timeout >= n
        PROVE  \E f \in table' : /\ f.nonce = t.nonce
                /\ f.port = t.port /\ f.ext = ext /\ f.ttl + Timeout >= n
    <3>1. PICK f \in table' : Kept(e, f)
      BY <1>4, <2>2
    <3>2. f.ttl + Timeout >= n
      BY <1>0, <1>5, <2>2, <3>1, TimeoutNat DEF Kept
    <3> QED
      BY <2>2, <3>1, <3>2 DEF Kept
  <2> QED
    BY <1>5, <2>1, <2>2 DEF Lasts
<1>6. OneEntry' /\ \A e \in table' : e.method = "pcp" /\ e.transport = Transport
  <2>1. CASE q.kind = "map" /\ Grant(q)
    BY <2>1, GrantPcp DEF q
  <2>2. CASE table' \subseteq table
    BY <2>2 DEF PInv, PcpInv, OneEntry, PcpNetwork
  <2> QED
    BY <1>3, <2>1, <2>2
\* What is new among the responses.
<1>7. ASSUME NEW r \in replies', r \notin replies
      PROVE  /\ r.lifetime = lease /\ r.nonce = q.nonce
             /\ r.kind = "map" =>
                   \E e \in table' : /\ e.nonce = q.nonce /\ e.port = q.port
                                     /\ e.ext = r.ext /\ e.ttl = lease
  <2>1. \A k, x : /\ Response(q, k, x).lifetime = lease
                  /\ Response(q, k, x).nonce = q.nonce
                  /\ Response(q, k, x).ext = x /\ Response(q, k, x).kind = k
    BY DEF Response
  <2>2. CASE q.kind = "map" /\ Grant(q)
    <3>1. PICK x : /\ replies' = replies \cup {Response(q, "map", x)}
                   /\ \E e \in table' : /\ e.nonce = q.nonce /\ e.port = q.port
                                         /\ e.ext = x /\ e.ttl = lease
      BY <2>2, GrantPcp DEF q
    <3>2. r = Response(q, "map", x)
      BY <1>7, <3>1, Zenon
    <3>3. /\ r.lifetime = lease /\ r.nonce = q.nonce /\ r.ext = x
      BY <2>1, <3>2
    <3> QED
      BY <3>1, <3>3
  <2>3. ASSUME NEW k \in {"refused", "addr"},
               replies' = replies \cup {Response(q, k, None)}
        PROVE  r.lifetime = lease /\ r.nonce = q.nonce /\ r.kind # "map"
    <3>1. r = Response(q, k, None)
      BY <1>7, <2>3, Zenon
    <3>2. k # "map"
      BY <2>3
    <3> QED
      BY <2>1, <3>1, <3>2, Zenon
  <2>4. replies' # replies
    BY <1>7
  <2> QED
    BY <1>3, <2>2, <2>3, <2>4, Zenon
<1>8. PcpService' /\ PcpNetwork'
  <2>1. \A j \in DOMAIN requests' : /\ requests'[j].method = "pcp"
                                    /\ requests'[j].transport = Transport
                                    /\ requests'[j].nonce \in Nonces
    BY <1>1 DEF PInv, PcpInv, PcpNetwork
  <2>2. \A r \in replies' : r.lifetime = lease'
    BY <1>0, <1>7 DEF PInv, PcpInv, PcpNetwork
  <2>3. PcpNetwork'
    BY <1>6, <2>1, <2>2 DEF PcpNetwork
  <2> QED
    BY <1>0, <2>3 DEF PInv, PcpInv, PcpService
<1>9. Owner'
  <2>1. held' # NoMapping => held'.nonce # task'.nonce
    BY <1>0 DEF PInv, PcpInv, Owner
  <2>2. ASSUME NEW j \in DOMAIN requests', NEW t \in {task', held'},
               requests'[j].nonce = t.nonce
        PROVE  requests'[j].kind # "release" /\ requests'[j].port = t.port
    <3>1. PICK k \in DOMAIN requests : requests'[j] = requests[k]
      BY <1>1
    <3>2. t \in {task, held}
      BY <1>0
    <3> QED
      BY <2>2, <3>1, <3>2 DEF PInv, PcpInv, Owner
  <2> QED
    BY <2>1, <2>2 DEF Owner
<1>10. Answered'
  <2> SUFFICES ASSUME task # NoTask, NEW r \in replies', r.kind = "map",
                      r.nonce = task.nonce
               PROVE  Lasts(task, r.ext, lease + task.wait)'
    BY <1>0 DEF Answered
  <2>1. /\ task.wait \in Nat /\ task.wait <= Timeout
        /\ lease + task.wait \in Nat /\ lease + task.wait <= lease + Timeout
    <3>1. task.wait \in Nat
      BY DEF PInv, TInv, TypeOK, Task
    <3>2. task.wait <= Timeout
      BY DEF PInv, PcpInv, PcpService
    <3> QED
      BY <1>0, <3>1, <3>2, TimeoutNat
  <2>2. CASE r \in replies
    <3>1. Lasts(task, r.ext, lease + task.wait)
      BY <2>2 DEF PInv, PcpInv, Answered
    <3>2. \/ lease + task.wait <= Timeout
          \/ \E e \in table' : /\ e.nonce = task.nonce
                /\ e.port = task.port /\ e.ext = r.ext
                /\ e.ttl + Timeout >= lease + task.wait
      BY <1>5, <2>1, <3>1
    <3> QED
      BY <1>0, <3>2 DEF Lasts
  <2>3. CASE r \notin replies
    <3>1. PICK e \in table' : /\ e.nonce = task.nonce /\ e.port = task.port
                              /\ e.ext = r.ext /\ e.ttl = lease
      BY <1>2, <1>7, <2>3
    <3>2. e.ttl + Timeout >= lease + task.wait
      BY <1>0, <2>1, <3>1, TimeoutNat
    <3> QED
      BY <1>0, <3>1, <3>2 DEF Lasts
  <2> QED
    BY <2>2, <2>3
<1>11. HeldLasts'
  <2> SUFFICES ASSUME held # NoMapping PROVE Lasts(held, held.ext, Remaining)'
    BY <1>0 DEF HeldLasts
  <2>1. /\ held.left \in Nat /\ held.half \in Nat
        /\ held.half + held.half <= lease /\ held.left <= held.half
    <3>1. held.left \in Nat /\ held.half \in Nat
      BY DEF PInv, TInv, TypeOK, Mapping
    <3>2. held.half = lease \div 2 /\ held.left <= held.half
      BY DEF PInv, PcpInv, PcpService
    <3>3. \A n \in Nat : (n \div 2) + (n \div 2) <= n
      OBVIOUS
    <3>4. held.half + held.half <= lease
      BY <1>0, <3>2, <3>3, Zenon
    <3> QED
      BY <3>1, <3>2, <3>4, Zenon
  <2>2. Remaining \in Nat /\ Remaining <= lease + Timeout
    <3>1. Remaining \in Nat /\ Remaining <= held.half + held.half
      BY <2>1 DEF Remaining
    <3> QED
      BY <1>0, <2>1, <3>1, TimeoutNat
  <2>3. Remaining' = Remaining
    BY <1>0 DEF Remaining
  <2> HIDE DEF Remaining
  <2>4. Lasts(held, held.ext, Remaining)
    BY DEF PInv, PcpInv, HeldLasts
  <2>5. \/ Remaining <= Timeout
        \/ \E e \in table' : /\ e.nonce = held.nonce /\ e.port = held.port
              /\ e.ext = held.ext /\ e.ttl + Timeout >= Remaining
    BY <1>5, <2>2, <2>4
  <2> QED
    BY <1>0, <2>3, <2>5 DEF Lasts
<1> QED
  BY <1>6, <1>8, <1>9, <1>10, <1>11, Zenon DEF PcpInv

\* Time passes for the gateway and for the service alike.
LEMMA TickPcp == ASSUME PInv, Tick PROVE PcpInv'
<1> USE NoNonce
<1>0. UNCHANGED <<releasing, requests, replies, supported, lease>>
        /\ lease \in Nat
  BY ConstantsAssumption DEF Tick, gateway, PInv, TInv, TypeOK
<1>1. /\ task = NoTask => task' = NoTask
      /\ task # NoTask => /\ task' # NoTask /\ task'.method = task.method
                          /\ task'.stage = "map" /\ task.stage = "map"
                          /\ task.wait \in Nat /\ task.wait > 0
                          /\ task'.wait = task.wait - 1
      /\ task'.nonce = task.nonce /\ task'.port = task.port
  <2>1. CASE task = NoTask
    BY <2>1 DEF Tick, NoTask
  <2>2. CASE task # NoTask
    <3>1. task \in Task /\ task.stage = "map" /\ task.method = "pcp"
      BY <2>2 DEF PInv, PcpInv, PcpService, TInv, TypeOK
    <3>2. task.wait > 0 /\ task' = [task EXCEPT !.wait = task.wait - 1]
      BY <3>1 DEF Tick
    <3>3. /\ task'.method = task.method /\ task'.stage = "map"
          /\ task'.wait = task.wait - 1
          /\ task'.nonce = task.nonce /\ task'.port = task.port
          /\ task.wait \in Nat
      BY <3>1, <3>2 DEF Task
    <3> QED
      BY <2>2, <3>1, <3>2, <3>3, NoneTypes, Zenon
  <2> QED
    BY <2>1, <2>2
<1>2. /\ held = NoMapping => held' = NoMapping
      /\ held # NoMapping => /\ held' # NoMapping /\ held'.method = held.method
                             /\ held'.ext = held.ext /\ held'.half = held.half
                             /\ held.left \in Nat /\ held.left > 0
                             /\ held'.left = held.left - 1
                             /\ held'.expire_after = held.expire_after
                             /\ held.half \in Nat
      /\ held'.nonce = held.nonce /\ held'.port = held.port
  <2>1. CASE held = NoMapping
    BY <2>1, NoneTypes DEF Tick
  <2>2. CASE held # NoMapping
    <3>1. held \in Mapping /\ held.method = "pcp"
      BY <2>2 DEF PInv, PcpInv, PcpService, TInv, TypeOK
    <3>2. held.left > 0 /\ held' = [held EXCEPT !.left = held.left - 1]
      BY <3>1 DEF Tick
    <3>3. /\ held'.method = held.method /\ held'.ext = held.ext
          /\ held'.half = held.half /\ held'.left = held.left - 1
          /\ held'.expire_after = held.expire_after
          /\ held'.nonce = held.nonce /\ held'.port = held.port
          /\ held.left \in Nat /\ held.half \in Nat
      BY <3>1, <3>2 DEF Mapping
    <3> QED
      BY <2>2, <3>1, <3>2, <3>3, NoneTypes, Zenon
  <2> QED
    BY <2>1, <2>2
<1> DEFINE older(e) == [e EXCEPT !.ttl = @ - 1]
<1>3. ASSUME NEW e \in table
      PROVE  /\ e.ttl \in Nat
             /\ older(e).ttl = e.ttl - 1
             /\ older(e).port = e.port /\ older(e).ext = e.ext
             /\ older(e).nonce = e.nonce /\ older(e).method = e.method
             /\ older(e).transport = e.transport
             /\ e.ttl > 1 => older(e) \in table'
  <2>1. e \in Entry
    BY DEF PInv, TInv, TypeOK
  <2>2. table' = {older(f) : f \in {f \in table : f.ttl > 1}}
    BY Zenon DEF Tick
  <2>3. e.ttl > 1 => older(e) \in table'
    BY <2>2, Zenon
  <2> QED
    BY <2>1, <2>3 DEF Entry
<1>4. \A g \in table' : \E e \in table : g = older(e)
  <2>1. table' = {older(f) : f \in {f \in table : f.ttl > 1}}
    BY Zenon DEF Tick
  <2> QED
    BY <2>1, Zenon
<1> HIDE DEF older
<1>5. OneEntry' /\ \A g \in table' : g.method = "pcp" /\ g.transport = Transport
  <2>1. OneEntry'
    <3> SUFFICES ASSUME NEW g \in table', NEW h \in table', g.port = h.port
                 PROVE  g = h
      BY DEF OneEntry
    <3>1. PICK e \in table, f \in table : g = older(e) /\ h = older(f)
      BY <1>4
    <3>2. e.port = f.port
      BY <1>3, <3>1
    <3> QED
      BY <3>1, <3>2 DEF PInv, PcpInv, OneEntry
  <2>2. \A e \in table : e.method = "pcp" /\ e.transport = Transport
    BY DEF PInv, PcpInv, PcpNetwork
  <2> QED
    BY <1>3, <1>4, <2>1, <2>2
<1>6. ASSUME NEW t \in {task, held}, NEW ext, NEW n \in Nat, n > 0,
             Lasts(t, ext, n)
      PROVE  n - 1 <= Timeout \/ \E e \in table' : /\ e.nonce = t.nonce
                /\ e.port = t.port /\ e.ext = ext /\ e.ttl + Timeout >= n - 1
  <2>1. CASE n <= Timeout
    BY <2>1, TimeoutNat
  <2>2. ASSUME NEW e \in table, e.nonce = t.nonce, e.port = t.port, e.ext = ext,
               e.ttl + Timeout >= n
        PROVE  n - 1 <= Timeout \/ \E f \in table' : /\ f.nonce = t.nonce
                /\ f.port = t.port /\ f.ext = ext /\ f.ttl + Timeout >= n - 1
    <3>0. /\ e.ttl \in Nat /\ older(e).ttl = e.ttl - 1
          /\ older(e).port = e.port /\ older(e).ext = e.ext
          /\ older(e).nonce = e.nonce
          /\ e.ttl > 1 => older(e) \in table'
      BY <1>3
    <3>1. CASE e.ttl <= 1
      <4>1. n - 1 <= Timeout
        BY <2>2, <3>0, <3>1, TimeoutNat
      <4> QED
        BY <4>1
    <3>2. CASE e.ttl > 1
      <4>1. older(e).ttl + Timeout >= n - 1
        BY <2>2, <3>0, TimeoutNat
      <4> QED
        BY <2>2, <3>0, <3>2, <4>1
    <3> QED
      BY <3>0, <3>1, <3>2
  <2> QED
    BY <1>6, <2>1, <2>2 DEF Lasts
<1>7. PcpService' /\ PcpNetwork'
  <2>1. task' # NoTask => /\ task'.method = "pcp" /\ task'.stage = "map"
                          /\ task'.nonce \in Nonces /\ task'.wait <= Timeout
    BY <1>1, TimeoutNat DEF PInv, PcpInv, PcpService
  <2>2. held' # NoMapping => /\ held'.method = "pcp" /\ held'.nonce \in Nonces
                             /\ held'.half = lease' \div 2
                             /\ held'.left <= held'.half
    <3> SUFFICES ASSUME held' # NoMapping
                 PROVE  /\ held'.method = "pcp" /\ held'.nonce \in Nonces
                        /\ held'.half = lease' \div 2 /\ held'.left <= held'.half
      OBVIOUS
    <3>1. /\ held.method = "pcp" /\ held.nonce \in Nonces
          /\ held.half = lease \div 2 /\ held.left <= held.half
      BY <1>2 DEF PInv, PcpInv, PcpService
    <3>2. held'.left <= held'.half
      BY <1>2, <3>1
    <3> QED
      BY <1>0, <1>2, <3>1, <3>2, Zenon
  <2>3. PcpNetwork'
    BY <1>0, <1>5 DEF PInv, PcpInv, PcpNetwork
  <2> QED
    BY <1>0, <1>1, <1>2, <2>1, <2>2, <2>3 DEF PInv, PcpInv, PcpService
<1>8. Owner'
  <2>1. held' # NoMapping => held'.nonce # task'.nonce
    BY <1>1, <1>2 DEF PInv, PcpInv, Owner
  <2>2. \A i \in DOMAIN requests : \A t \in {task, held} :
           requests[i].nonce = t.nonce =>
              requests[i].kind # "release" /\ requests[i].port = t.port
    BY DEF PInv, PcpInv, Owner
  <2>3. /\ task'.nonce = task.nonce /\ task'.port = task.port
        /\ held'.nonce = held.nonce /\ held'.port = held.port
        /\ requests' = requests
    BY <1>0, <1>1, <1>2
  <2>4. \A i \in DOMAIN requests : \A t \in {task', held'} :
           requests[i].nonce = t.nonce =>
              requests[i].kind # "release" /\ requests[i].port = t.port
    BY <2>2, <2>3
  <2> QED
    BY <2>1, <2>3, <2>4 DEF Owner
<1>9. Answered'
  <2> SUFFICES ASSUME task' # NoTask, NEW r \in replies, r.kind = "map",
                      r.nonce = task.nonce
               PROVE  Lasts(task, r.ext, lease + task.wait)'
    BY <1>0, <1>1 DEF Answered
  <2>1. /\ task # NoTask /\ task.wait \in Nat /\ task'.wait = task.wait - 1
        /\ task.wait > 0
    BY <1>1
  <2> DEFINE n == lease + task.wait
  <2>2. n \in Nat /\ n > 0 /\ n - 1 = lease' + task'.wait
    BY <1>0, <2>1
  <2>3. Lasts(task, r.ext, n)
    BY <2>1 DEF PInv, PcpInv, Answered
  <2> HIDE DEF n
  <2>4. n - 1 <= Timeout \/ \E e \in table' : /\ e.nonce = task.nonce
                /\ e.port = task.port /\ e.ext = r.ext
                /\ e.ttl + Timeout >= n - 1
    BY <1>6, <2>2, <2>3
  <2> QED
    BY <1>1, <2>2, <2>4 DEF Lasts
<1>10. HeldLasts'
  <2> SUFFICES ASSUME held' # NoMapping PROVE Lasts(held, held.ext, Remaining)'
    BY DEF HeldLasts
  <2>1. Remaining \in Nat /\ Remaining > 0 /\ Remaining' = Remaining - 1
    BY <1>2 DEF Remaining
  <2>2. Lasts(held, held.ext, Remaining)
    BY <1>2 DEF PInv, PcpInv, HeldLasts
  <2> HIDE DEF Remaining
  <2>3. \/ Remaining - 1 <= Timeout
        \/ \E e \in table' : /\ e.nonce = held.nonce /\ e.port = held.port
              /\ e.ext = held.ext /\ e.ttl + Timeout >= Remaining - 1
    BY <1>6, <2>1, <2>2
  <2> QED
    BY <1>2, <2>1, <2>3 DEF Lasts
<1> QED
  BY <1>5, <1>7, <1>8, <1>9, <1>10, Zenon DEF PcpInv

LEMMA InitPcp == ASSUME Gateways = {{"pcp"}}, Init PROVE PInv
<1>1. TInv
  BY InitTypes
<1>2. PcpService /\ PcpNetwork
  BY DEF Init, PcpService, PcpNetwork
<1>3. Owner /\ OneEntry /\ Answered /\ HeldLasts
  BY DEF Init, Owner, OneEntry, Answered, HeldLasts
<1> QED
  BY <1>1, <1>2, <1>3 DEF PInv, PcpInv

LEMMA StepPcp ==
    ASSUME "reboot" \notin Faults, PInv, [Next]_vars
    PROVE  PInv'
<1>1. TInv'
  BY TypeStep DEF PInv
<1>2. ~Reboot
  BY DEF Reboot
<1>3. PcpInv'
  <2>1. CASE ServiceStep
    BY <2>1, ServiceStepPcp
  <2>2. ASSUME NEW r \in replies, PcpResponse(r) PROVE PcpInv'
    BY <2>2, ResponsePcp
  <2>3. ASSUME NEW i \in DOMAIN requests, Serve(i) PROVE PcpInv'
    BY <2>3, ServePcp
  <2>4. CASE Tick
    BY <2>4, TickPcp
  <2> QED
    BY <1>2, <2>1, <2>2, <2>3, <2>4, OtherMethodsPcp, ServicePcp DEF Next
<1> QED
  BY <1>1, <1>3 DEF PInv

LEMMA PcpRegistered == PInv => HeldAtGateway
<1> SUFFICES ASSUME PInv, held.method # "none", Remaining > Slack
             PROVE  Registered
  BY DEF HeldAtGateway
<1>1. held # NoMapping /\ held.method = "pcp"
  BY NoneTypes DEF PInv, PcpInv, PcpService
<1>2. Slack = Timeout
  BY <1>1 DEF Slack
<1>3. Lasts(held, held.ext, Remaining)
  BY <1>1 DEF PInv, PcpInv, HeldLasts
<1>4. Remaining \in Nat
  BY DEF PInv, TInv, TypeOK, Mapping, Remaining
<1>5. \E e \in table : e.port = held.port /\ e.ext = held.ext
  <2> HIDE DEF Remaining
  <2> QED
    BY <1>2, <1>3, <1>4, TimeoutNat DEF Lasts
<1> QED
  BY <1>5 DEF Registered, PInv, PcpInv, PcpNetwork

\* pcp::Mapping::new and release: whatever the network loses, delays,
\* duplicates, reorders or delivers to the wrong socket, and wherever an attempt
\* is aborted, the gateway has the mapping that the service holds and publishes
\* until the time the response took before it expires.  The check of the nonce
\* is what it rests on; the gateway does not restart.
THEOREM PcpHeldAtGateway ==
    ASSUME Gateways = {{"pcp"}}, "reboot" \notin Faults
    PROVE  Spec => []HeldAtGateway
<1>1. Init => PInv
  BY InitPcp
<1>2. PInv /\ [Next]_vars => PInv'
  BY StepPcp
<1> QED
  BY <1>1, <1>2, PcpRegistered, PTL DEF Spec
=============================================================================
