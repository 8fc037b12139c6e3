------------------------ MODULE MappingRenewalProofs ------------------------
(***************************************************************************)
(* The mappings of NAT-PMP and UPnP, whose messages carry no nonce: that   *)
(* the gateway has what the service holds, and that a mapping is renewed   *)
(* before it expires, for every set of ports and sockets, every lifetime   *)
(* and timeout and any number of datagrams.                                *)
(***************************************************************************)
EXTENDS MappingServiceProofs

\* The prover of a step that names none.
USE Zenon

-----------------------------------------------------------------------------
(* What the gateway has.                                                   *)

\* The table maps ext to port p for another n.
Maps(entries, p, ext, n) ==
    n <= 0 \/ \E e \in entries : e.port = p /\ e.ext = ext /\ e.ttl >= n

\* No entry outlasts what a renewal gives it.
Full == IF "upnp" \in supported THEN 2 * Hour ELSE lease

\* A response to the attempt, an attempt that waits for the external address or
\* for the answer of UPnP, and a mapping that is held: the gateway has the entry
\* for as long as they say, less the time the responses may have taken.
Lasting ==
    /\ \A e \in table : e.ttl <= Full
    /\ task.stage = "map" =>
          /\ task.wait <= Timeout
          /\ \A r \in replies : Own(r) /\ r.kind = "map" =>
                Maps(table, r.port, r.ext, lease + task.wait - Timeout)
    /\ task.stage = "addr" =>
          Maps(table, task.port, task.ext, lease + task.wait - 2 * Timeout)
    /\ task.stage = "added" => Maps(table, task.port, task.wanted, 2 * Hour)
    /\ task.stage = "any_added" => Maps(table, task.port, task.ext, 2 * Hour)
    /\ held # NoMapping => Maps(table, held.port, held.ext, Remaining - Slack)

KInv == LInv /\ Lasting

\* The entries that are there stay or are renewed.
Preserved == \A e \in table : \E f \in table' :
             f.port = e.port /\ f.ext = e.ext /\ f.ttl >= e.ttl

LEMMA KeptMaps ==
    ASSUME TInv, TInv', Preserved, NEW p, NEW ext, NEW n \in Int, NEW m \in Int,
           m <= n, Maps(table, p, ext, n)
    PROVE  Maps(table', p, ext, m)
<1>1. CASE n <= 0
  BY <1>1, SMT DEF Maps
<1>2. CASE \E e \in table : e.port = p /\ e.ext = ext /\ e.ttl >= n
  <2>1. PICK e \in table : e.port = p /\ e.ext = ext /\ e.ttl >= n
    BY <1>2
  <2>2. PICK f \in table' : f.port = e.port /\ f.ext = e.ext /\ f.ttl >= e.ttl
    BY DEF Preserved
  <2>3. e.ttl \in Nat /\ f.ttl \in Nat
    BY DEF TInv, TypeOK, Entry
  <2> QED
    BY <2>1, <2>2, <2>3, SMT DEF Maps
<1> QED
  BY <1>1, <1>2 DEF Maps

LEMMA SameMaps ==
    ASSUME NEW entries \in SUBSET Entry, NEW p, NEW ext, NEW n \in Int,
           NEW m \in Int, m <= n, Maps(entries, p, ext, n)
    PROVE  Maps(entries, p, ext, m)
<1>1. \A e \in entries : e.ttl \in Nat
  BY DEF Entry
<1> QED
  BY <1>1, SMT DEF Maps

LEMMA TickMaps ==
    ASSUME TickMoves, NEW p, NEW ext, NEW n \in Int, Maps(table, p, ext, n)
    PROVE  Maps(table', p, ext, n - 1)
<1>1. CASE n <= 1
  BY <1>1, SMT DEF Maps
<1>2. CASE n > 1
  <2>1. PICK e \in table : e.port = p /\ e.ext = ext /\ e.ttl >= n
    BY <1>2, SMT DEF Maps
  <2>2. PICK f \in table' : SameEntry(e, f) /\ f.ttl = e.ttl - 1 /\ e.ttl \in Nat
    BY <1>2, <2>1, SMT DEF TickMoves
  <2> QED
    BY <2>1, <2>2, SMT DEF Maps, SameEntry
<1> QED
  BY <1>1, <1>2, SMT

\* The numbers.
LEMMA Numbers ==
    ASSUME TInv
    PROVE  /\ lease \in Nat /\ Timeout \in Nat /\ Hour \in Nat /\ task.wait \in Nat
           /\ Hour > 0 /\ Timeout > 0
           /\ held.left \in Nat /\ held.half \in Nat /\ Remaining \in Nat
           /\ Slack \in Nat /\ \A e \in table : e.ttl \in Nat
<1>1. held \in Mapping /\ task \in Task /\ table \subseteq Entry /\ lease \in Lifetimes
  BY DEF TInv, TypeOK
<1>2. /\ lease \in Nat /\ Timeout \in Nat /\ Hour \in Nat /\ Hour > 0 /\ Timeout > 0
  BY <1>1, ConstantsAssumption, SMT
<1>3. held.left \in Nat /\ held.half \in Nat /\ held.expire_after \in BOOLEAN
  BY <1>1 DEF Mapping
<1>4. task.wait \in Nat /\ \A e \in table : e.ttl \in Nat
  BY <1>1 DEF Task, Entry
<1>5. Remaining \in Nat /\ Slack \in Nat
  BY <1>2, <1>3, SMT DEF Remaining, Slack
<1> QED
  BY <1>2, <1>3, <1>4, <1>5

\* What the service does to a mapping that it goes on holding: it starts its
\* renewal.
LEMMA ServiceHeld ==
    ASSUME SInv, ServiceAction
    PROVE  /\ releasing.method # "upnp" => table' = table
           /\ held' # NoMapping =>
                 /\ held # NoMapping /\ held.left = 0 /\ ~held.expire_after
                 /\ held'.method = held.method /\ held'.half = held.half
                 /\ held'.left = held.half /\ held'.expire_after
                 /\ "offline" \in Faults \/ task' # NoTask
<1>1. releasing.method # "upnp" => table' = table
  BY DEF ServiceAction, UpdateLocalPort, Release, ReleaseFails, ProcureMapping,
         MappingEvent, DropClient
<1>2. ASSUME held' # NoMapping PROVE MappingEvent /\ ~held.expire_after
  <2>1. CASE \E p \in Option(Ports) : UpdateLocalPort(p)
    BY <1>2, <2>1 DEF UpdateLocalPort, SInv, TInv, TypeOK
  <2>2. CASE Release \/ ReleaseFails
    BY <1>2, <2>2, NoneTypes DEF Release, ReleaseFails, SInv, Service
  <2>3. CASE ProcureMapping \/ DropClient
    BY <1>2, <2>3 DEF ProcureMapping, DropClient
  <2>4. CASE MappingEvent
    BY <1>2, <2>4 DEF MappingEvent
  <2> QED
    BY <2>1, <2>2, <2>3, <2>4 DEF ServiceAction
<1>3. ASSUME held' # NoMapping
      PROVE  /\ held # NoMapping /\ held.left = 0
             /\ held'.method = held.method /\ held'.half = held.half
             /\ held'.left = held.half /\ held'.expire_after
             /\ "offline" \in Faults \/ task' # NoTask
  <2>1. /\ held.method # "none" /\ held.left = 0
        /\ held' = [held EXCEPT !.left = held.half, !.expire_after = TRUE]
        /\ GetMapping(port, held.ext, task, requests, {})
    BY <1>2, <1>3 DEF MappingEvent
  <2>2. held # NoMapping /\ held \in Mapping /\ port # None
    BY <2>1, NoneTypes DEF SInv, TInv, TypeOK, Service
  <2>3. /\ held'.method = held.method /\ held'.half = held.half
        /\ held'.left = held.half /\ held'.expire_after
    BY <2>1, <2>2 DEF Mapping
  <2>4. "offline" \in Faults \/ task' # NoTask
    <3>1. port \in Option(Ports) /\ held.ext \in Option(Exts) /\ TInv
      BY <2>2 DEF SInv, TInv, TypeOK, Mapping
    <3> QED
      BY <2>1, <2>2, <3>1, GetMappingStarts DEF New
  <2> QED
    BY <2>1, <2>2, <2>3, <2>4
<1> QED
  BY <1>1, <1>2, <1>3

\* What is at stake stays at stake with the same numbers, or less.
LEMMA LastingKept ==
    ASSUME KInv, TInv', Preserved, \A e \in table' : e.ttl <= Full',
           UNCHANGED <<held, lease>>, replies' \subseteq replies,
           task' = task \/ task'.stage \notin {"map", "addr", "added", "any_added"}
    PROVE  Lasting'
<1>0. Lasting /\ TInv
  BY DEF KInv, LInv, SInv
<1>1. /\ lease \in Nat /\ Timeout \in Nat /\ Hour \in Nat /\ task.wait \in Nat
      /\ Remaining \in Nat /\ Slack \in Nat
  BY <1>0, Numbers
<1>2. \A p, ext : \A n \in Int :
         Maps(table, p, ext, n) => Maps(table', p, ext, n)
  BY <1>0, KeptMaps, SMT
<1>3. /\ lease + task.wait - Timeout \in Int /\ 2 * Hour \in Int
      /\ lease + task.wait - 2 * Timeout \in Int /\ Remaining - Slack \in Int
  BY <1>1, SMT
<1>4. held' # NoMapping => Maps(table', held'.port, held'.ext, Remaining' - Slack')
  <2>1. Remaining' = Remaining /\ Slack' = Slack
    BY DEF Remaining, Slack
  <2> QED
    BY <1>0, <1>2, <1>3, <2>1 DEF Lasting
<1>5. CASE task' = task
  <2>1. \A r \in replies' : r \in replies /\ (Own(r)' <=> Own(r))
    BY <1>5 DEF Own
  <2>2. task.stage = "map" =>
           /\ task.wait <= Timeout
           /\ \A r \in replies' : Own(r) /\ r.kind = "map" =>
                 Maps(table', r.port, r.ext, lease + task.wait - Timeout)
    BY <1>0, <1>2, <1>3, <2>1 DEF Lasting
  <2>3. /\ task.stage = "addr" =>
              Maps(table', task.port, task.ext, lease + task.wait - 2 * Timeout)
        /\ task.stage = "added" => Maps(table', task.port, task.wanted, 2 * Hour)
        /\ task.stage = "any_added" => Maps(table', task.port, task.ext, 2 * Hour)
    BY <1>0, <1>2, <1>3 DEF Lasting
  <2> QED
    BY <1>4, <1>5, <2>2, <2>3 DEF Lasting, Own
<1>6. CASE task'.stage \notin {"map", "addr", "added", "any_added"}
  BY <1>4, <1>6 DEF Lasting
<1> QED
  BY <1>5, <1>6

LEMMA SameTable == TInv /\ table' = table => Preserved
BY Numbers, SMT DEF Preserved

LEMMA LastingService ==
    ASSUME KInv, InOrder, ServiceAction, SInv' PROVE Lasting'
<1>0. Lasting /\ TInv /\ SInv /\ TInv'
  BY DEF KInv, LInv, SInv
<1>1. ServiceMoves
  BY <1>0, ServiceSummary
<1>2. /\ replies' = replies /\ supported' = supported /\ lease' = lease
      /\ table' \subseteq table /\ TaskMoves
  BY <1>1 DEF ServiceMoves
<1>3. task # NoTask \/ held # NoMapping => table' = table
  BY <1>0, ServiceHeld, NoneTypes DEF SInv, Service
<1>4. \A e \in table' : e.ttl <= Full'
  BY <1>0, <1>2 DEF Full, Lasting
<1>5. held' # NoMapping => Maps(table', held'.port, held'.ext, Remaining' - Slack')
  <2> SUFFICES ASSUME held' # NoMapping
               PROVE  Maps(table', held'.port, held'.ext, Remaining' - Slack')
    OBVIOUS
  <2>1. /\ held # NoMapping /\ held.left = 0 /\ ~held.expire_after
        /\ held'.method = held.method /\ held'.half = held.half
        /\ held'.left = held.half /\ held'.expire_after
    BY <1>0, ServiceHeld
  <2>2. held'.port = held.port /\ held'.ext = held.ext
    BY <1>1 DEF ServiceMoves, MappingMoves, SameMapping
  <2>3. held.half \in Nat
    BY <1>0, Numbers
  <2>4. Remaining' = Remaining /\ Slack' = Slack
    BY <2>1, <2>3, SMT DEF Remaining, Slack
  <2> QED
    BY <1>0, <1>3, <2>1, <2>2, <2>4 DEF Lasting
<1>6. CASE \E wanted : New(task', port', wanted)
  <2>1. /\ task'.stage \in {"map", "search", "extip"}
        /\ task'.stage = "map" => task'.wait = Timeout
    BY <1>6 DEF New
  <2>2. task'.stage = "map" => \A r \in replies : r.sock # task'.sock
    BY <1>6, NewSocket
  <2>3. Timeout <= Timeout
    BY <1>0, Numbers, SMT
  <2> QED
    BY <1>2, <1>4, <1>5, <2>1, <2>2, <2>3 DEF Lasting, Own
<1>7. CASE task' = task /\ task # NoTask
  <2>1. table' = table
    BY <1>3, <1>7
  <2> QED
    BY <1>0, <1>2, <1>4, <1>5, <1>7, <2>1 DEF Lasting, Own
<1>8. CASE task' = NoTask
  BY <1>4, <1>5, <1>8 DEF Lasting, NoTask
<1> QED
  BY <1>2, <1>6, <1>7, <1>8 DEF TaskMoves

LEMMA LastingServe ==
    ASSUME KInv, WithoutPcp, OneMethod, InOrder, SInv',
           NEW i \in DOMAIN requests, Serve(i)
    PROVE  Lasting'
<1> DEFINE q == requests[i]
<1>0. Lasting /\ TInv /\ SInv /\ TInv' /\ Line
  BY DEF KInv, LInv, SInv
<1>1. /\ UNCHANGED <<held, task, lease, supported>>
      /\ ServeMoves(q)
  BY <1>0, ServeSummary
<1>2. q.method = "nat_pmp" /\ "nat_pmp" \in supported
  BY <1>0, Speaks DEF SInv, OfMethod
<1>3. "upnp" \notin supported
  BY <1>0, <1>2 DEF OneMethod, SInv, TInv, TypeOK
<1>4. Full = lease /\ Full' = lease
  BY <1>1, <1>3 DEF Full
<1>5. lease \in Nat /\ Timeout \in Nat /\ task.wait \in Nat /\ \A e \in table : e.ttl \in Nat
  BY <1>0, Numbers
<1>6. \A e \in table' : e.ttl <= Full'
  BY <1>0, <1>1, <1>4, <1>5, SMT DEF ServeMoves, Granted, Refuse, Lasting
<1>7. CASE q.kind # "release"
  <2>1. Preserved
    BY <1>0, <1>1, <1>4, <1>5, <1>7, SMT
       DEF ServeMoves, Granted, Refuse, Lasting, Preserved, SameEntry
  \* But for the response, Lasting is kept.
  <2>2. CASE replies' \subseteq replies
    BY <1>0, <1>1, <1>6, <2>1, <2>2, LastingKept
  <2>3. CASE ~(replies' \subseteq replies)
    <3>1. ASSUME NEW s \in replies' \ replies, s.kind = "map", task.stage = "map"
          PROVE  Maps(table', s.port, s.ext, lease + task.wait - Timeout)
      <4>1. PICK n \in table' : Granted(q, n)
        BY <1>1, <3>1, SMT DEF ServeMoves, Refuse, Response
      <4>2. s.port = n.port /\ s.ext = n.ext /\ n.ttl = lease
        BY <3>1, <4>1, SMT DEF Granted, Response
      <4>3. task.wait <= Timeout
        BY <1>0, <3>1 DEF Lasting
      <4> QED
        BY <1>5, <4>1, <4>2, <4>3, SMT DEF Maps
    <3>2. \A p, ext : \A n \in Int :
             Maps(table, p, ext, n) => Maps(table', p, ext, n)
      BY <1>0, <2>1, KeptMaps, SMT
    <3>3. Remaining' = Remaining /\ Slack' = Slack
      BY <1>1 DEF Remaining, Slack
    <3>4. /\ lease + task.wait - Timeout \in Int /\ 2 * Hour \in Int
          /\ lease + task.wait - 2 * Timeout \in Int /\ Remaining - Slack \in Int
      BY <1>0, Numbers, SMT
    <3>5. task.stage = "map" => \A s \in replies' : Own(s) /\ s.kind = "map" =>
                Maps(table', s.port, s.ext, lease + task.wait - Timeout)
      BY <1>0, <3>1, <3>2, <3>4 DEF Lasting
    <3>6. /\ task.stage = "addr" =>
                Maps(table', task.port, task.ext, lease + task.wait - 2 * Timeout)
          /\ task.stage = "added" => Maps(table', task.port, task.wanted, 2 * Hour)
          /\ task.stage = "any_added" => Maps(table', task.port, task.ext, 2 * Hour)
          /\ held # NoMapping => Maps(table', held.port, held.ext, Remaining - Slack)
          /\ task.stage = "map" => task.wait <= Timeout
      BY <1>0, <3>2, <3>4 DEF Lasting
    <3> QED
      BY <1>1, <1>6, <3>3, <3>5, <3>6 DEF Lasting, Own
  <2> QED
    BY <2>2, <2>3
\* Nothing is at stake when a release arrives.
<1>8. CASE q.kind = "release"
  <2>1. replies' = replies
    BY <1>1, <1>8 DEF ServeMoves
  <2>2. held = NoMapping
    BY <1>0, <1>8 DEF Line, Renewals
  <2>3. task.stage # "addr"
    BY <1>0, <1>8 DEF Line, AskingAddr
  <2>4. task.stage \notin {"added", "any_added"}
    BY <1>0, <1>3, SMT DEF SInv, OfMethod, Service, StageOf, NoTask
  <2>5. task.stage = "map" => task.wait <= Timeout /\ \A r \in replies : ~Own(r)
    BY <1>0, SMT DEF Line, Asking, Lasting
  <2> QED
    BY <1>1, <1>6, <2>1, <2>2, <2>3, <2>4, <2>5 DEF Lasting, Own
<1> QED
  BY <1>7, <1>8

LEMMA LastingResponse ==
    ASSUME KInv, WithoutPcp, SInv', NEW r \in replies, ResponseMoves(r)
    PROVE  Lasting'
<1>0. /\ Lasting /\ TInv /\ SInv /\ TInv' /\ Line /\ task # NoTask /\ Own(r)
      /\ replies' \subseteq replies /\ UNCHANGED <<table, lease, supported>>
      /\ task.method # "pcp" /\ NoTask.stage = "off"
  BY Speaks DEF KInv, LInv, SInv, ResponseMoves, Own, NoTask
<1>1. lease \in Nat /\ Timeout \in Nat /\ task.wait \in Nat
  BY <1>0, Numbers
<1>2. \A e \in table' : e.ttl <= Full'
  BY <1>0 DEF Lasting, Full
<1>3. table \in SUBSET Entry
  BY <1>0 DEF TInv, TypeOK
<1>4. CASE held' = held /\ task' = NoTask
  BY <1>0, <1>2, <1>4, SameTable, LastingKept
<1>5. CASE /\ task.method = "nat_pmp" /\ task.stage = "addr"
           /\ Accept(task.ext, task.lifetime \div 2)
  <2>1. Maps(table, task.port, task.ext, lease + task.wait - 2 * Timeout)
    BY <1>0, <1>5 DEF Lasting
  <2>2. /\ held'.port = task.port /\ held'.ext = task.ext /\ held'.method = "nat_pmp"
        /\ held'.half = lease \div 2 /\ held'.left = lease \div 2
        /\ held'.expire_after = FALSE /\ task' = NoTask
    BY <1>0, <1>5 DEF Accept, Line, AskingAddr
  <2>3. Remaining' = lease \div 2 + lease \div 2 /\ Slack' = 2 * Timeout
    BY <2>2 DEF Remaining, Slack
  <2>4. /\ Remaining' - Slack' <= lease + task.wait - 2 * Timeout
        /\ Remaining' - Slack' \in Int /\ lease + task.wait - 2 * Timeout \in Int
    BY <1>1, <2>3, SMT
  <2>5. Maps(table, held'.port, held'.ext, Remaining' - Slack')
    BY <1>3, <2>1, <2>2, <2>4, SameMaps
  <2> QED
    BY <1>0, <1>2, <2>2, <2>5 DEF Lasting
<1>6. CASE NatPmpMapped(r)
  <2>1. Maps(table, r.port, r.ext, lease + task.wait - Timeout)
    BY <1>0, <1>6 DEF Lasting, NatPmpMapped
  <2>2. /\ task'.stage = "addr" /\ task'.port = r.port /\ task'.ext = r.ext
        /\ task'.wait = Timeout /\ held' = held
    BY <1>6 DEF NatPmpMapped
  <2>3. /\ lease + Timeout - 2 * Timeout <= lease + task.wait - Timeout
        /\ lease + Timeout - 2 * Timeout \in Int /\ lease + task.wait - Timeout \in Int
    BY <1>1, SMT
  <2>4. Maps(table, r.port, r.ext, lease + Timeout - 2 * Timeout)
    BY <1>3, <2>1, <2>3, SameMaps
  <2>5. held' # NoMapping => Maps(table, held'.port, held'.ext, Remaining' - Slack')
    <3>1. Remaining' = Remaining /\ Slack' = Slack
      BY <2>2 DEF Remaining, Slack
    <3> QED
      BY <1>0, <2>2, <3>1 DEF Lasting
  <2> QED
    BY <1>0, <1>2, <2>2, <2>4, <2>5 DEF Lasting
<1> QED
  BY <1>0, <1>4, <1>5, <1>6 DEF ResponseMoves, Failed

LEMMA LastingUpnp ==
    ASSUME KInv, SInv', UpnpMoves
    PROVE  Lasting'
<1>0. /\ Lasting /\ TInv /\ SInv /\ TInv' /\ "upnp" \in supported
      /\ UNCHANGED <<held, replies, supported, lease>>
  BY DEF KInv, LInv, SInv, OfMethod, UpnpMoves, Staged
<1>1. /\ Full = 2 * Hour /\ Full' = 2 * Hour /\ Hour \in Nat
      /\ \A e \in table : e.ttl \in Nat /\ e.ttl <= 2 * Hour
      /\ \A e \in table : e.transport = Transport
  BY <1>0, Numbers DEF Full, Lasting, SInv, OfMethod
<1>2. /\ Preserved /\ \A e \in table' : e.ttl <= Full'
      /\ task'.stage \notin {"map", "addr"}
      /\ task'.stage = "added" => Maps(table', task'.port, task'.wanted, 2 * Hour)
      /\ task'.stage = "any_added" => Maps(table', task'.port, task'.ext, 2 * Hour)
  <2>1. CASE table' = table /\ task'.stage \in {"extip", "add", "any"}
    BY <1>0, <1>1, <2>1, SameTable
  <2>2. CASE /\ Free(task.wanted, task.port) /\ Staged({"added"})
             /\ \E n : /\ Added(n, task.wanted)
                       /\ table' = Without(task.wanted) \cup {n}
    <3>1. PICK n : /\ Added(n, task.wanted)
                   /\ table' = Without(task.wanted) \cup {n}
      BY <2>2
    <3>2. /\ task'.stage = "added" /\ task'.port = task.port
          /\ task'.wanted = task.wanted
      BY <2>2 DEF Staged
    <3>3. Preserved
      BY <1>1, <2>2, <3>1, SMT DEF Preserved, Added, Without, Free
    <3>4. \A e \in table' : e.ttl <= Full'
      BY <1>1, <3>1, SMT DEF Added, Without
    <3>5. Maps(table', task.port, task.wanted, 2 * Hour)
      BY <1>1, <3>1, SMT DEF Added, Maps
    <3> QED
      BY <3>2, <3>3, <3>4, <3>5
  <2>3. CASE /\ Staged({"any_added"})
             /\ \E n : Added(n, task'.ext) /\ table' = table \cup {n}
    <3>1. PICK n : Added(n, task'.ext) /\ table' = table \cup {n}
      BY <2>3
    <3>2. task'.stage = "any_added" /\ task'.port = task.port
      BY <2>3 DEF Staged
    <3>3. Preserved /\ \A e \in table' : e.ttl <= Full'
      BY <1>1, <3>1, SMT DEF Preserved, Added
    <3>4. Maps(table', task.port, task'.ext, 2 * Hour)
      BY <1>1, <3>1, SMT DEF Added, Maps
    <3> QED
      BY <3>2, <3>3, <3>4
  <2> QED
    BY <2>1, <2>2, <2>3 DEF UpnpMoves, Staged
<1>3. held' # NoMapping => Maps(table', held'.port, held'.ext, Remaining' - Slack')
  <2>1. Remaining' = Remaining /\ Slack' = Slack /\ Remaining - Slack \in Int
    BY <1>0, Numbers, SMT DEF Remaining, Slack
  <2> QED
    BY <1>0, <1>2, <2>1, KeptMaps, SMT DEF Lasting
<1> QED
  BY <1>2, <1>3 DEF Lasting

LEMMA LastingAccept ==
    ASSUME KInv, task.method = "upnp",
           \/ task.stage = "added" /\ Accept(task.wanted, Hour)
           \/ task.stage = "any_added" /\ Accept(task.ext, Hour),
           UNCHANGED <<replies, table, supported, lease>>
    PROVE  Lasting'
<1>0. Lasting /\ TInv /\ Hour \in Nat
  BY Numbers DEF KInv, LInv, SInv
<1>1. /\ task' = NoTask /\ held'.port = task.port /\ held'.method = "upnp"
      /\ held'.half = Hour /\ held'.left = Hour /\ held'.expire_after = FALSE
      /\ Maps(table, task.port, held'.ext, 2 * Hour)
  <2>1. /\ task.stage = "added" => Maps(table, task.port, task.wanted, 2 * Hour)
        /\ task.stage = "any_added" => Maps(table, task.port, task.ext, 2 * Hour)
    BY <1>0 DEF Lasting
  <2>2. \E ext : Accept(ext, Hour) /\ Maps(table, task.port, ext, 2 * Hour)
    BY <2>1
  <2>3. PICK ext : Accept(ext, Hour) /\ Maps(table, task.port, ext, 2 * Hour)
    BY <2>2
  <2>4. task' = NoTask /\ held'.ext = ext /\ held'.port = task.port
    BY <2>3 DEF Accept
  <2> QED
    BY <2>3, <2>4 DEF Accept
<1>2. Remaining' = Hour + Hour /\ Slack' = 0
  BY <1>1 DEF Remaining, Slack
<1>3. Remaining' - Slack' = 2 * Hour
  BY <1>0, <1>2, SMT
<1> QED
  BY <1>0, <1>1, <1>3 DEF Lasting, Full, NoTask

LEMMA LastingTick ==
    ASSUME KInv, TickMoves, "upnp" \in supported => task = NoTask
    PROVE  Lasting'
<1>0. /\ Lasting /\ TInv /\ SInv /\ UNCHANGED <<replies, supported, lease>>
      /\ NoTask.stage = "off"
  BY DEF KInv, LInv, SInv, TickMoves, NoTask
<1>1. /\ lease \in Nat /\ Timeout \in Nat /\ Hour \in Nat /\ task.wait \in Nat
      /\ Remaining \in Nat /\ Slack \in Nat /\ \A e \in table : e.ttl \in Nat
  BY <1>0, Numbers
<1>2. \A e \in table' : e.ttl <= Full'
  <2>1. \A e \in table' : \E f \in table : e.ttl = f.ttl - 1
    BY DEF TickMoves
  <2>2. Full' = Full /\ Full \in Nat
    BY <1>0, <1>1, SMT DEF Full
  <2> QED
    BY <1>0, <1>1, <2>1, <2>2, SMT DEF Lasting
<1>3. held' # NoMapping => Maps(table', held'.port, held'.ext, Remaining' - Slack')
  <2> SUFFICES ASSUME held' # NoMapping
               PROVE  Maps(table', held'.port, held'.ext, Remaining' - Slack')
    OBVIOUS
  <2>1. /\ held # NoMapping /\ held'.port = held.port /\ held'.ext = held.ext
        /\ held'.method = held.method /\ held'.half = held.half
        /\ held'.expire_after = held.expire_after /\ held'.left = held.left - 1
    BY DEF TickMoves, SameMapping
  <2>2. held.left \in Nat /\ held.half \in Nat
    BY <1>0, Numbers
  <2>3. Remaining' = Remaining - 1 /\ Slack' = Slack
    BY <2>1, <2>2, SMT DEF Remaining, Slack
  <2>4. Maps(table', held.port, held.ext, (Remaining - Slack) - 1)
    BY <1>0, <1>1, <2>1, TickMaps, SMT DEF Lasting
  <2>5. Remaining' - Slack' = (Remaining - Slack) - 1
    BY <1>1, <2>3, SMT
  <2> QED
    BY <2>1, <2>4, <2>5
<1>4. CASE task'.stage \notin {"map", "addr", "added", "any_added"}
  BY <1>2, <1>3, <1>4 DEF Lasting
<1>5. CASE task'.stage \in {"map", "addr", "added", "any_added"}
  <2>1. SameTask(task, task') /\ task # NoTask
    BY <1>0, <1>5 DEF TickMoves
  <2>2. "upnp" \notin supported /\ task.method # "upnp"
    BY <1>0, <2>1 DEF SInv, OfMethod
  <2>3. task'.stage \in {"map", "addr"} /\ task.stage = task'.stage
    BY <1>0, <1>5, <2>1, <2>2 DEF SameTask, SInv, Service, StageOf
  <2>4. /\ task'.wait = task.wait - 1 /\ task'.port = task.port /\ task'.ext = task.ext
        /\ task'.sock = task.sock /\ task' # NoTask
    BY <2>1, <2>3 DEF TickMoves, SameTask
  <2>5. /\ lease + task'.wait - Timeout = (lease + task.wait - Timeout) - 1
        /\ lease + task'.wait - 2 * Timeout = (lease + task.wait - 2 * Timeout) - 1
        /\ lease + task.wait - Timeout \in Int
        /\ lease + task.wait - 2 * Timeout \in Int
        /\ task.wait <= Timeout => task'.wait <= Timeout
    BY <1>1, <2>4, SMT
  <2>6. CASE task.stage = "map"
    <3>1. /\ task.wait <= Timeout
          /\ \A r \in replies : Own(r) /\ r.kind = "map" =>
                Maps(table', r.port, r.ext, (lease + task.wait - Timeout) - 1)
      BY <1>0, <2>5, <2>6, TickMaps DEF Lasting
    <3> QED
      BY <1>0, <1>2, <1>3, <2>1, <2>3, <2>4, <2>5, <2>6, <3>1, SMT DEF Lasting, Own
  <2>7. CASE task.stage = "addr"
    <3>1. Maps(table', task.port, task.ext, (lease + task.wait - 2 * Timeout) - 1)
      BY <1>0, <2>5, <2>7, TickMaps DEF Lasting
    <3> QED
      BY <1>0, <1>2, <1>3, <2>3, <2>4, <2>5, <2>7, <3>1, SMT DEF Lasting
  <2> QED
    BY <2>3, <2>6, <2>7
<1> QED
  BY <1>4, <1>5

LEMMA InitK == Init => KInv
<1> SUFFICES ASSUME Init PROVE KInv
  OBVIOUS
<1>1. task = NoTask /\ held = NoMapping /\ table = {} /\ replies = {} /\ requests = <<>>
  BY DEF Init
<1>2. Line
  BY <1>1 DEF Line, Asking, AskingAddr, Renewals, NoTask
<1>3. Lasting
  BY <1>1 DEF Lasting, NoTask
<1> QED
  BY <1>2, <1>3, InitS DEF KInv, LInv

\* The calls of UPnP have no timeout of their own, so that nothing bounds how late
\* the answer of the gateway may be; with UPnP time passes between attempts.
Prompt == Tick /\ "upnp" \in supported => Quiet

LEMMA StepK ==
    ASSUME OneMethod, InOrder, "reboot" \notin Faults, WithoutPcp, KInv,
           [Next]_vars, [Prompt]_vars
    PROVE  KInv'
<1>0. SInv /\ TInv /\ Line /\ Lasting /\ LInv
  BY DEF KInv, LInv, SInv
<1>1. SInv' /\ TInv'
  BY <1>0, StepS DEF SInv
<1>2. CASE UNCHANGED vars
  <2>1. Line'
    BY <1>0, <1>2, SMT DEF vars, Line, Asking, AskingAddr, Renewals, Own, MapRequest
  <2>2. Lasting'
    BY <1>0, <1>2 DEF vars, Lasting, Own, Full, Remaining, Slack, Maps
  <2> QED
    BY <1>1, <2>1, <2>2 DEF KInv, LInv
<1>3. CASE Next /\ ~UNCHANGED vars
  <2>1. Line'
    BY <1>0, <1>1, <1>3, StepLine
  <2>2. Lasting'
    <3>1. CASE ServiceAction
      BY <1>1, <3>1, LastingService
    <3>2. CASE \E r \in replies : ResponseMoves(r)
      BY <1>1, <3>2, LastingResponse
    <3>3. ASSUME table' = table, UNCHANGED <<held, lease, supported>>,
                 replies' \subseteq replies, task' = task \/ task' = NoTask
          PROVE  Lasting'
      <4>1. Preserved /\ \A e \in table' : e.ttl <= Full'
        BY <1>0, <3>3, SameTable DEF Lasting, Full
      <4> QED
        BY <1>1, <3>3, <4>1, LastingKept, SMT DEF NoTask
    <3>4. CASE \/ \E i \in DOMAIN requests : LoseRequest(i)
               \/ \E r \in replies : LoseReply(r)
      BY <3>3, <3>4 DEF LoseRequest, LoseReply, gateway
    <3>5. CASE /\ Failed
               /\ UNCHANGED <<port, held, releasing, requests, replies, table,
                              supported, lease>>
      BY <3>3, <3>5 DEF Failed
    <3>6. CASE UpnpMoves
      BY <1>1, <3>6, LastingUpnp
    <3>7. CASE /\ \/ task.stage = "added" /\ Accept(task.wanted, Hour)
                  \/ task.stage = "any_added" /\ Accept(task.ext, Hour)
               /\ task.method = "upnp"
               /\ UNCHANGED <<port, releasing, requests, replies, table,
                              supported, lease>>
      BY <3>7, LastingAccept
    <3>8. CASE \E i \in DOMAIN requests : Serve(i)
      BY <1>1, <3>8, LastingServe
    <3>9. CASE Tick
      <4>1. "upnp" \in supported => task = NoTask
        BY <1>3, <3>9 DEF Prompt, Quiet
      <4> QED
        BY <1>0, <3>9, <4>1, TickSummary, LastingTick
    <3> QED
      BY <1>0, <1>3, <3>1, <3>2, <3>4, <3>5, <3>6, <3>7, <3>8, <3>9, Steps, ZenonT(30)
         DEF Reboot
  <2> QED
    BY <1>1, <2>1, <2>2 DEF KInv, LInv
<1> QED
  BY <1>2, <1>3

LEMMA LastingHeld == KInv => HeldAtGateway
<1> SUFFICES ASSUME KInv, held.method # "none", Remaining > Slack PROVE Registered
  BY DEF HeldAtGateway
<1>1. /\ TInv /\ held # NoMapping /\ Lasting
      /\ \A e \in table : e.transport = Transport
  BY NoneTypes DEF KInv, LInv, SInv, OfMethod
<1>2. Remaining \in Nat /\ Slack \in Nat
  BY <1>1, Numbers
<1>3. ~(Remaining - Slack <= 0)
  BY <1>2, SMT
<1> QED
  BY <1>1, <1>3 DEF Lasting, Maps, Registered

\* What nat_pmp::Mapping and upnp::Mapping hold, the gateway has, although their
\* messages carry nothing that ties a response to its request: over a network
\* that loses and delays datagrams but keeps their order, by attempts that are
\* aborted, fail and start again at any time, up to the two timeouts the two
\* responses of NAT-PMP may have taken.
THEOREM HeldWithoutNonce ==
    ASSUME OneMethod, InOrder, "reboot" \notin Faults,
           \A g \in Gateways : "pcp" \notin g
    PROVE  Spec /\ [][Prompt]_vars => []HeldAtGateway
<1>1. Init => KInv
  BY InitK
<1>2. KInv /\ [Next]_vars /\ [Prompt]_vars => KInv'
  <2> SUFFICES ASSUME KInv, [Next]_vars, [Prompt]_vars PROVE KInv'
    OBVIOUS
  <2>1. WithoutPcp
    BY DEF WithoutPcp, KInv, LInv, SInv, TInv, TypeOK
  <2> QED
    BY <2>1, StepK
<1>3. KInv => HeldAtGateway
  BY LastingHeld
<1> QED
  BY <1>1, <1>2, <1>3, PTL DEF Spec

-----------------------------------------------------------------------------
(* Renewals do not fail.                                                   *)

\* In the table, ext leads to port p if anywhere.
Leads(entries, ext, p) == \A e \in entries : e.ext = ext => e.port = p

\* An external port that is held, or about to be, leads nowhere else, not even
\* after the gateway has forgotten its table.
Reserved ==
    /\ \A e, f \in table : e.ext = f.ext => e.port = f.port
    /\ task.stage = "map" => \A r \in replies : Own(r) /\ r.kind = "map" =>
          Leads(table, r.ext, r.port)
    /\ task.stage \in {"addr", "any_added"} => Leads(table, task.ext, task.port)
    /\ task.stage = "added" => Leads(table, task.wanted, task.port)
    /\ held # NoMapping => Leads(table, held.ext, held.port)

\* The mapping is in its second half only while its renewal is under way, which
\* has all its time left and which the gateway does not refuse.
Renewing ==
    /\ task # NoTask /\ task.method # "upnp" => task.wait > 0
    /\ held # NoMapping =>
          /\ held.half > 0
          /\ held.expire_after => task # NoTask /\ held.left > 0
          /\ task.method = "upnp" => task.stage \in {"search", "extip", "add", "added"}
          /\ task.stage = "map" => \A r \in replies : Own(r) => r.kind = "map"

WInv == LInv /\ Reserved /\ Renewing

\* The gateway grants at least two units of time, half of which is not zero, and
\* nothing is lost or late.
Answers == /\ Faults \subseteq {"reboot"}
           /\ \A l \in Lifetimes : l >= 2

LEMMA FewerLead ==
    ASSUME NEW S, NEW T, NEW ext, NEW p, T \subseteq S, Leads(S, ext, p)
    PROVE  Leads(T, ext, p)
BY DEF Leads

LEMMA RenewalService ==
    ASSUME WInv, Answers, ServiceAction, SInv'
    PROVE  Reserved' /\ Renewing'
<1>0. LInv /\ SInv /\ TInv /\ Reserved /\ Renewing
  BY DEF WInv, LInv, SInv
<1>1. /\ ServiceMoves /\ replies' = replies /\ table' \subseteq table
      /\ TaskMoves /\ "offline" \notin Faults /\ Timeout > 0 /\ InOrder
  BY <1>0, ServiceSummary, Numbers DEF ServiceMoves, Answers, InOrder
<1>2. held' # NoMapping =>
         /\ held # NoMapping /\ held'.port = held.port /\ held'.ext = held.ext
         /\ held'.half = held.half /\ held'.left = held.half /\ task' # NoTask
  BY <1>0, <1>1, ServiceHeld DEF ServiceMoves, MappingMoves, SameMapping
<1>3. /\ held' # NoMapping => Leads(table', held'.ext, held'.port)
      /\ \A e, f \in table' : e.ext = f.ext => e.port = f.port
  BY <1>0, <1>1, <1>2, FewerLead DEF Reserved
<1>4. CASE \E wanted : New(task', port', wanted)
  <2>1. /\ task'.stage \in {"map", "search", "extip"}
        /\ task'.method # "upnp" => task'.wait = Timeout /\ task'.stage = "map"
        /\ task'.method = "upnp" => task'.stage \in {"search", "extip"}
    BY <1>4 DEF New
  <2>2. task'.stage = "map" => \A r \in replies : r.sock # task'.sock
    BY <1>1, <1>4, NewSocket
  <2>3. Reserved'
    BY <1>1, <1>3, <2>1, <2>2 DEF Reserved, Own
  <2>4. Renewing'
    BY <1>0, <1>1, <1>2, <2>1, <2>2 DEF Renewing, Own
  <2> QED
    BY <2>3, <2>4
<1>5. CASE task' = task /\ task # NoTask
  <2>1. Reserved'
    BY <1>0, <1>1, <1>3, <1>5, FewerLead DEF Reserved, Own
  <2>2. Renewing'
    BY <1>0, <1>1, <1>2, <1>5 DEF Renewing, Own
  <2> QED
    BY <2>1, <2>2
<1>6. CASE task' = NoTask
  <2>1. held' = NoMapping
    BY <1>2, <1>6
  <2> QED
    BY <1>3, <1>6, <2>1 DEF Reserved, Renewing, NoTask
<1> QED
  BY <1>1, <1>4, <1>5, <1>6 DEF TaskMoves

LEMMA RenewalResponse ==
    ASSUME WInv, Answers, WithoutPcp, NEW r \in replies, ResponseMoves(r)
    PROVE  Reserved' /\ Renewing'
<1>0. /\ LInv /\ SInv /\ TInv /\ Reserved /\ Renewing /\ Line
      /\ task # NoTask /\ Own(r) /\ task.method # "pcp"
      /\ replies' \subseteq replies /\ table' = table
      /\ NoTask.stage = "off" /\ NoTask.method = "none"
  BY Speaks, NoneTypes DEF WInv, LInv, SInv, ResponseMoves, Own, NoTask
<1>1. CASE /\ task.method = "nat_pmp" /\ task.stage = "addr"
           /\ Accept(task.ext, task.lifetime \div 2)
  <2>1. /\ held'.port = task.port /\ held'.ext = task.ext /\ task' = NoTask
        /\ held'.half = lease \div 2 /\ held'.expire_after = FALSE
    BY <1>0, <1>1 DEF Accept, Line, AskingAddr
  <2>2. lease >= 2 /\ lease \in Nat
    BY <1>0, Numbers DEF Answers, TInv, TypeOK
  <2>3. lease \div 2 > 0
    BY <2>2, SMT
  <2>4. Leads(table, task.ext, task.port)
    BY <1>0, <1>1 DEF Reserved
  <2> QED
    BY <1>0, <2>1, <2>3, <2>4 DEF Reserved, Renewing
<1>2. CASE NatPmpMapped(r)
  <2>1. /\ task'.stage = "addr" /\ task'.port = r.port /\ task'.ext = r.ext
        /\ task'.wait = Timeout /\ held' = held /\ task' # NoTask
        /\ task'.method = "nat_pmp" /\ task.stage = "map" /\ r.kind = "map"
    BY <1>2 DEF NatPmpMapped
  <2>2. Leads(table, r.ext, r.port) /\ Timeout > 0
    BY <1>0, <2>1, Numbers DEF Reserved
  <2> QED
    BY <1>0, <2>1, <2>2 DEF Reserved, Renewing
\* A renewal is not answered by anything else.
<1>3. CASE /\ Failed /\ held' = held
           /\ \/ task.stage = "map" /\ ~NatPmpMatches(r)
              \/ task.stage = "addr" /\ ~(r.kind = "addr" /\ r.method = "nat_pmp")
  <2>1. held = NoMapping
    BY <1>0, <1>3 DEF Renewing, Line, Asking, AskingAddr, NatPmpMatches
  <2> QED
    BY <1>0, <1>3, <2>1 DEF Failed, Reserved, Renewing
<1> QED
  BY <1>0, <1>1, <1>2, <1>3 DEF ResponseMoves

\* A renewal asks for what it has, or for what nobody else has.
LEMMA RenewalGranted ==
    ASSUME WInv, WithoutPcp, OneMethod, held # NoMapping,
           NEW i \in DOMAIN requests, requests[i].kind = "map",
           requests[i].port = held.port, requests[i].wanted = held.ext
    PROVE  ~Refuse(requests[i])
<1> DEFINE q == requests[i]
<1>0. SInv /\ Reserved /\ held.ext \in Exts /\ supported \in Gateways
  BY DEF WInv, LInv, SInv, TInv, TypeOK, Mapping, Option
<1>1. /\ q.kind = "map" /\ q.port = held.port /\ q.wanted = held.ext
      /\ q.method \in supported \ {"upnp"} /\ q.transport = Transport
      /\ q.method # "pcp" /\ q.nonce = None
  BY <1>0 DEF SInv, OfMethod, NoNonces, WithoutPcp
<1>2. \A e \in table : /\ e.method = q.method /\ e.transport = q.transport
                       /\ e.nonce = None
  BY <1>0, <1>1 DEF SInv, OfMethod, NoNonces, OneMethod
<1> HIDE DEF q
<1>3. CASE Matching(q) = {}
  <2>1. \A e \in table : e.port # held.port
    BY <1>1, <1>2, <1>3 DEF Matching
  <2>2. \A e \in table : e.ext # held.ext
    BY <1>0, <2>1 DEF Reserved, Leads
  <2>3. Grantable(q) = {held.ext}
    BY <1>0, <1>1, <2>2 DEF Grantable
  <2> QED
    BY <1>3, <2>3 DEF Refuse, q
<1>4. CASE Matching(q) # {}
  <2>1. PICK e \in Matching(q) : TRUE
    BY <1>4
  <2>2. e.nonce = q.nonce
    BY <1>1, <1>2 DEF Matching
  <2> QED
    BY <1>4, <2>1, <2>2 DEF Refuse, q
<1> QED
  BY <1>3, <1>4

LEMMA RenewalServe ==
    ASSUME WInv, WithoutPcp, OneMethod, SInv', NEW i \in DOMAIN requests, Serve(i)
    PROVE  Reserved' /\ Renewing'
<1> DEFINE q == requests[i]
<1>0. /\ LInv /\ SInv /\ TInv /\ Reserved /\ Renewing /\ Line
      /\ requests \in Seq(Request)
  BY DEF WInv, LInv, SInv, TInv, TypeOK
<1>1. /\ UNCHANGED <<held, task, lease>> /\ ServeMoves(q)
  BY <1>0, ServeSummary
<1>2. /\ q.method = "nat_pmp" /\ "nat_pmp" \in supported
      /\ q.kind = "map" => q.transport = Transport
      /\ \A e \in table : e.transport = Transport
  BY <1>0, Speaks DEF SInv, OfMethod
<1>3. "upnp" \notin supported
  BY <1>0, <1>2 DEF OneMethod, SInv, TInv, TypeOK
<1>4. task.stage \notin {"added", "any_added"} /\ task.method # "upnp"
  BY <1>0, <1>3, NoneTypes DEF SInv, OfMethod, Service, StageOf
\* What is about to be held, and the renewal of what is.
<1>5. /\ task.stage = "addr" => q.kind = "addr"
      /\ task.stage = "map" => \A r \in replies : ~Own(r)
      /\ held # NoMapping => \/ q.kind = "addr"
                             \/ /\ q.kind = "map" /\ q.port = held.port
                                /\ q.wanted = held.ext
  BY <1>0, SMT DEF Line, Asking, AskingAddr, Renewals
<1>6. held # NoMapping /\ q.kind = "map" => ~Refuse(q)
  BY <1>5, RenewalGranted
<1> HIDE DEF q
<1>7. \/ table' \subseteq table
      \/ /\ q.kind = "map"
         /\ \E n \in table' : /\ n.port = q.port /\ table' \subseteq table \cup {n}
                              /\ \/ \A e \in table : e.ext # n.ext
                                 \/ \E e \in table : SameEntry(e, n)
  BY <1>1, <1>2, ZenonT(30) DEF ServeMoves, Granted, Refuse, Grantable
<1>8. \A e, f \in table' : e.ext = f.ext => e.port = f.port
  <2>1. \A e, f \in table : e.ext = f.ext => e.port = f.port
    BY <1>0 DEF Reserved
  <2> QED
    BY <1>7, <2>1, SMT DEF SameEntry
<1>9. ASSUME NEW s \in replies', Own(s), task.stage = "map"
      PROVE  /\ s.kind = "map" => Leads(table', s.ext, s.port)
             /\ held # NoMapping => s.kind = "map"
  <2>1. s \in replies' \ replies
    BY <1>5, <1>9
  <2>2. PICK k, x : /\ s = Response(q, k, x)
                    /\ q.kind = "map"
                    /\ \/ k = "map" /\ \E n \in table' : Granted(q, n) /\ x = n.ext
                       \/ k = "refused" /\ Refuse(q)
    <3>1. q.kind = "addr" => FALSE
      <4>1. q.kind = "addr" => s.sock = q.sock
        BY <1>1, <2>1, ServeReplies
      <4>2. q.kind # "addr" \/ ~Own(q)
        BY <1>0, <1>9, SMT DEF Line, Asking, MapRequest, q
      <4> QED
        BY <1>9, <4>1, <4>2 DEF Own
    <3> QED
      BY <1>1, <2>1, <3>1 DEF ServeMoves, Granted, Refuse
  <2>3. s.kind = k /\ s.ext = x /\ s.port = q.port
    BY <2>2 DEF Response
  <2>4. s.kind = "map" => Leads(table', s.ext, s.port)
    BY <1>8, <2>2, <2>3 DEF Granted, Leads
  <2> QED
    BY <1>6, <2>2, <2>3, <2>4
<1>10. held # NoMapping => Leads(table', held.ext, held.port)
  BY <1>0, <1>5, <1>7, SMT DEF Reserved, Leads
<1>11. task.stage = "addr" => Leads(table', task.ext, task.port)
  BY <1>0, <1>5, <1>7, FewerLead DEF Reserved
<1>12. Reserved'
  BY <1>1, <1>4, <1>8, <1>9, <1>10, <1>11 DEF Reserved, Own
<1>13. Renewing'
  BY <1>0, <1>1, <1>4, <1>9 DEF Renewing, Own
<1> QED
  BY <1>12, <1>13

LEMMA RenewalUpnp ==
    ASSUME WInv, Answers, SInv', UpnpMoves
    PROVE  Reserved' /\ Renewing'
<1>0. /\ SInv /\ Reserved /\ Renewing /\ UNCHANGED <<held, replies>>
      /\ task # NoTask /\ task' # NoTask /\ task.method = "upnp"
      /\ task'.method = "upnp" /\ "lose" \notin Faults
      /\ task'.port = task.port /\ task'.wanted = task.wanted
      /\ \A e \in table : e.transport = Transport
  BY DEF WInv, LInv, UpnpMoves, Staged, Answers, SInv, OfMethod
<1>1. held # NoMapping =>
         /\ task.wanted = held.ext /\ task.port = held.port /\ task.wanted # None
         /\ task.stage \in {"search", "extip", "add", "added"}
         /\ Free(task.wanted, task.port)
  BY <1>0 DEF SInv, TInv, TypeOK, Service, Renewing, Reserved, Leads, Free
<1>2. held # NoMapping => task'.stage \in {"extip", "add", "added"}
  BY <1>0, <1>1 DEF UpnpMoves, Staged
<1>3. Renewing'
  BY <1>0, <1>2 DEF Renewing
<1>4. CASE table' = table /\ task'.stage \in {"extip", "add", "any"}
  BY <1>0, <1>3, <1>4 DEF Reserved
<1>5. CASE /\ Staged({"added"})
           /\ \E n : /\ Added(n, task.wanted)
                     /\ table' = Without(task.wanted) \cup {n}
  <2>1. PICK n : /\ Added(n, task.wanted)
                 /\ table' = Without(task.wanted) \cup {n}
    BY <1>5
  <2>2. /\ n.ext = task.wanted /\ n.port = task.port
        /\ \A e \in table' : e = n \/ (e \in table /\ e.ext # task.wanted)
    BY <1>0, <2>1 DEF Added, Without
  <2>3. \A e, f \in table' : e.ext = f.ext => e.port = f.port
    BY <1>0, <2>2, SMT DEF Reserved
  <2>4. Leads(table', task.wanted, task.port)
    BY <2>2 DEF Leads
  <2> QED
    BY <1>0, <1>1, <1>3, <1>5, <2>3, <2>4, SMT DEF Reserved, Staged
<1>6. CASE /\ task.stage = "any" /\ Staged({"any_added"})
           /\ \E n : /\ Added(n, task'.ext) /\ table' = table \cup {n}
                     /\ \A e \in table : e.ext # task'.ext \/ e.transport # Transport
  <2>1. PICK n : /\ Added(n, task'.ext) /\ table' = table \cup {n}
                 /\ \A e \in table : e.ext # task'.ext
    BY <1>0, <1>6
  <2>2. n.ext = task'.ext /\ n.port = task.port /\ task'.stage = "any_added"
    BY <1>6, <2>1 DEF Added, Staged
  <2>3. \A e, f \in table' : e.ext = f.ext => e.port = f.port
    BY <1>0, <2>1, <2>2, SMT DEF Reserved
  <2>4. Leads(table', task'.ext, task'.port)
    BY <1>0, <2>1, <2>2 DEF Leads
  <2>5. held = NoMapping
    BY <1>1, <1>6
  <2> QED
    BY <1>0, <1>3, <2>2, <2>3, <2>4, <2>5 DEF Reserved
<1> QED
  BY <1>0, <1>4, <1>5, <1>6 DEF UpnpMoves, Staged

LEMMA InitW == Init => WInv
<1> SUFFICES ASSUME Init PROVE WInv
  OBVIOUS
<1>1. task = NoTask /\ held = NoMapping /\ table = {}
  BY DEF Init
<1>2. Reserved /\ Renewing
  BY <1>1 DEF Reserved, Renewing, NoTask
<1> QED
  BY <1>2, InitK DEF WInv, KInv

LEMMA StepW ==
    ASSUME OneMethod, Answers, WithoutPcp, WInv, [Next]_vars
    PROVE  WInv'
<1>0. SInv /\ TInv /\ Line /\ LInv /\ Reserved /\ Renewing /\ InOrder
  BY DEF WInv, LInv, SInv, Answers, InOrder
<1>1. SInv' /\ TInv'
  BY <1>0, StepS DEF SInv
<1>2. CASE UNCHANGED vars
  <2>1. Line'
    BY <1>0, <1>2, SMT DEF vars, Line, Asking, AskingAddr, Renewals, Own, MapRequest
  <2>2. Reserved' /\ Renewing'
    BY <1>0, <1>2 DEF vars, Reserved, Renewing, Own, Leads
  <2> QED
    BY <1>1, <2>1, <2>2 DEF WInv, LInv
<1>3. CASE Next
  <2>1. Line'
    BY <1>0, <1>1, <1>3, StepLine
  <2>2. Reserved' /\ Renewing'
    <3>1. CASE ServiceAction
      BY <1>1, <3>1, RenewalService
    <3>2. CASE \E r \in replies : ResponseMoves(r)
      BY <3>2, RenewalResponse
    <3>3. ASSUME NEW r \in replies, LoseReply(r)
          PROVE  Reserved' /\ Renewing'
      <4>1. UNCHANGED <<held, task, table>> /\ replies' \subseteq replies
        BY <3>3 DEF LoseReply
      <4> QED
        BY <1>0, <4>1 DEF Reserved, Renewing, Own
    <3>4. \A i \in DOMAIN requests : ~LoseRequest(i)
      BY DEF LoseRequest, Answers
    \* Only an attempt that renews nothing fails.
    <3>5. CASE /\ Failed /\ task # NoTask
               /\ \/ "lose" \in Faults
                  \/ task.stage \in {"map", "addr"} /\ task.wait = 0
                  \/ task.stage = "any"
               /\ UNCHANGED <<port, held, releasing, requests, replies, table,
                              supported, lease>>
      <4>1. task.stage = "any" => task.method = "upnp"
        BY <1>0 DEF SInv, Service, StageOf
      <4>2. task.stage \in {"map", "addr"} => task.method # "upnp"
        BY <1>0 DEF SInv, Service, StageOf
      <4>3. held = NoMapping
        BY <1>0, <3>5, <4>1, <4>2, SMT DEF Renewing, Answers
      <4> QED
        BY <1>0, <3>5, <4>3, NoneTypes DEF Failed, Reserved, Renewing, NoTask
    <3>6. CASE UpnpMoves
      BY <1>1, <3>6, RenewalUpnp
    <3>7. CASE /\ \/ task.stage = "added" /\ Accept(task.wanted, Hour)
                  \/ task.stage = "any_added" /\ Accept(task.ext, Hour)
               /\ task.method = "upnp"
               /\ UNCHANGED <<port, releasing, requests, replies, table,
                              supported, lease>>
      <4>1. /\ task' = NoTask /\ held'.half = Hour /\ held'.expire_after = FALSE
            /\ Hour > 0 /\ Leads(table, held'.ext, held'.port)
        BY <1>0, <3>7, Numbers, SMT DEF Accept, Reserved
      <4> QED
        BY <1>0, <3>7, <4>1, NoneTypes DEF Reserved, Renewing, NoTask
    <3>8. CASE \E i \in DOMAIN requests : Serve(i)
      BY <1>1, <3>8, RenewalServe
    <3>9. CASE Tick
      <4>1. TickMoves /\ task = NoTask
        BY <1>0, <3>9, TickSummary DEF Tick, Quiet, Answers
      <4>2. /\ task' = NoTask
            /\ \A f \in table' : \E e \in table : SameEntry(e, f)
            /\ held' # NoMapping =>
                  /\ held # NoMapping /\ held'.port = held.port
                  /\ held'.ext = held.ext /\ held'.half = held.half
                  /\ held'.expire_after = held.expire_after
        BY <4>1 DEF TickMoves, SameMapping
      <4>3. Reserved'
        BY <1>0, <4>2, SMT DEF Reserved, Leads, SameEntry, NoTask
      <4>4. Renewing'
        BY <1>0, <4>1, <4>2, NoneTypes DEF Renewing, NoTask
      <4> QED
        BY <4>3, <4>4
    <3>10. CASE Reboot
      <4>1. UNCHANGED <<held, task, replies>> /\ table' = {}
        BY <3>10 DEF Reboot
      <4> QED
        BY <1>0, <4>1 DEF Reserved, Renewing, Leads, Own
    <3> QED
      BY <1>0, <1>3, <3>1, <3>2, <3>3, <3>4, <3>5, <3>6, <3>7, <3>8, <3>9,
         <3>10, Steps
  <2> QED
    BY <1>1, <2>1, <2>2 DEF WInv, LInv
<1> QED
  BY <1>2, <1>3

\* Event::Renew: a mapping of NAT-PMP or UPnP is renewed in its second half and
\* does not expire, if nothing is lost or late, although the gateway may forget
\* its table at any time and clients, ports and attempts come and go: the renewal
\* asks for the external port the mapping has, which the gateway has given to
\* nobody else.
THEOREM MappingsRenewedInTime ==
    ASSUME OneMethod, Answers
    PROVE  Spec => []RenewedInTime
<1> DEFINE I == SInv /\ (WithoutPcp => WInv)
<1>1. Init => I
  BY InitW, InitS
<1>2. I /\ [Next]_vars => I'
  <2> SUFFICES ASSUME I, [Next]_vars PROVE I'
    OBVIOUS
  <2>1. SInv'
    BY StepS
  <2>2. ASSUME WithoutPcp' PROVE WInv'
    <3>1. supported' = supported
      BY DEF Next, vars, gateway, Upnp, Receives, PcpResponse, NatPmpMapResponse,
             NatPmpAddrResponse, LoseReply, AttemptFails, UpnpSearched,
             UpnpExternalIp, UpnpAddPort, UpnpAddAnyPort, UpnpAdded,
             UpnpAddPortFails, UpdateLocalPort, Release, ReleaseFails,
             ProcureMapping, MappingEvent, DropClient, Serve, LoseRequest,
             Reboot, Tick
    <3>2. WithoutPcp
      BY <2>2, <3>1 DEF WithoutPcp
    <3> QED
      BY <3>2, StepW
  <2> QED
    BY <2>1, <2>2
<1>3. I => RenewedInTime
  <2> SUFFICES ASSUME WInv, held.expire_after, held.left = 0 PROVE FALSE
    BY DEF RenewedInTime, WithoutPcp
  <2>1. held # NoMapping
    BY SMT DEF NoMapping
  <2> QED
    BY <2>1, SMT DEF WInv, Renewing
<1> HIDE DEF I
<1> QED
  BY <1>1, <1>2, <1>3, PTL DEF Spec
=============================================================================
