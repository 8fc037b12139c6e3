---------------------------- MODULE NetMonProofs ----------------------------
(***************************************************************************)
(* The monitor keeps its types, lets go of no closure the system may still *)
(* call, implements InterfaceWatch and loses no change that was announced, *)
(* for any interfaces, capacities and bounds and on every platform.        *)
(***************************************************************************)
EXTENDS NetMon, TLAPS

-----------------------------------------------------------------------------
(* Queues.                                                                 *)

\* What is appended to a queue of announcements is its last message.
LEMMA AppendFacts ==
    ASSUME NEW M, NEW q \in Seq(M), NEW m \in M
    PROVE  /\ Append(q, m) \in Seq(M)
           /\ Len(Append(q, m)) = Len(q) + 1
           /\ \A k \in 1..Len(q) : Append(q, m)[k] = q[k]
           /\ Append(q, m)[Len(q) + 1] = m
    OBVIOUS

\* Taking the first message of a queue moves the others up.
LEMMA TailFacts ==
    ASSUME NEW M, NEW q \in Seq(M), q # <<>>
    PROVE  /\ Head(q) \in M /\ Head(q) = q[1]
           /\ Tail(q) \in Seq(M)
           /\ Len(q) \in Nat /\ Len(q) > 0
           /\ Len(Tail(q)) = Len(q) - 1
           /\ \A k \in 1..Len(Tail(q)) : Tail(q)[k] = q[k + 1]
    OBVIOUS

-----------------------------------------------------------------------------
(* Types.                                                                  *)

\* The bounds, one by one.
LEMMA Bounds ==
    /\ MonCap \in Nat \ {0} /\ ActorCap \in Nat \ {0}
    /\ MaxChanges \in Nat /\ MaxCalls \in Nat /\ MaxJumps \in Nat /\ MaxFaults \in Nat
    BY ConstantsAssumption

SpentType == [changes : 0..MaxChanges, calls : 0..MaxCalls,
              jumps : 0..MaxJumps, faults : 0..MaxFaults]

\* No bound is ever overdrawn.
LEMMA SpendType ==
    ASSUME spent \in SpentType,
           \/ Spend("changes", MaxChanges) \/ Spend("calls", MaxCalls)
           \/ Spend("jumps", MaxJumps) \/ Spend("faults", MaxFaults)
    PROVE  spent' \in SpentType
    BY Bounds DEF SpentType, Spend

\* The system's changes keep the types, whatever is announced.
LEMMA ChangeType ==
    ASSUME TypeOK, NEW net \in Network, NEW m \in Message, SystemChange(net, m)
    PROVE  TypeOK'
<1>1. queue' \in Seq(Message) /\ ready' \in BOOLEAN /\ mon' \in 0..MonCap
    <2>1. queue \in Seq(Message) /\ Append(queue, m) \in Seq(Message)
        BY AppendFacts DEF TypeOK
    <2>2. mon \in 0..MonCap /\ (mon < MonCap => mon + 1 \in 0..MonCap) /\ ready \in BOOLEAN
        BY Bounds DEF TypeOK
    <2>3. Announce(m)
        BY DEF SystemChange
    <2>4. queue' \in Seq(Message)
        BY <2>1, <2>3, Zenon DEF Announce
    <2>5. ready' \in BOOLEAN
        BY <2>2, <2>3, Zenon DEF Announce
    <2>6. mon' \in 0..MonCap
        BY <2>2, <2>3 DEF Announce, TrySend
    <2> QED BY <2>4, <2>5, <2>6
<1>2. spent' \in SpentType
    BY SpendType DEF SystemChange, TypeOK, SpentType
<1>3. sys' \in Network /\ window' \subseteq Network /\ unannounced' \in BOOLEAN
    BY DEF SystemChange, TypeOK
<1> QED BY <1>1, <1>2, <1>3 DEF SystemChange, TypeOK, SpentType, readVars, actorVars

\* What a message says of the change to net it announces.
Effect(net, m) ==
    \/ /\ m.t = "new" /\ m.i \in Ifaces /\ net.up = sys.up \cup {m.i}
       /\ net.flags = sys.flags /\ net.route = sys.route
    \/ /\ m.t = "del" /\ m.i \in Ifaces /\ net.up = sys.up \ {m.i}
       /\ m = [t |-> "del", i |-> m.i]
       /\ net.flags = sys.flags /\ net.route = sys.route
    \/ m.t = "route" /\ net.up = sys.up /\ net.flags = sys.flags
    \/ m.t = "local" /\ net = sys
    \/ m.t = "link" /\ net.up = sys.up /\ net.route = sys.route

\* What each change of the system announces.
LEMMA SystemCases ==
    ASSUME TypeOK, System
    PROVE  \E net \in Network, m \in Message : Effect(net, m) /\ SystemChange(net, m)
<1> DEFINE Announced == \E net \in Network, m \in Message : Effect(net, m) /\ SystemChange(net, m)
<1>0. sys \in [up : SUBSET Ifaces, flags : BOOLEAN, detail : BOOLEAN,
               route : Ifaces \cup {NoIface}]
    BY DEF TypeOK, Network
<1>1. ASSUME NEW i \in Ifaces, AddrAdd(i) PROVE Announced
    <2> DEFINE net == [sys EXCEPT !.up = @ \cup {i}]
               m == [t |-> "new", i |-> i]
    <2>1. net \in Network /\ m \in Message /\ Effect(net, m)
        BY <1>0 DEF Network, Message, Effect
    <2> QED BY <1>1, <2>1 DEF AddrAdd
<1>2. ASSUME NEW i \in Ifaces, AddrDel(i) PROVE Announced
    <2> DEFINE net == [sys EXCEPT !.up = @ \ {i}]
               m == [t |-> "del", i |-> i]
    <2>1. net \in Network /\ m \in Message /\ Effect(net, m)
        BY <1>0 DEF Network, Message, Effect
    <2> QED BY <1>2, <2>1 DEF AddrDel
<1>3. ASSUME NEW i \in Ifaces, AddrUpdate(i) PROVE Announced
    <2> DEFINE net == [sys EXCEPT !.detail = ~ @]
               m == [t |-> "new", i |-> i]
    <2>1. net \in Network /\ m \in Message /\ net.up = sys.up /\ net.flags = sys.flags
          /\ net.route = sys.route /\ m.t = "new" /\ m.i = i
        BY <1>0, Zenon DEF Network, Message
    <2>2. i \in sys.up
        BY <1>3 DEF AddrUpdate
    <2>3. Effect(net, m)
        BY <2>1, <2>2 DEF Effect
    <2> QED BY <1>3, <2>1, <2>3 DEF AddrUpdate
<1>4. ASSUME NEW r \in Ifaces \cup {NoIface}, RouteChange(r) PROVE Announced
    <2> DEFINE net == [sys EXCEPT !.route = r]
               m == [t |-> "route", i |-> NoIface]
    <2>1. net \in Network /\ m \in Message /\ Effect(net, m)
        BY <1>0 DEF Network, Message, Effect
    <2> QED BY <1>4, <2>1 DEF RouteChange
<1>5. ASSUME LocalRouteChange PROVE Announced
    <2> DEFINE m == [t |-> "local", i |-> NoIface]
    <2>1. sys \in Network /\ m \in Message /\ Effect(sys, m)
        BY <1>0 DEF Network, Message, Effect
    <2> QED BY <1>5, <2>1 DEF LocalRouteChange
<1>6. ASSUME LinkChange PROVE Announced
    <2> DEFINE net == [sys EXCEPT !.flags = ~ @]
               m == [t |-> "link", i |-> NoIface]
    <2>1. net \in Network /\ m \in Message /\ Effect(net, m)
        BY <1>0, Zenon DEF Network, Message, Effect
    <2> QED BY <1>6, <2>1 DEF LinkChange
<1> QED BY <1>1, <1>2, <1>3, <1>4, <1>5, <1>6 DEF System

\* The types of what the monitor keeps of its subscription.
SubTypes ==
    /\ subs \subseteq {"addr", "route", "link"}
    /\ callbacks \subseteq {"addr", "route"}
    /\ queue \in Seq(Message)
    /\ ready \in BOOLEAN /\ draining \in BOOLEAN
    /\ addr_cache \subseteq Ifaces

\* A subscription that starts or ends keeps them.
LEMMA SubscriptionType ==
    ASSUME SubTypes, Subscribe \/ Unsubscribed \/ UNCHANGED subVars
    PROVE  SubTypes'
<1>1. CASE Subscribe
    <2>1. SocketGroups \subseteq {"addr", "route", "link"} /\ <<>> \in Seq(Message)
        BY DEF SocketGroups
    <2> QED BY <1>1, <2>1, Zenon DEF Subscribe, SubTypes
<1>2. CASE Unsubscribed
    <2>1. {} \subseteq {"addr", "route", "link"} /\ <<>> \in Seq(Message)
        OBVIOUS
    <2> QED BY <1>2, <2>1, Zenon DEF Unsubscribed, SubTypes
<1>3. CASE UNCHANGED subVars
    BY <1>3 DEF subVars, SubTypes
<1> QED BY <1>1, <1>2, <1>3

\* The notifications RouteMonitor::new of Windows asks for.
LEMMA TwoNotifications ==
    Len(Notifications) = 2 /\ Notifications[1] = "addr" /\ Notifications[2] = "route"
    BY DEF Notifications

\* Every step keeps every variable in its type: the channels stay within
\* their capacities on every path that sends to them.
LEMMA StepType == TypeOK /\ [Next]_vars => TypeOK'
<1> SUFFICES ASSUME TypeOK, [Next]_vars PROVE TypeOK'
    OBVIOUS
<1> USE Bounds
<1>0. SubTypes
    BY DEF TypeOK, SubTypes
<1>1. CASE System
    BY <1>1, SystemCases, ChangeType
<1>2. CASE RouteMonitorNew
    <2> USE DEF RouteMonitorNew, sysVars, readVars, actorVars
    <2>1. CASE SpawnMonitor
        BY <1>2, <2>1 DEF SpawnMonitor, subVars, TypeOK
    <2>2. CASE OpenRouteSocket
        <3>1. spent' \in SpentType
            BY <2>2, SpendType DEF OpenRouteSocket, TypeOK, SpentType
        <3>2. SubTypes' /\ pc' \in {"run", "stopped"}
            BY <2>2, <1>0, SubscriptionType DEF OpenRouteSocket
        <3> QED BY <1>2, <3>1, <3>2 DEF TypeOK, SpentType, SubTypes
    <2>3. CASE RegisterCallback
        <3>1. spent' \in SpentType
            BY <2>3, SpendType DEF RegisterCallback, TypeOK, SpentType
        <3>2. /\ subs' \subseteq {"addr", "route", "link"} /\ callbacks' \subseteq {"addr", "route"}
              /\ pc' \in {"monitor", "run", "unregister"}
            <4>1. /\ subs \subseteq {"addr", "route", "link"} /\ callbacks \subseteq {"addr", "route"}
                  /\ \A k \in 1..Len(Notifications) : Notifications[k] \in {"addr", "route"}
                BY TwoNotifications DEF TypeOK
            <4> HIDE DEF Notifications
            <4> QED BY <2>3, <4>1, Zenon DEF RegisterCallback
        <3> QED BY <1>2, <2>3, <3>1, <3>2 DEF TypeOK, SpentType, RegisterCallback
    <2> QED BY <1>2, <2>1, <2>2, <2>3
<1>3. CASE Reconnect \/ ReconnectFails \/ ConnectionLost
    <2>1. spent' \in SpentType
        BY <1>3, SpendType DEF Reconnect, ReconnectFails, ConnectionLost, TypeOK, SpentType
    <2>2. SubTypes'
        BY <1>3, <1>0, SubscriptionType DEF Reconnect, ReconnectFails, ConnectionLost
    <2>3. unannounced' \in BOOLEAN
        BY <1>3, Zenon DEF Reconnect, ReconnectFails, ConnectionLost, TypeOK
    <2>4. UNCHANGED <<sysVars, mon, calls, pc, readVars, interface_state, actorVars>>
        BY <1>3 DEF Reconnect, ReconnectFails, ConnectionLost
    <2> QED BY <2>1, <2>2, <2>3, <2>4 DEF TypeOK, SpentType, SubTypes, sysVars, readVars, actorVars
<1>4. CASE process_messages
    <2>1. /\ Head(queue) \in Message /\ Tail(queue) \in Seq(Message)
          /\ Head(queue).t = "new" => Head(queue).i \in Ifaces
        BY <1>4, TailFacts DEF process_messages, TypeOK, Message
    <2>2. addr_cache' \subseteq Ifaces
        BY <1>4, <2>1, Zenon DEF process_messages, Cached, TypeOK
    <2>3. mon' \in 0..MonCap
        <3>1. mon \in 0..MonCap /\ (mon < MonCap => mon + 1 \in 0..MonCap)
            BY DEF TypeOK
        <3> QED BY <1>4, <3>1, Zenon DEF process_messages
    <2> QED BY <1>4, <2>1, <2>2, <2>3 DEF process_messages, TypeOK, sysVars, readVars, actorVars
<1>5. CASE AwaitReadable
    BY <1>5 DEF AwaitReadable, TypeOK, sysVars, readVars, actorVars
<1>6. CASE read_available
    <2>1. queue' \in Seq(Message)
        <3>1. CASE queue = <<>>
            BY <1>6, <3>1 DEF read_available, TypeOK
        <3>2. CASE queue # <<>>
            <4>1. Tail(queue) \in Seq(Message)
                BY <3>2, TailFacts DEF TypeOK
            <4> QED BY <1>6, <3>2, <4>1, Zenon DEF read_available
        <3> QED BY <3>1, <3>2
    <2>2. mon' \in 0..MonCap
        <3>1. mon \in 0..MonCap /\ (mon < MonCap => mon + 1 \in 0..MonCap)
            BY DEF TypeOK
        <3> QED BY <1>6, <3>1, Zenon DEF read_available
    <2>3. ready' \in BOOLEAN /\ draining' \in BOOLEAN
        BY <1>6, Zenon DEF read_available, TypeOK
    <2> QED BY <1>6, <2>1, <2>2, <2>3 DEF read_available, TypeOK, sysVars, readVars, actorVars
<1>7. CASE UnregisterCallback
    <2>1. callbacks' \subseteq {"addr", "route"} /\ subs' \subseteq {"addr", "route", "link"}
        BY <1>7, Zenon DEF UnregisterCallback, Unregister, TypeOK
    <2>2. pc' \in {"unregister", "stopped"}
        BY <1>7 DEF UnregisterCallback, TypeOK
    <2>3. UNCHANGED <<sysVars, queue, ready, draining, addr_cache, mon, calls, readVars,
                      interface_state, actorVars, spent, unannounced>>
        BY <1>7 DEF UnregisterCallback, Unregister
    <2> QED BY <2>1, <2>2, <2>3 DEF TypeOK, sysVars, readVars, actorVars
<1>8. CASE ActorNew \/ Debounced \/ ReadDefaultRoute
    <2>1. [snap EXCEPT !.route = sys.route] \in Network
        BY DEF TypeOK, Network
    <2>2. snap' \in Network /\ reading' \in {"route", "done"} /\ unannounced' \in BOOLEAN
        BY <1>8, <2>1, Zenon DEF ActorNew, Debounced, ReadDefaultRoute, ReadInterfaces, TypeOK, sysVars
    <2>3. UNCHANGED <<sysVars, subVars, mon, calls, pc, interface_state, actorVars, spent>>
        BY <1>8 DEF ActorNew, Debounced, ReadDefaultRoute
    <2> QED BY <2>2, <2>3 DEF TypeOK, sysVars, subVars, actorVars
<1>9. CASE FirstState \/ handle_potential_change
    <2>1. snap \in Network /\ sys \in Network /\ 0 \in 0..MaxJumps /\ spent.jumps \in 0..MaxJumps
        BY DEF TypeOK
    <2>2. interface_state' \in [net : Network \cup {NoState}, last_unsuspend : 0..MaxJumps]
        BY <1>9, <2>1 DEF FirstState, handle_potential_change, Publish, TypeOK
    <2>3. window' \subseteq Network /\ reading' = "no" /\ pc' \in {"monitor", "run"}
        BY <1>9, <2>1 DEF FirstState, handle_potential_change, Publish, TypeOK
    <2>4. pending_change' \in BOOLEAN /\ pending_time_jump' \in BOOLEAN /\ due' \in BOOLEAN
        BY <1>9, Zenon DEF FirstState, handle_potential_change, TypeOK, actorVars
    <2>5. UNCHANGED <<platform, sys, snap, subVars, mon, calls, spent, unannounced>>
        BY <1>9 DEF FirstState, handle_potential_change
    <2> QED BY <2>2, <2>3, <2>4, <2>5 DEF TypeOK, subVars
<1>10. CASE DebounceElapses \/ ReceiveChange \/ WallTimeTick
    <2>1. spent' \in SpentType
        BY <1>10, SpendType DEF DebounceElapses, ReceiveChange, WallTimeTick, TypeOK, SpentType
    <2>2. mon' \in 0..MonCap /\ calls' \in 0..ActorCap
        <3>1. /\ mon \in 0..MonCap /\ (mon > 0 => mon - 1 \in 0..MonCap)
              /\ calls \in 0..ActorCap /\ (calls > 0 => calls - 1 \in 0..ActorCap)
            BY DEF TypeOK
        <3> QED BY <1>10, <3>1, Zenon DEF DebounceElapses, ReceiveChange, WallTimeTick
    <2>3. pending_change' \in BOOLEAN /\ pending_time_jump' \in BOOLEAN /\ due' \in BOOLEAN
        BY <1>10, Zenon DEF DebounceElapses, ReceiveChange, WallTimeTick, TypeOK
    <2>4. UNCHANGED <<sysVars, subVars, pc, readVars, interface_state, unannounced>>
        BY <1>10 DEF DebounceElapses, ReceiveChange, WallTimeTick
    <2> QED BY <2>1, <2>2, <2>3, <2>4 DEF TypeOK, SpentType, sysVars, subVars, readVars
<1>11. CASE network_change \/ DropMonitor
    <2>1. spent' \in SpentType
        BY <1>11, SpendType DEF network_change, DropMonitor, TypeOK, SpentType
    <2>2. calls' \in 0..ActorCap
        <3>1. calls \in 0..ActorCap /\ (calls < ActorCap => calls + 1 \in 0..ActorCap)
            BY DEF TypeOK
        <3> QED BY <1>11, <3>1, Zenon DEF network_change, DropMonitor
    <2>3. SubTypes'
        BY <1>11, <1>0, SubscriptionType DEF network_change, DropMonitor
    <2>4. pc' \in {"run", "unregister", "stopped"}
        BY <1>11 DEF network_change, DropMonitor
    <2>5. UNCHANGED <<sysVars, mon, readVars, interface_state, actorVars, unannounced>>
        BY <1>11 DEF network_change, DropMonitor
    <2> QED BY <2>1, <2>2, <2>3, <2>4, <2>5 DEF TypeOK, SpentType, SubTypes, sysVars, readVars,
                actorVars
<1>12. CASE UNCHANGED vars
    BY <1>12 DEF vars, sysVars, subVars, readVars, actorVars, TypeOK
<1> QED BY <1>1, <1>2, <1>3, <1>4, <1>5, <1>6, <1>7, <1>8, <1>9, <1>10, <1>11, <1>12
        DEF Next, MonitorStep, ActorStep

\* The monitor starts with every variable in its type.
LEMMA InitType == Init => TypeOK
<1> SUFFICES ASSUME Init PROVE TypeOK
    OBVIOUS
<1>1. sys \in Network /\ snap \in Network /\ window \subseteq Network
    BY Zenon DEF Init, Network
<1>2. /\ mon \in 0..MonCap /\ calls \in 0..ActorCap /\ queue \in Seq(Message)
      /\ interface_state \in [net : Network \cup {NoState}, last_unsuspend : 0..MaxJumps]
      /\ spent \in SpentType
    BY Bounds DEF Init, SpentType
<1> QED BY <1>1, <1>2, Zenon DEF Init, TypeOK, SpentType

\* Every variable of the monitor keeps its type; no channel ever holds more
\* Changes than MON_CHAN_CAPACITY or calls than ACTOR_CHAN_CAPACITY.
THEOREM TypeCorrect == Spec => []TypeOK
    BY InitType, StepType, PTL DEF Spec

-----------------------------------------------------------------------------
(* Windows: closures.                                                      *)

\* Every step keeps alive the closures the system may call.
LEMMA StepClosure == ClosureAlive /\ [Next]_vars => ClosureAlive'
<1> SUFFICES ASSUME ClosureAlive, [Next]_vars PROVE ClosureAlive'
    OBVIOUS
<1> USE DEF ClosureAlive
<1>1. CASE System
    BY <1>1, Zenon DEF System, AddrAdd, AddrDel, AddrUpdate, RouteChange, LocalRouteChange, LinkChange,
        SystemChange
<1>2. CASE RouteMonitorNew
    BY <1>2 DEF RouteMonitorNew, SpawnMonitor, OpenRouteSocket, RegisterCallback, sysVars, subVars
<1>3. CASE Reconnect \/ ReconnectFails \/ ConnectionLost
    BY <1>3 DEF Reconnect, ReconnectFails, ConnectionLost, sysVars, subVars
<1>4. CASE UnregisterCallback
    <2>1. CASE UNCHANGED <<subs, callbacks>>
        BY <1>4, <2>1 DEF UnregisterCallback, sysVars
    <2>2. ASSUME NEW n, Unregister(n) PROVE ClosureAlive'
        BY <1>4, <2>2 DEF UnregisterCallback, Unregister, sysVars
    <2> QED BY <1>4, <2>1, <2>2 DEF UnregisterCallback
<1>5. CASE DropMonitor
    BY <1>5 DEF DropMonitor, Unsubscribed, sysVars, subVars
<1>6. CASE process_messages \/ AwaitReadable \/ read_available
    BY <1>6 DEF process_messages, AwaitReadable, read_available, sysVars
<1>7. CASE ActorStep \/ DebounceElapses \/ WallTimeTick \/ network_change
    BY <1>7 DEF ActorStep, ActorNew, Debounced, ReadDefaultRoute, FirstState,
        handle_potential_change, ReceiveChange, DebounceElapses, WallTimeTick, network_change,
        sysVars, subVars
<1>8. CASE UNCHANGED vars
    BY <1>8 DEF vars, sysVars, subVars
<1> QED BY <1>1, <1>2, <1>3, <1>4, <1>5, <1>6, <1>7, <1>8 DEF Next, MonitorStep

\* Windows: from the first registration to the end of CallbackHandler::drop, and
\* when a registration fails half way, the system can only call closures that
\* are still alive.
THEOREM ClosuresAlive == Spec => []ClosureAlive
<1>1. Init => ClosureAlive
    BY DEF Init, ClosureAlive
<1> QED BY <1>1, StepClosure, PTL DEF Spec

-----------------------------------------------------------------------------
(* The monitor implements InterfaceWatch.                                  *)

\* What has been read so far is from after the last publication; nothing is
\* published before the first read ends.
ReadOK ==
    /\ sys \in window
    /\ reading = "route" => snap \in window
    /\ reading = "done" => \E a, b \in window : snap = Mix(a, b)
    /\ pc = "new" => interface_state.net = NoState
    /\ pending_time_jump => spent.jumps > 0

\* Every change of the system is among what the system has been.
LEMMA ChangeWindow ==
    ASSUME TypeOK, System
    PROVE  /\ sys' \in Network /\ window' = window \cup {sys'}
           /\ UNCHANGED <<pc, readVars, interface_state, actorVars>>
           /\ spent'.jumps = spent.jumps
<1>1. PICK net \in Network, m \in Message : SystemChange(net, m)
    BY SystemCases
<1>2. spent'.jumps = spent.jumps
    BY <1>1 DEF SystemChange, Spend, TypeOK
<1> QED BY <1>1, <1>2 DEF SystemChange

\* Steps that neither read nor publish leave what is read and published alone.
Aside ==
    /\ UNCHANGED <<sysVars, readVars, interface_state, pending_time_jump>>
    /\ spent'.jumps = spent.jumps
    /\ pc' = "new" => pc = "new"

\* The steps of the monitor are such steps.
LEMMA MonitorAside ==
    ASSUME TypeOK,
           \/ MonitorStep \/ ReconnectFails \/ ConnectionLost \/ ReceiveChange
           \/ DebounceElapses \/ network_change \/ DropMonitor \/ UNCHANGED vars
    PROVE  Aside
<1>1. CASE RouteMonitorNew
    <2>1. spent'.jumps = spent.jumps
        BY <1>1 DEF RouteMonitorNew, SpawnMonitor, OpenRouteSocket, RegisterCallback, Spend, TypeOK
    <2>2. pc' # "new"
        BY <1>1 DEF RouteMonitorNew, SpawnMonitor, OpenRouteSocket, RegisterCallback
    <2> QED BY <1>1, <2>1, <2>2 DEF RouteMonitorNew, Aside, actorVars
<1>2. CASE Reconnect \/ ReconnectFails \/ ConnectionLost
    <2>1. spent'.jumps = spent.jumps
        BY <1>2 DEF Reconnect, ReconnectFails, ConnectionLost, Spend, TypeOK
    <2> QED BY <1>2, <2>1 DEF Reconnect, ReconnectFails, ConnectionLost, Aside, actorVars
<1>3. CASE process_messages \/ AwaitReadable \/ read_available
    BY <1>3 DEF process_messages, AwaitReadable, read_available, Aside, actorVars
<1>4. CASE UnregisterCallback
    BY <1>4 DEF UnregisterCallback, Aside, actorVars
<1>5. CASE ReceiveChange \/ DebounceElapses
    BY <1>5 DEF ReceiveChange, DebounceElapses, Aside
<1>6. CASE network_change \/ DropMonitor
    <2>1. spent'.jumps = spent.jumps
        BY <1>6 DEF network_change, DropMonitor, Spend, TypeOK
    <2> QED BY <1>6, <2>1 DEF network_change, DropMonitor, Aside, actorVars
<1>7. CASE UNCHANGED vars
    BY <1>7 DEF vars, Aside, actorVars
<1> QED BY <1>1, <1>2, <1>3, <1>4, <1>5, <1>6, <1>7 DEF MonitorStep

\* A wall time jump is counted before it is pending.
LEMMA TickJumps ==
    ASSUME TypeOK, WallTimeTick
    PROVE  spent'.jumps > 0 /\ UNCHANGED <<sysVars, pc, readVars, interface_state>>
    BY DEF WallTimeTick, Spend, TypeOK

\* What is read stays within what the system has been, through every step.
LEMMA StepRead == TypeOK /\ ReadOK /\ [Next]_vars => ReadOK'
<1> SUFFICES ASSUME TypeOK, ReadOK, [Next]_vars PROVE ReadOK'
    OBVIOUS
<1>1. CASE System
    BY <1>1, ChangeWindow DEF ReadOK, readVars, actorVars
<1>2. CASE Aside
    BY <1>2 DEF Aside, ReadOK, sysVars, readVars
<1>3. CASE WallTimeTick
    BY <1>3, TickJumps DEF ReadOK, sysVars, readVars
<1>4. CASE ActorNew \/ Debounced
    BY <1>4 DEF ActorNew, Debounced, ReadInterfaces, ReadOK, sysVars, actorVars
<1>5. CASE ReadDefaultRoute
    <2>1. snap' = Mix(snap, sys) /\ snap \in window /\ sys \in window
        BY <1>5 DEF ReadDefaultRoute, Mix, ReadOK
    <2> QED BY <1>5, <2>1 DEF ReadDefaultRoute, ReadOK, sysVars, actorVars
<1>6. CASE FirstState
    BY <1>6 DEF FirstState, Publish, ReadOK, actorVars
<1>7. CASE handle_potential_change
    BY <1>7 DEF handle_potential_change, Publish, ReadOK
<1> QED BY <1>1, <1>2, <1>3, <1>4, <1>5, <1>6, <1>7, MonitorAside DEF Next, ActorStep

\* A publication of the monitor is one InterfaceWatch allows.
LEMMA PublishRefines ==
    ASSUME TypeOK, ReadOK, FirstState \/ handle_potential_change
    PROVE  Watch!Publish \/ UNCHANGED Watch!vars
<1>1. PICK a \in window, b \in window : snap = Mix(a, b)
    BY DEF FirstState, handle_potential_change, ReadOK
<1>2. ASSUME NEW u \in Nat, Publish(u), sys' = sys,
             \/ interface_state.net = NoState \/ u > 0
             \/ ~ Same(interface_state.net, snap) \/ interface_state.last_unsuspend # u
      PROVE  Watch!Publish
    <2>1. /\ interface_state'.net = snap /\ interface_state'.last_unsuspend = u
          /\ window' = {sys}
        BY <1>2 DEF Publish
    <2> QED BY <1>1, <1>2, <2>1 DEF Watch!Publish
<1>3. CASE FirstState
    BY <1>3, <1>2 DEF FirstState, ReadOK
<1>4. CASE handle_potential_change /\ pending_time_jump
    <2>1. spent.jumps \in Nat /\ spent.jumps > 0
        BY <1>4, Bounds DEF TypeOK, ReadOK
    <2> QED BY <1>4, <2>1, <1>2 DEF handle_potential_change
<1>5. CASE handle_potential_change /\ ~ pending_time_jump
    BY <1>5, <1>2 DEF handle_potential_change, Watch!vars
<1> QED BY <1>3, <1>4, <1>5

\* Every step of the monitor is a step of InterfaceWatch, or none.
LEMMA StepRefines ==
    ASSUME TypeOK, ReadOK, [Next]_vars
    PROVE  [Watch!Next]_(Watch!vars)
<1>1. CASE System
    BY <1>1, ChangeWindow DEF Watch!Next, Watch!Change
<1>2. CASE Aside
    BY <1>2 DEF Aside, Watch!vars, sysVars
<1>3. CASE WallTimeTick
    BY <1>3, TickJumps DEF Watch!vars, sysVars
<1>4. CASE ActorNew \/ Debounced \/ ReadDefaultRoute
    BY <1>4 DEF ActorNew, Debounced, ReadDefaultRoute, Watch!vars, sysVars
<1>5. CASE FirstState \/ handle_potential_change
    BY <1>5, PublishRefines DEF Watch!Next
<1> QED BY <1>1, <1>2, <1>3, <1>4, <1>5, MonitorAside DEF Next, ActorStep

\* The monitor of every platform does what InterfaceWatch promises: watchers
\* see what was read after the last publication, and only news.
THEOREM Implements == Spec => WatchSpec
<1>1. Init => ReadOK
    BY DEF Init, ReadOK
<1>2. Init => Watch!Init
    <2> SUFFICES ASSUME Init PROVE Watch!Init
        OBVIOUS
    <2>1. sys \in Network
        BY InitType DEF TypeOK
    <2>2. /\ interface_state.net = NoState /\ interface_state.last_unsuspend = 0
          /\ window = {sys}
        BY DEF Init
    <2> QED BY <2>1, <2>2 DEF Watch!Init
<1> QED BY <1>1, <1>2, InitType, StepType, StepRead, StepRefines, PTL
        DEF Spec, WatchSpec, Watch!Spec

-----------------------------------------------------------------------------
(* No change is lost.                                                      *)

\* Whether a message makes the monitor of platform p, whose address cache is c,
\* send a Change, and whether a queue holds one.
HeardBy(p, c, m) ==
    \/ p = "linux" /\ (m.t \in {"del", "route"} \/ (m.t = "new" /\ m.i \notin c))
    \/ p = "bsd" /\ m.t \in {"new", "del", "route"}
ComingIn(p, c, q) == \E k \in 1..Len(q) : HeardBy(p, c, q[k])

\* A queue tells of the deletion of i after its first k messages.
DeletedIn(q, i, k) == \E j \in 1..Len(q) : j > k /\ q[j] = [t |-> "del", i |-> i]

\* What the monitor may be subscribed to, and when its queue is empty.
QueueOK ==
    /\ platform = "none" => subs = {}
    /\ platform = "linux" => subs \in {{}, {"addr", "route"}}
    /\ platform = "bsd" => subs \in {{}, {"addr", "route", "link"}}
    /\ platform # "windows" /\ subs = {} => queue = <<>>
    /\ platform # "windows" /\ pc \in {"new", "monitor"} => subs = {}
    /\ pc = "unregister" => platform = "windows"
    /\ draining => platform = "bsd"

\* Linux: an address that is cached, or will be once the queue is read so far,
\* is there, or its deletion is still to be read.  A new address is never
\* taken for one already known.
CacheOK ==
    platform = "linux" /\ subs # {} =>
        /\ \A i \in addr_cache : i \in sys.up \/ DeletedIn(queue, i, 0)
        /\ \A k \in 1..Len(queue) :
              queue[k].t = "new" => queue[k].i \in sys.up \/ DeletedIn(queue, queue[k].i, k)

\* The system changed unannounced, or a Change is on its way.
Told == unannounced \/ Coming

\* NothingLost, from the first publication on, and what it needs of the reads
\* in progress: what has been read is still so, or there will be another read.
FreshOK ==
    /\ pc = "monitor" => reading = "no"
    /\ pc \in {"monitor", "run"} =>
          Same(interface_state.net, sys) \/ Told \/ pending_change \/ pending_time_jump
    /\ pc \in {"new", "run"} /\ reading = "route" =>
          (snap.up = sys.up /\ snap.flags = sys.flags) \/ Told
    /\ pc \in {"new", "run"} /\ reading = "done" => Same(snap, sys) \/ Told

IInv == TypeOK /\ QueueOK /\ CacheOK /\ FreshOK

\* Coming, in terms of the queue.
LEMMA ComingIs ==
    /\ Coming <=> mon > 0 \/ calls > 0 \/ ComingIn(platform, addr_cache, queue)
    /\ Coming' <=> mon' > 0 \/ calls' > 0 \/ ComingIn(platform', addr_cache', queue')
    BY DEF Coming, ComingIn, HeardBy, Interesting, is_interesting_message

\* A message that is appended is heard, and hides no other.
LEMMA ComingAppend ==
    ASSUME NEW p, NEW c, NEW q \in Seq(Message), NEW m \in Message,
           ComingIn(p, c, q) \/ HeardBy(p, c, m)
    PROVE  ComingIn(p, c, Append(q, m))
<1>1. /\ Len(Append(q, m)) = Len(q) + 1 /\ Len(q) \in Nat
      /\ \A k \in 1..Len(q) : Append(q, m)[k] = q[k]
      /\ Append(q, m)[Len(q) + 1] = m
    BY AppendFacts
<1> HIDE DEF HeardBy
<1> QED BY <1>1 DEF ComingIn

\* Taking a message that is not heard keeps what is coming.
LEMMA ComingTail ==
    ASSUME NEW p, NEW c, NEW q \in Seq(Message), q # <<>>,
           ComingIn(p, c, q), ~ HeardBy(p, c, Head(q))
    PROVE  ComingIn(p, c, Tail(q))
<1>1. /\ Head(q) = q[1] /\ Len(q) \in Nat
      /\ Len(Tail(q)) = Len(q) - 1
      /\ \A k \in 1..Len(Tail(q)) : Tail(q)[k] = q[k + 1]
    BY TailFacts
<1>2. PICK k \in 1..Len(q) : HeardBy(p, c, q[k])
    BY DEF ComingIn
<1>3. k - 1 \in 1..Len(Tail(q)) /\ Tail(q)[k - 1] = q[k]
    BY <1>1, <1>2
<1> QED BY <1>2, <1>3 DEF ComingIn

\* A deletion in the queue stays in it, and an appended one comes last.
LEMMA DeletedAppend ==
    ASSUME NEW q \in Seq(Message), NEW m \in Message, NEW i, NEW k \in Nat
    PROVE  /\ DeletedIn(q, i, k) => DeletedIn(Append(q, m), i, k)
           /\ k <= Len(q) /\ m = [t |-> "del", i |-> i] => DeletedIn(Append(q, m), i, k)
<1>1. /\ Len(Append(q, m)) = Len(q) + 1 /\ Len(q) \in Nat
      /\ \A j \in 1..Len(q) : Append(q, m)[j] = q[j]
      /\ Append(q, m)[Len(q) + 1] = m
    BY AppendFacts
<1>2. ASSUME DeletedIn(q, i, k) PROVE DeletedIn(Append(q, m), i, k)
    BY <1>1, <1>2 DEF DeletedIn
<1>3. ASSUME k <= Len(q), m = [t |-> "del", i |-> i] PROVE DeletedIn(Append(q, m), i, k)
    <2>1. Len(q) + 1 \in 1..Len(Append(q, m)) /\ Len(q) + 1 > k
        BY <1>1, <1>3
    <2> QED BY <1>1, <1>3, <2>1 DEF DeletedIn
<1> QED BY <1>2, <1>3

\* A deletion behind the first message moves up; the first may be it.
LEMMA DeletedTail ==
    ASSUME NEW q \in Seq(Message), q # <<>>, NEW i, NEW k \in Nat
    PROVE  /\ DeletedIn(q, i, k + 1) => DeletedIn(Tail(q), i, k)
           /\ DeletedIn(q, i, 0) => Head(q) = [t |-> "del", i |-> i] \/ DeletedIn(Tail(q), i, 0)
<1>1. /\ Head(q) = q[1] /\ Len(q) \in Nat
      /\ Len(Tail(q)) = Len(q) - 1
      /\ \A j \in 1..Len(Tail(q)) : Tail(q)[j] = q[j + 1]
    BY TailFacts
<1>2. ASSUME NEW j \in 1..Len(q), j > 1
      PROVE  j - 1 \in 1..Len(Tail(q)) /\ Tail(q)[j - 1] = q[j]
    BY <1>1, <1>2
<1>3. ASSUME DeletedIn(q, i, k + 1) PROVE DeletedIn(Tail(q), i, k)
    <2>1. PICK j \in 1..Len(q) : j > k + 1 /\ q[j] = [t |-> "del", i |-> i]
        BY <1>3 DEF DeletedIn
    <2>2. j - 1 \in 1..Len(Tail(q)) /\ Tail(q)[j - 1] = q[j] /\ j - 1 > k
        BY <2>1, <1>2
    <2> QED BY <2>1, <2>2 DEF DeletedIn
<1>4. ASSUME DeletedIn(q, i, 0), Head(q) # [t |-> "del", i |-> i] PROVE DeletedIn(Tail(q), i, 0)
    <2>1. PICK j \in 1..Len(q) : q[j] = [t |-> "del", i |-> i]
        BY <1>4 DEF DeletedIn
    <2>2. j # 1
        BY <1>1, <1>4, <2>1
    <2>3. j - 1 \in 1..Len(Tail(q)) /\ Tail(q)[j - 1] = q[j] /\ j - 1 > 0
        BY <2>1, <2>2, <1>2
    <2> QED BY <2>1, <2>3 DEF DeletedIn
<1> QED BY <1>3, <1>4

\* A deletion that is queued will make the monitor of Linux send a Change.
LEMMA DeletedComing ==
    ASSUME NEW c, NEW q \in Seq(Message), NEW i, DeletedIn(q, i, 0)
    PROVE  ComingIn("linux", c, q)
<1>1. PICK j \in 1..Len(q) : q[j] = [t |-> "del", i |-> i]
    BY DEF DeletedIn
<1>2. HeardBy("linux", c, q[j])
    BY <1>1 DEF HeardBy
<1> QED BY <1>1, <1>2 DEF ComingIn

\* A change of the system is told of, and keeps what was told before.
LEMMA ChangeTold ==
    ASSUME TypeOK, QueueOK, CacheOK, System
    PROVE  /\ Told => Told'
           /\ ~ Same(sys, sys') => Told'
<1>1. PICK net \in Network, m \in Message : Effect(net, m) /\ SystemChange(net, m)
    BY SystemCases
<1>2. /\ Announce(m) /\ sys' = net
      /\ UNCHANGED <<platform, subs, addr_cache, calls>>
    BY <1>1 DEF SystemChange
<1>3. /\ unannounced => unannounced'
      /\ ~ Same(sys, net) /\ (Covering(m) \notin subs \/ m.t = "link") => unannounced'
    BY <1>1, Zenon DEF SystemChange
<1>4. queue \in Seq(Message) /\ mon \in Nat /\ MonCap \in Nat \ {0}
    BY Bounds DEF TypeOK
<1>5. CASE Covering(m) \notin subs
    <2>1. UNCHANGED <<mon, queue>>
        BY <1>2, <1>5, Zenon DEF Announce
    <2>2. Coming => Coming'
        BY <1>2, <2>1, ComingIs
    <2> QED BY <1>2, <1>3, <1>5, <2>2 DEF Told
<1>6. CASE Covering(m) \in subs /\ platform = "windows"
    <2>1. mon' = IF mon < MonCap THEN mon + 1 ELSE mon
        BY <1>2, <1>6, Zenon DEF Announce, TrySend
    <2>2. Coming'
        BY <1>4, <2>1, ComingIs
    <2> QED BY <2>2 DEF Told
<1>7. CASE Covering(m) \in subs /\ platform # "windows"
    <2>1. mon' = mon /\ queue' = Append(queue, m)
        BY <1>2, <1>7, Zenon DEF Announce
    <2>2. Coming => Coming'
        BY <1>2, <1>4, <2>1, ComingIs, ComingAppend
    <2>3. ASSUME ~ Same(sys, net), m.t # "link"
          PROVE  ComingIn(platform, addr_cache, queue) \/ HeardBy(platform, addr_cache, m)
        <3>1. platform \in {"linux", "bsd"}
            BY <1>7, ConstantsAssumption, Zenon DEF QueueOK, TypeOK, AllPlatforms
        <3>2. m.t \in {"new", "del", "route"}
            BY <1>1, <2>3 DEF Effect, Same
        <3>3. CASE m.t = "new" /\ m.i \in addr_cache /\ platform = "linux"
            <4>1. m.i \notin sys.up
                BY <1>1, <2>3, <3>3 DEF Effect, Same
            <4>2. DeletedIn(queue, m.i, 0)
                BY <1>7, <3>3, <4>1 DEF CacheOK
            <4> QED BY <1>4, <3>3, <4>2, DeletedComing
        <3> QED BY <3>1, <3>2, <3>3 DEF HeardBy
    <2>4. ASSUME ~ Same(sys, net), m.t # "link" PROVE Coming'
        BY <1>2, <1>4, <2>1, <2>3, <2>4, ComingAppend, ComingIs
    <2> QED BY <1>2, <1>3, <2>2, <2>4 DEF Told
<1> QED BY <1>5, <1>6, <1>7

\* A subscription is whole or not there, and what is not subscribed to has
\* nothing queued.
LEMMA StepQueue == TypeOK /\ QueueOK /\ [Next]_vars => QueueOK'
<1> SUFFICES ASSUME TypeOK, QueueOK, [Next]_vars PROVE QueueOK'
    OBVIOUS
<1>1. CASE System
    <2>1. PICK net \in Network, m \in Message : Effect(net, m) /\ SystemChange(net, m)
        BY <1>1, SystemCases
    <2>2. UNCHANGED <<platform, subs, pc, draining>> /\ (subs = {} => queue' = queue)
        BY <2>1 DEF SystemChange, Announce
    <2> QED BY <2>2 DEF QueueOK
<1>2. CASE RouteMonitorNew
    BY <1>2 DEF RouteMonitorNew, SpawnMonitor, OpenRouteSocket, RegisterCallback, Subscribe,
        SocketGroups, QueueOK, sysVars, subVars
<1>3. CASE Reconnect \/ ReconnectFails \/ ConnectionLost
    BY <1>3 DEF Reconnect, ReconnectFails, ConnectionLost, Subscribe, Unsubscribed, SocketGroups,
        QueueOK, sysVars, subVars
<1>4. CASE process_messages \/ AwaitReadable \/ read_available
    BY <1>4 DEF process_messages, AwaitReadable, read_available, QueueOK, sysVars
<1>5. CASE UnregisterCallback \/ DropMonitor
    <2>1. CASE platform = "windows"
        BY <1>5, <2>1 DEF UnregisterCallback, DropMonitor, QueueOK, sysVars, subVars
    <2>2. CASE platform # "windows" /\ DropMonitor
        BY <2>2 DEF DropMonitor, Unsubscribed, QueueOK, sysVars
    <2> QED BY <1>5, <2>1, <2>2 DEF UnregisterCallback, QueueOK
<1>6. CASE ActorStep \/ DebounceElapses \/ WallTimeTick \/ network_change
    BY <1>6 DEF ActorStep, ActorNew, Debounced, ReadDefaultRoute, FirstState,
        handle_potential_change, ReceiveChange, DebounceElapses, WallTimeTick, network_change,
        QueueOK, sysVars, subVars
<1>7. CASE UNCHANGED vars
    BY <1>7 DEF vars, QueueOK, sysVars, subVars
<1> QED BY <1>1, <1>2, <1>3, <1>4, <1>5, <1>6, <1>7 DEF Next, MonitorStep

\* A change of the system leaves every cached address there or its deletion
\* queued.
LEMMA ChangeCache ==
    ASSUME TypeOK, QueueOK, CacheOK, System
    PROVE  CacheOK'
<1> SUFFICES ASSUME platform' = "linux", subs' # {}
             PROVE  /\ \A i \in addr_cache' : i \in sys'.up \/ DeletedIn(queue', i, 0)
                    /\ \A k \in 1..Len(queue') : queue'[k].t = "new" =>
                          queue'[k].i \in sys'.up \/ DeletedIn(queue', queue'[k].i, k)
    BY DEF CacheOK
<1>1. PICK net \in Network, m \in Message : Effect(net, m) /\ SystemChange(net, m)
    BY SystemCases
<1>2. Announce(m) /\ sys' = net /\ UNCHANGED <<platform, subs, addr_cache>>
    BY <1>1 DEF SystemChange
<1>3. queue \in Seq(Message) /\ Len(queue) \in Nat /\ subs = {"addr", "route"}
    <2>1. queue \in Seq(Message)
        BY DEF TypeOK
    <2>2. subs = {"addr", "route"}
        BY <1>2, Zenon DEF QueueOK
    <2> QED BY <2>1, <2>2
<1>4. /\ \A i \in addr_cache : i \in sys.up \/ DeletedIn(queue, i, 0)
      /\ \A k \in 1..Len(queue) :
            queue[k].t = "new" => queue[k].i \in sys.up \/ DeletedIn(queue, queue[k].i, k)
    BY <1>2, <1>3 DEF CacheOK
<1>5. CASE m.t = "link"
    <2>1. queue' = queue /\ net.up = sys.up
        BY <1>1, <1>2, <1>3, <1>5 DEF Announce, Covering, Effect
    <2> QED BY <1>2, <1>4, <2>1
<1>6. CASE m.t # "link"
    <2>1. queue' = Append(queue, m)
        BY <1>1, <1>2, <1>3, <1>6 DEF Announce, Covering, Message
    <2>2. /\ Len(queue') = Len(queue) + 1 /\ queue'[Len(queue) + 1] = m
          /\ \A k \in 1..Len(queue) : queue'[k] = queue[k]
        BY <1>3, <2>1, AppendFacts
    <2>3. ASSUME NEW i, NEW k \in Nat, k <= Len(queue),
                 i \in sys.up \/ DeletedIn(queue, i, k)
          PROVE  i \in sys'.up \/ DeletedIn(queue', i, k)
        <3>1. CASE DeletedIn(queue, i, k)
            BY <1>3, <2>1, <3>1, DeletedAppend
        <3>2. CASE i \in sys.up /\ i \notin net.up
            <4>1. m = [t |-> "del", i |-> i]
                BY <1>1, <3>2 DEF Effect
            <4> QED BY <1>3, <2>1, <2>3, <4>1, DeletedAppend
        <3> QED BY <1>2, <2>3, <3>1, <3>2
    <2>4. \A i \in addr_cache' : i \in sys'.up \/ DeletedIn(queue', i, 0)
        BY <1>2, <1>3, <1>4, <2>3
    <2>5. ASSUME NEW k \in 1..Len(queue'), queue'[k].t = "new"
          PROVE  queue'[k].i \in sys'.up \/ DeletedIn(queue', queue'[k].i, k)
        <3>1. CASE k \in 1..Len(queue)
            <4>1. queue'[k] = queue[k] /\ k \in Nat /\ k <= Len(queue)
                BY <2>2, <3>1
            <4> QED BY <1>4, <2>3, <2>5, <3>1, <4>1
        <3>2. CASE k = Len(queue) + 1
            BY <1>1, <1>2, <2>2, <2>5, <3>2 DEF Effect
        <3> QED BY <1>3, <2>2, <3>1, <3>2
    <2> QED BY <2>4, <2>5
<1> QED BY <1>5, <1>6

\* process_messages caches an address only if it is there or its deletion is
\* still to be read, and forgets it when it reads that.
LEMMA ProcessCache ==
    ASSUME TypeOK, CacheOK, process_messages
    PROVE  CacheOK'
<1> DEFINE m == Head(queue)
<1> SUFFICES ASSUME platform' = "linux", subs' # {}
             PROVE  /\ \A i \in addr_cache' : i \in sys.up \/ DeletedIn(Tail(queue), i, 0)
                    /\ \A k \in 1..Len(Tail(queue)) : Tail(queue)[k].t = "new" =>
                          \/ Tail(queue)[k].i \in sys.up
                          \/ DeletedIn(Tail(queue), Tail(queue)[k].i, k)
    BY Zenon DEF CacheOK, process_messages, sysVars
<1>1. /\ queue \in Seq(Message) /\ queue # <<>> /\ addr_cache' = Cached(m)
      /\ platform = "linux" /\ subs # {}
    BY DEF process_messages, TypeOK, sysVars
<1>2. /\ \A i \in addr_cache : i \in sys.up \/ DeletedIn(queue, i, 0)
      /\ \A k \in 1..Len(queue) :
            queue[k].t = "new" => queue[k].i \in sys.up \/ DeletedIn(queue, queue[k].i, k)
    BY <1>1 DEF CacheOK
<1>3. /\ m = queue[1] /\ Len(queue) \in Nat /\ Len(queue) > 0
      /\ Len(Tail(queue)) = Len(queue) - 1
      /\ \A k \in 1..Len(Tail(queue)) : Tail(queue)[k] = queue[k + 1]
    BY <1>1, TailFacts
<1>4. ASSUME NEW i \in addr_cache' PROVE i \in sys.up \/ DeletedIn(Tail(queue), i, 0)
    <2>1. CASE m.t = "new" /\ i = m.i
        <3>1. i \in sys.up \/ DeletedIn(queue, i, 1)
            BY <1>2, <1>3, <2>1
        <3> QED BY <1>1, <3>1, DeletedTail, 0 \in Nat, 0 + 1 = 1
    <2>2. CASE i \in addr_cache /\ ~ (m.t = "del" /\ i = m.i)
        <3>1. i \in sys.up \/ DeletedIn(queue, i, 0)
            BY <1>2, <2>2
        <3>2. m # [t |-> "del", i |-> i]
            BY <2>2
        <3> QED BY <1>1, <3>1, <3>2, DeletedTail, 0 \in Nat
    <2> QED BY <1>1, <1>4, <2>1, <2>2 DEF Cached
<1>5. ASSUME NEW k \in 1..Len(Tail(queue)), Tail(queue)[k].t = "new"
      PROVE  Tail(queue)[k].i \in sys.up \/ DeletedIn(Tail(queue), Tail(queue)[k].i, k)
    <2>1. k + 1 \in 1..Len(queue) /\ k \in Nat /\ Tail(queue)[k] = queue[k + 1]
        BY <1>3
    <2>2. queue[k + 1].i \in sys.up \/ DeletedIn(queue, queue[k + 1].i, k + 1)
        BY <1>2, <1>5, <2>1
    <2> QED BY <1>1, <2>1, <2>2, DeletedTail
<1> QED BY <1>4, <1>5

\* A new subscription starts with an empty queue and an empty cache, and no
\* other step touches either.
LEMMA StepCache == TypeOK /\ QueueOK /\ CacheOK /\ [Next]_vars => CacheOK'
<1> SUFFICES ASSUME TypeOK, QueueOK, CacheOK, [Next]_vars PROVE CacheOK'
    OBVIOUS
<1>1. CASE Subscribe
    <2>1. addr_cache' = {} /\ Len(queue') = 0
        BY <1>1 DEF Subscribe
    <2> QED BY <2>1 DEF CacheOK
<1>2. CASE subs' = {}
    BY <1>2 DEF CacheOK
<1>3. CASE UNCHANGED <<platform, sys, subs, queue, addr_cache>>
    BY <1>3 DEF CacheOK
<1>4. CASE platform' # "linux"
    BY <1>4 DEF CacheOK
<1>5. CASE RouteMonitorNew
    BY <1>1, <1>3, <1>4, <1>5 DEF RouteMonitorNew, SpawnMonitor, OpenRouteSocket,
        RegisterCallback, sysVars, subVars
<1>6. CASE Reconnect \/ ReconnectFails \/ ConnectionLost
    BY <1>1, <1>2, <1>3, <1>6 DEF Reconnect, ReconnectFails, ConnectionLost, Unsubscribed,
        sysVars, subVars
<1>7. CASE AwaitReadable \/ read_available
    <2>1. platform' # "linux" \/ UNCHANGED <<platform, sys, subs, queue, addr_cache>>
        BY <1>7 DEF AwaitReadable, read_available, QueueOK, sysVars
    <2> QED BY <1>3, <1>4, <2>1
<1>8. CASE UnregisterCallback \/ DropMonitor
    BY <1>2, <1>3, <1>4, <1>8 DEF UnregisterCallback, DropMonitor, Unsubscribed, QueueOK,
        sysVars, subVars
<1>9. CASE ActorStep \/ DebounceElapses \/ WallTimeTick \/ network_change
    BY <1>3, <1>9 DEF ActorStep, ActorNew, Debounced, ReadDefaultRoute, FirstState,
        handle_potential_change, ReceiveChange, DebounceElapses, WallTimeTick, network_change,
        sysVars, subVars
<1>10. CASE UNCHANGED vars
    BY <1>3, <1>10 DEF vars, sysVars, subVars
<1> QED BY <1>5, <1>6, <1>7, <1>8, <1>9, <1>10, ChangeCache, ProcessCache DEF Next, MonitorStep

\* The monitor's steps keep what is told: a message that is taken from the
\* queue is sent on, unless it tells of nothing; what is lost with a connection
\* counts as not announced.
LEMMA MonitorTold ==
    ASSUME TypeOK, QueueOK, Told,
           \/ RouteMonitorNew \/ Reconnect \/ ReconnectFails \/ ConnectionLost
           \/ process_messages \/ AwaitReadable \/ read_available
           \/ DebounceElapses \/ network_change \/ UNCHANGED vars
    PROVE  Told'
<1>0. mon \in Nat /\ calls \in Nat /\ queue \in Seq(Message)
    BY Bounds DEF TypeOK
<1>1. CASE UNCHANGED <<platform, addr_cache, queue, mon, calls, unannounced>>
    BY <1>1, ComingIs DEF Told
<1>2. CASE queue = <<>> /\ mon' = mon /\ calls' = calls /\ unannounced' = unannounced
    <2>1. ~ ComingIn(platform, addr_cache, queue)
        BY <1>2 DEF ComingIn
    <2> QED BY <1>2, <2>1, ComingIs DEF Told
<1>3. CASE RouteMonitorNew
    <2>1. CASE OpenRouteSocket
        BY <1>2, <1>3, <2>1 DEF RouteMonitorNew, OpenRouteSocket, QueueOK
    <2> QED BY <1>1, <1>3, <2>1 DEF RouteMonitorNew, SpawnMonitor, RegisterCallback, sysVars,
                subVars
<1>4. CASE Reconnect \/ ReconnectFails
    BY <1>1, <1>2, <1>4 DEF Reconnect, ReconnectFails, QueueOK, sysVars, subVars
<1>5. CASE ConnectionLost
    <2>1. CASE queue = <<>> /\ ~ unannounced
        <3>1. unannounced' = unannounced
            BY <1>5, <2>1 DEF ConnectionLost, TypeOK
        <3> QED BY <1>2, <1>5, <2>1, <3>1 DEF ConnectionLost
    <2>2. CASE queue # <<>> \/ unannounced
        <3>1. unannounced'
            BY <1>5, <2>2, Zenon DEF ConnectionLost
        <3> QED BY <3>1 DEF Told
    <2> QED BY <2>1, <2>2
<1>6. CASE process_messages \/ read_available
    <2>1. CASE mon' = mon + 1
        BY <1>0, <2>1, ComingIs DEF Told
    <2>2. CASE mon' = mon /\ queue = <<>>
        BY <1>2, <1>6, <2>2 DEF process_messages, read_available
    <2>3. CASE mon' = mon /\ queue # <<>>
        <3>1. /\ queue' = Tail(queue) /\ ~ HeardBy(platform, addr_cache, Head(queue))
              /\ addr_cache' = addr_cache
            <4>1. CASE process_messages
                BY <1>0, <2>3, <4>1 DEF process_messages, Interesting, HeardBy, Cached
            <4>2. CASE read_available
                <5>1. platform = "bsd"
                    BY <4>2 DEF read_available, QueueOK
                <5>2. ~ is_interesting_message(Head(queue)) /\ queue' = Tail(queue)
                    <6>1. mon + 1 # mon
                        BY <1>0
                    <6> QED BY <2>3, <4>2, <6>1, Zenon DEF read_available
                <5> QED BY <4>2, <5>1, <5>2 DEF read_available, is_interesting_message, HeardBy
            <4> QED BY <1>6, <4>1, <4>2
        <3>2. UNCHANGED <<platform, calls, unannounced>>
            BY <1>6 DEF process_messages, read_available, sysVars
        <3> QED BY <1>0, <2>3, <3>1, <3>2, ComingIs, ComingTail DEF Told
    <2> QED BY <1>6, <2>1, <2>2, <2>3 DEF process_messages, read_available
<1>7. CASE network_change
    <2>1. calls' = calls + 1
        BY <1>7 DEF network_change
    <2> QED BY <1>0, <2>1, ComingIs DEF Told
<1>8. CASE AwaitReadable \/ DebounceElapses \/ UNCHANGED vars
    BY <1>1, <1>8 DEF AwaitReadable, DebounceElapses, vars, sysVars, subVars
<1> QED BY <1>3, <1>4, <1>5, <1>6, <1>7, <1>8

\* What was read stays what the system is, or something is told of the change.
LEMMA StepFresh == IInv /\ [Next]_vars => FreshOK'
<1> SUFFICES ASSUME IInv, [Next]_vars PROVE FreshOK'
    OBVIOUS
<1> USE DEF IInv
<1>1. CASE System
    <2>1. Told => Told'
        BY <1>1, ChangeTold
    <2>2. ~ Same(sys, sys') => Told'
        BY <1>1, ChangeTold
    <2>3. UNCHANGED <<pc, readVars, interface_state, actorVars>>
        BY <1>1, ChangeWindow
    <2> HIDE DEF Told
    <2> QED BY <2>1, <2>2, <2>3, Zenon DEF FreshOK, Same, readVars, actorVars
<1>2. CASE \/ RouteMonitorNew \/ Reconnect \/ ReconnectFails \/ ConnectionLost
           \/ process_messages \/ AwaitReadable \/ read_available
           \/ DebounceElapses \/ network_change \/ UNCHANGED vars
    <2>1. Told => Told'
        BY <1>2, MonitorTold
    <2>2. UNCHANGED <<sys, readVars, interface_state, pending_change, pending_time_jump>>
        BY <1>2, Zenon DEF RouteMonitorNew, Reconnect, ReconnectFails, ConnectionLost, process_messages,
            AwaitReadable, read_available, DebounceElapses, network_change, vars, sysVars, actorVars
    <2>3. \/ pc' = pc
          \/ pc = "monitor" /\ pc' \in {"monitor", "run", "unregister", "stopped"}
        BY <1>2 DEF RouteMonitorNew, SpawnMonitor, OpenRouteSocket, RegisterCallback, Reconnect,
            ReconnectFails, ConnectionLost, process_messages, AwaitReadable, read_available,
            DebounceElapses, network_change, vars
    <2> HIDE DEF Told
    <2> QED BY <2>1, <2>2, <2>3 DEF FreshOK, Same, readVars
<1>3. CASE ReceiveChange \/ WallTimeTick
    <2>1. (pending_change' \/ pending_time_jump') /\ pc' = "run" /\ reading' = "no"
        BY <1>3 DEF ReceiveChange, WallTimeTick, readVars
    <2> QED BY <2>1 DEF FreshOK
<1>4. CASE ActorNew \/ Debounced
    <2>1. /\ reading' = "route" /\ snap' = sys' /\ pc' \in {"new", "run"}
          /\ pc' = "run" => pending_change' \/ pending_time_jump'
        BY <1>4 DEF ActorNew, Debounced, ReadInterfaces, sysVars, actorVars
    <2> QED BY <2>1 DEF FreshOK
<1>5. CASE ReadDefaultRoute
    <2>1. UNCHANGED <<sys, pc, interface_state, actorVars>> /\ reading = "route" /\ reading' = "done"
        BY <1>5 DEF ReadDefaultRoute, sysVars
    <2>2. Told => Told'
        BY <1>5, ComingIs DEF ReadDefaultRoute, Told, sysVars, subVars
    <2>3. snap'.up = snap.up /\ snap'.flags = snap.flags /\ snap'.route = sys.route
        BY <1>5 DEF ReadDefaultRoute, TypeOK, Network
    <2> HIDE DEF Told
    <2> QED BY <2>1, <2>2, <2>3 DEF FreshOK, Same, actorVars
<1>6. CASE FirstState \/ handle_potential_change
    <2>1. /\ Same(snap, sys) \/ Told
          /\ reading' = "no" /\ pc' \in {"monitor", "run"} /\ sys' = sys
        BY <1>6 DEF FirstState, handle_potential_change, FreshOK
    <2>2. Told => Told'
        BY <1>6, ComingIs DEF FirstState, handle_potential_change, Told, subVars
    <2>3. \/ interface_state'.net = snap
          \/ interface_state' = interface_state /\ Same(interface_state.net, snap)
        <3>1. \/ Publish(0) \/ Publish(spent.jumps)
              \/ interface_state' = interface_state /\ Same(interface_state.net, snap)
            BY <1>6, Zenon DEF FirstState, handle_potential_change
        <3>2. ASSUME NEW unsuspend, Publish(unsuspend) PROVE interface_state'.net = snap
            <4>1. interface_state' = [net |-> snap, last_unsuspend |-> unsuspend]
                BY <3>2, Zenon DEF Publish
            <4> QED BY ONLY <4>1
        <3> QED BY <3>1, <3>2, Zenon
    <2> HIDE DEF Told
    <2> QED BY <2>1, <2>2, <2>3 DEF FreshOK, Same
<1>7. CASE UnregisterCallback \/ DropMonitor
    BY <1>7 DEF UnregisterCallback, DropMonitor, FreshOK
<1> QED BY <1>1, <1>2, <1>3, <1>4, <1>5, <1>6, <1>7 DEF Next, MonitorStep, ActorStep

\* On every platform: while the monitor runs, watchers see the system as it is,
\* or a Change is on its way or pending, or nobody was told.
THEOREM NoneLost == Spec => []NothingLost
<1>1. Init => IInv
    <2> SUFFICES ASSUME Init PROVE IInv
        OBVIOUS
    <2>1. QueueOK /\ CacheOK
        BY DEF Init, QueueOK, CacheOK
    <2>2. FreshOK
        BY DEF Init, FreshOK
    <2> QED BY <2>1, <2>2, InitType DEF IInv
<1>2. IInv /\ [Next]_vars => IInv'
    BY StepType, StepQueue, StepCache, StepFresh DEF IInv
<1>3. IInv => NothingLost
    BY DEF IInv, FreshOK, Told, NothingLost
<1> QED BY <1>1, <1>2, <1>3, PTL DEF Spec
=============================================================================
