------------------------------- MODULE NetMon -------------------------------
(***************************************************************************)
(* netwatch's network monitor: the actor that keeps interface_state up to  *)
(* date, and the OS specific RouteMonitor that tells it something changed. *)
(*                                                                         *)
(* The system's interfaces and default route change at any time.  A change *)
(* is announced by a message on a netlink socket (Linux, Android is "none")*)
(* or an AF_ROUTE socket (BSD and macOS), or by a callback on a thread of  *)
(* the system (Windows); the monitor turns it into a Change on a bounded   *)
(* channel; the actor waits until no Change has come for a while, reads    *)
(* the system again, and publishes what it read.  A change while nothing   *)
(* is subscribed is announced to nobody.                                   *)
(*                                                                         *)
(* An interface comes and goes together with its address.  Time is left    *)
(* out: a debounce or back-off that runs may end at any moment.            *)
(***************************************************************************)
EXTENDS Naturals, Sequences

CONSTANTS
    Ifaces,      \* the interfaces the system may have
    NoIface,     \* no default route
    NoState,     \* nothing published yet
    Platforms,   \* the platforms to consider
    MonCap,      \* MON_CHAN_CAPACITY
    ActorCap,    \* ACTOR_CHAN_CAPACITY
    MaxChanges,  \* bound: changes of the system
    MaxCalls,    \* bound: calls of network_change
    MaxJumps,    \* bound: wall time jumps detected
    MaxFaults,   \* bound: subscriptions that fail or are lost
    MaxEvents    \* bound: all of these together

AllPlatforms == {"linux", "bsd", "windows", "none"}

ASSUME ConstantsAssumption ==
    /\ NoIface \notin Ifaces
    /\ Platforms \subseteq AllPlatforms
    /\ MonCap \in Nat \ {0} /\ ActorCap \in Nat \ {0}
    /\ {MaxChanges, MaxCalls, MaxJumps, MaxFaults, MaxEvents} \subseteq Nat

VARIABLES
    platform,
    sys,                \* the system: its interfaces and default route
    subs,               \* the announcements the monitor is subscribed to
    callbacks,          \* Windows: the closures CallbackHandler keeps alive
    queue,              \* announcements waiting in the netlink or route socket
    ready,              \* BSD: the readiness tokio remembers for the socket
    draining,           \* BSD: inside read_available
    addr_cache,         \* Linux: addresses announced since the connection
    mon,                \* Changes in the channel of mon_receiver
    calls,              \* NetworkChanges in the channel of actor_receiver
    pc,                 \* where the actor is
    reading,            \* how far State::new has come
    snap,               \* what State::new has read so far
    interface_state,    \* what watchers see: network and last_unsuspend
    pending_change,
    pending_time_jump,
    due,                \* the debounce sleep has elapsed
    spent,              \* how much of each bound has been used
    unannounced,        \* history: a change nobody was told of since the last read
    window              \* history: what the system has been since the last publication

sysVars == <<platform, sys, window>>
subVars == <<subs, callbacks, queue, ready, draining, addr_cache>>
readVars == <<reading, snap>>
actorVars == <<pending_change, pending_time_jump, due>>
vars == <<sysVars, subVars, mon, calls, pc, readVars, interface_state,
          actorVars, spent, unannounced>>

\* What get_state sees: the interfaces with their addresses, their flags, what
\* else is known of the addresses (prefix lengths, flags), the default route.
Network == [up : SUBSET Ifaces, flags : BOOLEAN, detail : BOOLEAN,
            route : Ifaces \cup {NoIface}]

\* The derived equality of State: Interface's leaves the addresses out, and
\* LocalAddresses holds addresses without prefix lengths or flags.
Same(a, b) == a.up = b.up /\ a.flags = b.flags /\ a.route = b.route

Message == [t : {"new", "del"}, i : Ifaces]
           \cup [t : {"route", "local", "link"}, i : {NoIface}]

\* The kind of subscription that covers a message.
Covering(m) == CASE m.t \in {"new", "del"} -> "addr"
                 [] m.t \in {"route", "local"} -> "route"
                 [] OTHER -> "link"

\* The groups of setup_netlink, every message on an AF_ROUTE socket, and the
\* two notifications of IpHelper.
SocketGroups == IF platform = "bsd" THEN {"addr", "route", "link"}
                                    ELSE {"addr", "route"}
Notifications == <<"addr", "route">>

Init ==
    /\ platform \in Platforms
    /\ sys \in [up : SUBSET Ifaces, flags : {TRUE}, detail : {FALSE}, route : {NoIface}]
    /\ subs = {} /\ callbacks = {}
    /\ queue = <<>> /\ ready = FALSE /\ draining = FALSE
    /\ addr_cache = {}
    /\ mon = 0 /\ calls = 0
    /\ pc = "new" /\ reading = "no" /\ snap = sys
    /\ interface_state = [net |-> NoState, last_unsuspend |-> 0]
    /\ pending_change = FALSE /\ pending_time_jump = FALSE /\ due = FALSE
    /\ spent = [changes |-> 0, calls |-> 0, jumps |-> 0, faults |-> 0]
    /\ unannounced = FALSE
    /\ window = {sys}

Spend(what, max) ==
    /\ spent[what] < max
    /\ spent.changes + spent.calls + spent.jumps + spent.faults < MaxEvents
    /\ spent' = [spent EXCEPT ![what] = @ + 1]

-----------------------------------------------------------------------------
(* The system.                                                             *)

\* Mutant: the Change is added to a full channel.
TrySendUnbounded == mon' = mon + 1

\* Windows: the closures of RouteMonitor::new call try_send, which drops the
\* Change when the channel is full.
TrySend == mon' = IF mon < MonCap THEN mon + 1 ELSE mon

\* A message reaches the monitor only if it is subscribed to it.
Announce(m) ==
    \/ /\ Covering(m) \notin subs
       /\ UNCHANGED <<queue, ready, mon>>
    \/ /\ Covering(m) \in subs /\ platform = "windows"
       /\ TrySend
       /\ UNCHANGED <<queue, ready>>
    \/ /\ Covering(m) \in subs /\ platform # "windows"
       /\ queue' = Append(queue, m)
       /\ ready' = (platform = "bsd")
       /\ UNCHANGED mon

\* Once the monitor is gone, nothing is left that could notice.
SystemChange(net, m) ==
    /\ pc # "stopped"
    /\ Spend("changes", MaxChanges)
    /\ sys' = net
    /\ window' = window \cup {net}
    /\ Announce(m)
    /\ unannounced' = \/ unannounced
                      \/ /\ ~ Same(sys, net)
                         /\ Covering(m) \notin subs \/ m.t = "link"
    /\ UNCHANGED <<platform, subs, callbacks, draining, addr_cache, calls, pc,
                   readVars, interface_state, actorVars>>

AddrAdd(i) ==
    /\ i \notin sys.up
    /\ SystemChange([sys EXCEPT !.up = @ \cup {i}], [t |-> "new", i |-> i])

\* The routes through an interface go before its address does.
AddrDel(i) ==
    /\ i \in sys.up /\ sys.route # i
    /\ SystemChange([sys EXCEPT !.up = @ \ {i}], [t |-> "del", i |-> i])

\* The prefix length or the flags of an address change.
AddrUpdate(i) ==
    /\ i \in sys.up
    /\ SystemChange([sys EXCEPT !.detail = ~ @], [t |-> "new", i |-> i])

RouteChange(r) ==
    /\ r \in (sys.up \cup {NoIface}) \ {sys.route}
    /\ SystemChange([sys EXCEPT !.route = r], [t |-> "route", i |-> NoIface])

\* A link-local route, or on Linux also a multicast one, comes or goes.
LocalRouteChange == SystemChange(sys, [t |-> "local", i |-> NoIface])

\* An interface goes up or down and keeps its addresses.
LinkChange == SystemChange([sys EXCEPT !.flags = ~ @], [t |-> "link", i |-> NoIface])

System ==
    \/ \E i \in Ifaces : AddrAdd(i) \/ AddrDel(i) \/ AddrUpdate(i)
    \/ \E r \in Ifaces \cup {NoIface} : RouteChange(r)
    \/ LocalRouteChange
    \/ LinkChange

-----------------------------------------------------------------------------
(* RouteMonitor.                                                           *)

\* setup_netlink or create_socket: the subscription starts now, on an empty
\* queue; process_messages starts with an empty cache.
Subscribe ==
    /\ subs' = SocketGroups
    /\ queue' = <<>> /\ ready' = FALSE /\ draining' = FALSE
    /\ addr_cache' = {}
    /\ UNCHANGED callbacks

Unsubscribed ==
    /\ subs' = {}
    /\ queue' = <<>> /\ ready' = FALSE /\ draining' = FALSE
    /\ UNCHANGED <<callbacks, addr_cache>>

\* RouteMonitor::new of Linux and of the platforms without events: on Linux
\* the spawned task has not connected yet.
SpawnMonitor ==
    /\ pc = "monitor" /\ platform \in {"linux", "none"}
    /\ pc' = "run"
    /\ UNCHANGED <<subVars, spent>>

\* RouteMonitor::new of BSD: the socket exists before the task, or new() fails.
OpenRouteSocket ==
    /\ pc = "monitor" /\ platform = "bsd"
    /\ \/ pc' = "run" /\ Subscribe /\ UNCHANGED spent
       \/ pc' = "stopped" /\ Spend("faults", MaxFaults) /\ UNCHANGED subVars

\* RouteMonitor::new of Windows registers the callbacks one after the other;
\* when one fails, the handler is dropped.
RegisterCallback ==
    /\ pc = "monitor" /\ platform = "windows"
    /\ \/ /\ \E k \in 1..Len(Notifications) :
               /\ \A j \in 1..Len(Notifications) : Notifications[j] \in callbacks <=> j < k
               /\ callbacks' = callbacks \cup {Notifications[k]}
               /\ subs' = subs \cup {Notifications[k]}
               /\ pc' = IF k = Len(Notifications) THEN "run" ELSE "monitor"
          /\ UNCHANGED spent
       \/ /\ Spend("faults", MaxFaults)
          /\ pc' = "unregister"
          /\ UNCHANGED <<callbacks, subs>>
    /\ UNCHANGED <<queue, ready, draining, addr_cache>>

RouteMonitorNew ==
    /\ SpawnMonitor \/ OpenRouteSocket \/ RegisterCallback
    /\ UNCHANGED <<sysVars, mon, calls, readVars, interface_state, actorVars,
                   unannounced>>

\* Mutant: the closure is removed from the map before the notification is
\* cancelled.
UnregisterRemovesFirst(n) ==
    \/ n \in callbacks /\ callbacks' = callbacks \ {n} /\ UNCHANGED subs
    \/ n \notin callbacks /\ subs' = subs \ {n} /\ UNCHANGED callbacks

\* The two steps of an unregister function.
Unregister(n) ==
    \/ n \in subs /\ subs' = subs \ {n} /\ UNCHANGED callbacks
    \/ n \notin subs /\ callbacks' = callbacks \ {n} /\ UNCHANGED subs

\* CallbackHandler::drop: for each callback still kept, first cancel the
\* notification, then let go of the closure.
UnregisterCallback ==
    /\ pc = "unregister"
    /\ \/ \E k \in 1..Len(Notifications) :
             /\ Notifications[k] \in callbacks
             /\ \A j \in 1..(k - 1) : Notifications[j] \notin callbacks
             /\ Unregister(Notifications[k])
             /\ UNCHANGED pc
       \/ /\ callbacks = {}
          /\ pc' = "stopped"
          /\ UNCHANGED <<subs, callbacks>>
    /\ UNCHANGED <<sysVars, queue, ready, draining, addr_cache, mon, calls, readVars,
                   interface_state, actorVars, spent, unannounced>>

\* The task of Linux sets netlink up, the one of BSD recreates its socket, after
\* a back-off.  Nothing is sent to the actor: what changed meanwhile is missed.
Reconnect ==
    /\ pc = "run" /\ platform \in {"linux", "bsd"} /\ subs = {}
    /\ Subscribe
    /\ UNCHANGED <<sysVars, mon, calls, pc, readVars, interface_state, actorVars,
                   spent, unannounced>>

\* setup_netlink or create_socket fails, and the task sleeps again.
ReconnectFails ==
    /\ pc = "run" /\ platform \in {"linux", "bsd"} /\ subs = {}
    /\ Spend("faults", MaxFaults)
    /\ UNCHANGED <<sysVars, subVars, mon, calls, pc, readVars, interface_state,
                   actorVars, unannounced>>

\* Done on the netlink stream, its end, or an error on the route socket.  What
\* the socket still held is gone.
ConnectionLost ==
    /\ pc = "run" /\ platform \in {"linux", "bsd"} /\ subs # {}
    /\ Spend("faults", MaxFaults)
    /\ Unsubscribed
    /\ unannounced' = (unannounced \/ queue # <<>>)
    /\ UNCHANGED <<sysVars, mon, calls, pc, readVars, interface_state, actorVars>>

\* Whether process_messages sends a Change for a message.
Interesting(m) == m.t \in {"del", "route"} \/ (m.t = "new" /\ m.i \notin addr_cache)

\* Mutant: a deleted address stays in the cache.
CachedForEver(m) == IF m.t = "new" THEN addr_cache \cup {m.i} ELSE addr_cache

\* The address cache follows the addresses.
Cached(m) == CASE m.t = "new" -> addr_cache \cup {m.i}
               [] m.t = "del" -> addr_cache \ {m.i}
               [] OTHER -> addr_cache

\* process_messages, one message: the address cache is brought up to date, and
\* the Change is sent when the channel has room for it.
process_messages ==
    /\ pc = "run" /\ platform = "linux" /\ queue # <<>>
    /\ LET m == Head(queue) IN
       /\ \/ Interesting(m) /\ mon < MonCap /\ mon' = mon + 1
          \/ ~ Interesting(m) /\ UNCHANGED mon
       /\ addr_cache' = Cached(m)
    /\ queue' = Tail(queue)
    /\ UNCHANGED <<sysVars, subs, callbacks, ready, draining, calls, pc, readVars,
                   interface_state, actorVars, spent, unannounced>>

\* Addresses and routes that are not link-local; Interface messages are not.
is_interesting_message(m) == m.t \in {"new", "del", "route"}

\* BSD's run: readable() returns once the readiness is set.
AwaitReadable ==
    /\ pc = "run" /\ platform = "bsd" /\ subs # {} /\ ~ draining /\ ready
    /\ draining' = TRUE
    /\ UNCHANGED <<sysVars, subs, callbacks, queue, ready, addr_cache, mon, calls, pc,
                   readVars, interface_state, actorVars, spent, unannounced>>

\* Mutant: one message is read for every readiness.
read_available_once ==
    /\ pc = "run" /\ draining /\ queue # <<>>
    /\ \/ is_interesting_message(Head(queue)) /\ mon < MonCap /\ mon' = mon + 1
       \/ ~ is_interesting_message(Head(queue)) /\ UNCHANGED mon
    /\ queue' = Tail(queue)
    /\ ready' = FALSE /\ draining' = FALSE
    /\ UNCHANGED <<sysVars, subs, callbacks, addr_cache, calls, pc, readVars,
                   interface_state, actorVars, spent, unannounced>>

\* read_available: try_read until it would block, which clears the readiness.
read_available ==
    /\ pc = "run" /\ draining
    /\ \/ /\ queue # <<>>
          /\ \/ is_interesting_message(Head(queue)) /\ mon < MonCap /\ mon' = mon + 1
             \/ ~ is_interesting_message(Head(queue)) /\ UNCHANGED mon
          /\ queue' = Tail(queue)
          /\ UNCHANGED <<ready, draining>>
       \/ /\ queue = <<>>
          /\ ready' = FALSE /\ draining' = FALSE
          /\ UNCHANGED <<queue, mon>>
    /\ UNCHANGED <<sysVars, subs, callbacks, addr_cache, calls, pc, readVars,
                   interface_state, actorVars, spent, unannounced>>

-----------------------------------------------------------------------------
(* The actor.                                                              *)

\* Mutant: the interfaces are listed once and remembered.
ReadInterfacesOnce ==
    /\ reading = "no" /\ reading' = "route"
    /\ snap' = IF pc = "new" THEN sys ELSE snap
    /\ unannounced' = FALSE

\* get_state lists the interfaces first.
ReadInterfaces ==
    /\ reading = "no" /\ reading' = "route"
    /\ snap' = sys
    /\ unannounced' = FALSE

\* Actor::new begins with State::new().
ActorNew ==
    /\ pc = "new"
    /\ ReadInterfaces
    /\ UNCHANGED <<sysVars, subVars, mon, calls, pc, interface_state, actorVars, spent>>

\* The debounce branch of the select: handle_potential_change begins.
Debounced ==
    /\ pc = "run" /\ due /\ (pending_change \/ pending_time_jump)
    /\ ReadInterfaces
    /\ UNCHANGED <<sysVars, subVars, mon, calls, pc, interface_state, actorVars, spent>>

\* get_state awaits the default route, which it reads after the interfaces.
ReadDefaultRoute ==
    /\ pc \in {"new", "run"} /\ reading = "route"
    /\ reading' = "done"
    /\ snap' = [snap EXCEPT !.route = sys.route]
    /\ UNCHANGED <<sysVars, subVars, mon, calls, pc, interface_state, actorVars, spent,
                   unannounced>>

Publish(unsuspend) ==
    /\ interface_state' = [net |-> snap, last_unsuspend |-> unsuspend]
    /\ window' = {sys}

\* The rest of Actor::new, up to RouteMonitor::new.
FirstState ==
    /\ pc = "new" /\ reading = "done"
    /\ Publish(0)
    /\ reading' = "no"
    /\ pc' = "monitor"
    /\ UNCHANGED <<platform, sys, snap, subVars, mon, calls, actorVars, spent, unannounced>>

\* Mutant: equal states return early before the time jump is looked at.
handle_potential_change_early ==
    /\ pc = "run" /\ reading = "done"
    /\ IF Same(interface_state.net, snap) /\ interface_state.last_unsuspend = 0
          THEN UNCHANGED <<interface_state, window>>
          ELSE Publish(IF pending_time_jump THEN spent.jumps ELSE 0)
    /\ reading' = "no"
    /\ pending_change' = FALSE /\ pending_time_jump' = FALSE
    /\ UNCHANGED <<platform, sys, snap, subVars, mon, calls, pc, due, spent, unannounced>>

\* The rest of handle_potential_change, and the flags after it.  The time of
\* an unsuspend is the number of jumps detected so far.
handle_potential_change ==
    /\ pc = "run" /\ reading = "done"
    /\ \/ pending_time_jump /\ Publish(spent.jumps)
       \/ /\ ~ pending_time_jump
          /\ IF Same(interface_state.net, snap) /\ interface_state.last_unsuspend = 0
                THEN UNCHANGED <<interface_state, window>>
                ELSE Publish(0)
    /\ reading' = "no"
    /\ pending_change' = FALSE /\ pending_time_jump' = FALSE
    /\ UNCHANGED <<platform, sys, snap, subVars, mon, calls, pc, due, spent, unannounced>>

DebounceElapses ==
    /\ pc = "run" /\ ~ due
    /\ due' = TRUE
    /\ UNCHANGED <<sysVars, subVars, mon, calls, pc, readVars, interface_state,
                   pending_change, pending_time_jump, spent, unannounced>>

\* A Change, or a NetworkChange, is received: the debounce starts again.
ReceiveChange ==
    /\ pc = "run" /\ reading = "no"
    /\ \/ mon > 0 /\ mon' = mon - 1 /\ UNCHANGED calls
       \/ calls > 0 /\ calls' = calls - 1 /\ UNCHANGED mon
    /\ pending_change' = TRUE
    /\ due' = FALSE
    /\ UNCHANGED <<sysVars, subVars, pc, readVars, interface_state,
                   pending_time_jump, spent, unannounced>>

\* The tick of wall_time_interval finds that more than 150% of it has passed.
WallTimeTick ==
    /\ pc = "run" /\ reading = "no"
    /\ Spend("jumps", MaxJumps)
    /\ pending_time_jump' = TRUE
    /\ due' = FALSE
    /\ UNCHANGED <<sysVars, subVars, mon, calls, pc, readVars, interface_state,
                   pending_change, unannounced>>

-----------------------------------------------------------------------------
(* The owner of the Monitor.                                               *)

network_change ==
    /\ pc = "run" /\ calls < ActorCap
    /\ Spend("calls", MaxCalls)
    /\ calls' = calls + 1
    /\ UNCHANGED <<sysVars, subVars, mon, pc, readVars, interface_state, actorVars,
                   unannounced>>

\* The handle aborts the actor, whose RouteMonitor aborts its task or
\* unregisters its callbacks.
DropMonitor ==
    /\ pc = "run"
    /\ \/ platform = "windows" /\ pc' = "unregister" /\ UNCHANGED subVars
       \/ platform # "windows" /\ pc' = "stopped" /\ Unsubscribed
    /\ UNCHANGED <<sysVars, mon, calls, readVars, interface_state, actorVars, spent,
                   unannounced>>

MonitorStep ==
    \/ RouteMonitorNew \/ Reconnect \/ process_messages
    \/ AwaitReadable \/ read_available \/ UnregisterCallback
ActorStep ==
    \/ ActorNew \/ Debounced \/ ReadDefaultRoute \/ FirstState
    \/ handle_potential_change \/ ReceiveChange
Next ==
    \/ System
    \/ MonitorStep \/ ReconnectFails \/ ConnectionLost
    \/ ActorStep \/ DebounceElapses \/ WallTimeTick
    \/ network_change \/ DropMonitor

Spec == Init /\ [][Next]_vars

\* The tasks and the threads of the system keep running, and timers elapse.
FairSpec == Spec /\ WF_vars(MonitorStep) /\ WF_vars(ActorStep) /\ WF_vars(DebounceElapses)

-----------------------------------------------------------------------------
TypeOK ==
    /\ platform \in Platforms
    /\ sys \in Network /\ snap \in Network /\ window \subseteq Network
    /\ subs \subseteq {"addr", "route", "link"}
    /\ callbacks \subseteq {"addr", "route"}
    /\ queue \in Seq(Message)
    /\ ready \in BOOLEAN /\ draining \in BOOLEAN
    /\ addr_cache \subseteq Ifaces
    /\ mon \in 0..MonCap /\ calls \in 0..ActorCap
    /\ pc \in {"new", "monitor", "run", "unregister", "stopped"}
    /\ reading \in {"no", "route", "done"}
    /\ interface_state \in [net : Network \cup {NoState}, last_unsuspend : 0..MaxJumps]
    /\ pending_change \in BOOLEAN /\ pending_time_jump \in BOOLEAN /\ due \in BOOLEAN
    /\ spent \in [changes : 0..MaxChanges, calls : 0..MaxCalls,
                   jumps : 0..MaxJumps, faults : 0..MaxFaults]
    /\ unannounced \in BOOLEAN

\* A Change that the actor has yet to receive, or will be made to receive.
Coming ==
    \/ mon > 0 \/ calls > 0
    \/ \E k \in 1..Len(queue) :
          \/ platform = "linux" /\ Interesting(queue[k])
          \/ platform = "bsd" /\ is_interesting_message(queue[k])

\* No change is lost: while the monitor runs, what it publishes is what the
\* system is, unless a Change is on its way, or one is being handled, or the
\* system changed in a way nobody was told of.  In particular a change during
\* handle_potential_change's await, whose pending flags are cleared only
\* afterwards, and a Change dropped by try_send on a full channel, are not lost.
NothingLost ==
    pc = "run" =>
        \/ Same(interface_state.net, sys)
        \/ unannounced \/ Coming \/ pending_change \/ pending_time_jump

\* Windows: as long as the system may call a callback, the closure it calls is
\* alive ("Cancel first to ensure no in-flight callbacks reference the Arc").
ClosureAlive == platform = "windows" => subs \subseteq callbacks

\* Once the system is quiet, watchers see it as it is, unless a change was not
\* announced: no event may be left in the route socket, in a channel or behind
\* the debounce for ever.
EventuallyFresh ==
    <>[](pc = "run" => Same(interface_state.net, sys) \/ unannounced)

\* A time jump reaches the watchers: a state is published whose last_unsuspend
\* is the time of this jump or of a later one, whatever other change is pending.
JumpReported ==
    \A n \in 1..MaxJumps :
        (pending_time_jump /\ spent.jumps = n)
            ~> (interface_state.last_unsuspend >= n \/ pc # "run")

\* The monitor does what InterfaceWatch promises.
Mix(a, b) == [a EXCEPT !.route = b.route]
Watch == INSTANCE InterfaceWatch WITH
    Networks <- Network, actual <- sys,
    published <- interface_state.net, unsuspend <- interface_state.last_unsuspend

\* Whatever is published was read after the previous publication, from the
\* interfaces as they were at one moment and the default route at another, and
\* is news: handle_potential_change returns early when nothing differs.
WatchSpec == Watch!Spec
=============================================================================
