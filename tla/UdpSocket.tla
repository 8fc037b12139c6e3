----------------------------- MODULE UdpSocket -----------------------------
(***************************************************************************)
(* The rebinding UDP socket of netwatch: several tasks, on several         *)
(* threads, send, receive, rebind, connect and close one UdpSocket, whose  *)
(* state is behind a RwLock, whose need of a rebind is an AtomicBool       *)
(* written under the lock and read outside it, and whose waiting tasks are *)
(* remembered in two single-slot AtomicWakers and in the two poll slots of *)
(* the tokio socket.                                                       *)
(*                                                                         *)
(* A task runs one operation, given by its Kind, again and again.  A step  *)
(* is what a thread does between two accesses to shared state that another *)
(* thread could observe.  Datagrams, lengths and addresses are left out.   *)
(***************************************************************************)
EXTENDS Naturals, FiniteSets

CONSTANTS
    Tasks,  \* the tasks that use the socket
    Kind,   \* the operation of each task
    None    \* no task

\* recv: recv, recv_from and poll_recv_noq; send: send, send_to, poll_writable,
\* poll_send_noq and UdpSender::send; poll_send and try_send: of UdpSender.
PollKinds == {"recv", "send", "poll_send"}
TryKinds == {"try_send_noq", "try_send"}
CallKinds == {"rebind", "close", "connect"}

ASSUME KindAssumption ==
    /\ Kind \in [Tasks -> PollKinds \cup TryKinds \cup CallKinds]
    /\ None \notin Tasks

Dirs == {"recv", "send"}
Dir(t) == IF Kind[t] = "recv" THEN "recv" ELSE "send"

VARIABLES
    state,    \* SocketState: "Connected" or "Closed"
    broken,   \* is_broken
    readers,  \* the number of read guards each task holds
    writer,   \* the task that holds the write guard
    waker,    \* recv_waker and send_waker
    os,       \* the bound socket still works ("ok") or has died ("dead")
    ready,    \* tokio: directions the bound socket is ready for
    slot,     \* tokio: the task each direction of the bound socket wakes
    peer,     \* the bound socket has a peer address
    pc,       \* where each task is
    waits,    \* what a pending task waits for
    notified, \* tasks whose waker has been called since they were last polled
    shut,     \* history: close() was called, and rebind() not since
    joined    \* history: connect() returned Ok

lockVars == <<readers, writer>>
sockVars == <<state, os, ready, slot, peer>>
history == <<shut, joined>>
vars == <<sockVars, broken, lockVars, waker, pc, waits, notified, history>>

\* SocketState::bind at the start; `waits` is "gone" once the socket a task
\* was parked on has been dropped.
Init ==
    /\ state = "Connected" /\ os = "ok" /\ ready = {} /\ peer = FALSE
    /\ slot = [d \in Dirs |-> None]
    /\ broken = FALSE
    /\ readers = [t \in Tasks |-> 0]
    /\ writer = None
    /\ waker = [d \in Dirs |-> None]
    /\ pc = [t \in Tasks |-> "idle"]
    /\ waits = [t \in Tasks |-> "nothing"]
    /\ notified = {}
    /\ shut = FALSE /\ joined = FALSE

-----------------------------------------------------------------------------
At(t, l) == pc[t] = l
Goto(t, l) == pc' = [pc EXCEPT ![t] = l]

\* The guards of t are dropped.
Unlocked(t) == readers' = [readers EXCEPT ![t] = 0]

\* std::sync::RwLock: a writer that does not get the lock at once queues, and
\* then new readers are refused; a writer woken by the last reader competes
\* with them again.
Queued == \E u \in Tasks : At(u, "queued")
Held == \E u \in Tasks : readers[u] > 0
Contended == writer # None \/ Queued
Readable == writer = None /\ ~(Queued /\ Held)

\* Start of a call; the futures are lazy, so this is also their first poll.
Begin(t) ==
    /\ At(t, "idle")
    /\ Goto(t, CASE Kind[t] \in {"rebind", "close"} -> "wlock"
                 [] Kind[t] = "connect" -> "connect"
                 [] OTHER -> "check")
    /\ UNCHANGED <<sockVars, broken, lockVars, waker, waits, notified, history>>

\* maybe_rebind: the first look at is_broken, without the lock.
MaybeRebind(t) ==
    /\ At(t, "check")
    /\ Goto(t, IF broken THEN "wlock" ELSE "read")
    /\ UNCHANGED <<sockVars, broken, lockVars, waker, waits, notified, history>>

\* self.socket.write(), when it has to wait.
Queue(t) ==
    /\ At(t, "wlock")
    /\ writer # None \/ Held
    /\ Goto(t, "queued")
    /\ UNCHANGED <<sockVars, broken, lockVars, waker, waits, notified, history>>

\* self.socket.write(), when it gets the lock.
WriteLock(t) ==
    /\ At(t, "wlock") \/ At(t, "queued")
    /\ writer = None /\ ~Held
    /\ writer' = t
    /\ Goto(t, CASE Kind[t] = "rebind" -> "rebind"
                 [] Kind[t] = "close" -> "close"
                 [] OTHER -> "recheck")
    /\ UNCHANGED <<sockVars, broken, readers, waker, waits, notified, history>>

\* Mutant: no second look.
RecheckSkipped(t) ==
    /\ At(t, "recheck")
    /\ Goto(t, "rebind")
    /\ UNCHANGED <<sockVars, broken, lockVars, waker, waits, notified, history>>

\* maybe_rebind: the second look, under the lock.  If another task has made
\* the rebind the lock is released, and nobody is woken.
Recheck(t) ==
    /\ At(t, "recheck")
    /\ Goto(t, IF broken THEN "rebind" ELSE "read")
    /\ writer' = IF broken THEN t ELSE None
    /\ UNCHANGED <<sockVars, broken, readers, waker, waits, notified, history>>

\* The tokio socket is dropped, and its poll slots with it, waking nobody.
DropSocket ==
    /\ slot' = [d \in Dirs |-> None]
    /\ ready' = {}
    /\ peer' = FALSE
    /\ waits' = [t \in Tasks |-> IF waits[t] = "ready" THEN "gone" ELSE waits[t]]

\* SocketState::rebind under the write lock, of rebind() and maybe_rebind: the
\* old socket is dropped first, then a new one is bound, or the state stays
\* Closed and the error is returned without a wakeup.
Rebind(t) ==
    /\ At(t, "rebind")
    /\ DropSocket
    /\ writer' = None
    /\ shut' = (shut /\ Kind[t] # "rebind")
    /\ \/ /\ state' = "Connected" /\ os' = "ok"
          /\ broken' = FALSE
          /\ Goto(t, "wake_recv")
       \/ /\ state' = "Closed" /\ os' = "dead"
          /\ broken' = broken
          /\ Goto(t, "idle")
    /\ UNCHANGED <<readers, waker, notified, joined>>

\* close(): the socket is taken out of the state; is_broken stays as it is.
Close(t) ==
    /\ At(t, "close")
    /\ DropSocket
    /\ state' = "Closed" /\ os' = "dead"
    /\ writer' = None
    /\ shut' = TRUE
    /\ Goto(t, "wake_recv")
    /\ UNCHANGED <<broken, readers, waker, notified, joined>>

\* AtomicWaker::wake takes the waker.
Wake(d) ==
    /\ waker' = [waker EXCEPT ![d] = None]
    /\ notified' = notified \cup ({waker[d]} \ {None})

\* Mutant: only the sender is woken.
WakeAllSender(t) ==
    /\ At(t, "wake_recv")
    /\ Wake("send")
    /\ Goto(t, IF Kind[t] \in CallKinds THEN "idle" ELSE "read")
    /\ UNCHANGED <<sockVars, broken, lockVars, waits, history>>

\* wake_all, after the lock is released: recv_waker, then send_waker.
WakeAll(t) ==
    /\ \/ /\ At(t, "wake_recv")
          /\ Wake("recv")
          /\ Goto(t, "wake_send")
       \/ /\ At(t, "wake_send")
          /\ Wake("send")
          /\ Goto(t, IF Kind[t] \in CallKinds THEN "idle" ELSE "read")
    /\ UNCHANGED <<sockVars, broken, lockVars, waits, history>>

\* Mutant: the future polled by poll_send takes the path of poll_send itself.
ReadGuardNested(t) ==
    /\ Readable
    /\ readers' = [readers EXCEPT ![t] = @ + 1]
    /\ Goto(t, IF Kind[t] = "poll_send" THEN "check" ELSE "io")

\* A read guard is taken.  UdpSender::poll_send keeps it while it polls
\* poll_writable, which starts over with maybe_rebind.
ReadGuard(t) ==
    /\ Readable
    /\ readers' = [readers EXCEPT ![t] = @ + 1]
    /\ Goto(t, IF Kind[t] = "poll_send" /\ readers[t] = 0 THEN "check" ELSE "io")

\* try_read of poll_read_socket, try_send_noq and UdpSender::try_send.
TryRead(t) ==
    /\ At(t, "read")
    /\ \/ ReadGuard(t)
       \/ /\ Contended
          /\ Goto(t, IF Kind[t] \in TryKinds THEN "idle" ELSE "register")
          /\ UNCHANGED readers
    /\ UNCHANGED <<sockVars, broken, writer, waker, waits, notified, history>>

\* poll_read_socket: waker.register(cx.waker())
Register(t) ==
    /\ At(t, "register")
    /\ waker' = [waker EXCEPT ![Dir(t)] = t]
    /\ Goto(t, "retry")
    /\ UNCHANGED <<sockVars, broken, lockVars, waits, notified, history>>

\* poll_read_socket: the second try_read, and Poll::Pending if it fails too.
Retry(t) ==
    /\ At(t, "retry")
    /\ \/ /\ ReadGuard(t)
          /\ waker' = [waker EXCEPT ![Dir(t)] = None]
          /\ UNCHANGED waits
       \/ /\ Contended
          /\ Unlocked(t)
          /\ waits' = [waits EXCEPT ![t] = "lock"]
          /\ Goto(t, "pending")
          /\ UNCHANGED waker
    /\ UNCHANGED <<sockVars, broken, writer, notified, history>>

\* try_get_connected, then poll_recv_ready or poll_send_ready (try_io for the
\* try variants).  poll_writable returns its guard to poll_send.
PollReady(t) ==
    /\ At(t, "io")
    /\ \/ /\ state = "Closed" \/ (Dir(t) \notin ready /\ Kind[t] \in TryKinds)
          /\ Unlocked(t)
          /\ Goto(t, "idle")
          /\ UNCHANGED slot
       \/ /\ state = "Connected" /\ Dir(t) \in ready
          /\ readers' = [readers EXCEPT ![t] = 1]
          /\ Goto(t, "op")
          /\ UNCHANGED slot
       \/ /\ state = "Connected" /\ Dir(t) \notin ready
          /\ Kind[t] \notin TryKinds
          /\ slot' = [slot EXCEPT ![Dir(t)] = t]
          /\ Goto(t, "park")
          /\ UNCHANGED readers
    /\ UNCHANGED <<state, os, ready, peer, broken, writer, waker, waits,
                   notified, history>>

\* Mutant: only the poll slot of the tokio socket remembers the task.
ParkUnregistered(t) ==
    /\ At(t, "park")
    /\ waits' = [waits EXCEPT ![t] = "ready"]
    /\ Unlocked(t)
    /\ Goto(t, "pending")
    /\ UNCHANGED <<sockVars, broken, writer, waker, notified, history>>

\* Mutant: the guard is kept by the pending future.
ParkLocked(t) ==
    /\ At(t, "park")
    /\ waker' = [waker EXCEPT ![Dir(t)] = t]
    /\ waits' = [waits EXCEPT ![t] = "ready"]
    /\ Goto(t, "pending")
    /\ UNCHANGED <<sockVars, broken, lockVars, notified, history>>

\* The waker is registered with the guard still held; then Poll::Pending.
Park(t) ==
    /\ At(t, "park")
    /\ waker' = [waker EXCEPT ![Dir(t)] = t]
    /\ waits' = [waits EXCEPT ![t] = "ready"]
    /\ Unlocked(t)
    /\ Goto(t, "pending")
    /\ UNCHANGED <<sockVars, broken, writer, notified, history>>

\* is_transient_read_error: the socket is healthy, the receiver tries again.
TransientReadError(t) == os = "ok" /\ Kind[t] = "recv"

\* The system call, and handle_read_error or handle_write_error on its result.
Operate(t) ==
    /\ At(t, "op")
    /\ Unlocked(t)
    /\ \/ /\ os = "ok"                    \* done, or an error for the caller
          /\ Goto(t, "idle")
          /\ UNCHANGED <<broken, ready>>
       \/ /\ os = "ok"                    \* WouldBlock
          /\ ready' = ready \ {Dir(t)}
          /\ Goto(t, IF Kind[t] \in TryKinds THEN "idle" ELSE "check")
          /\ UNCHANGED broken
       \/ /\ TransientReadError(t)
          /\ Goto(t, "check")
          /\ UNCHANGED <<broken, ready>>
       \/ /\ os = "dead"                  \* NotConnected, BrokenPipe
          /\ Kind[t] \in {"recv", "send", "try_send_noq"}
          /\ broken' = TRUE
          /\ Goto(t, "check")
          /\ UNCHANGED ready
       \/ /\ os = "dead"                  \* not looked at by UdpSender
          /\ Kind[t] \in {"poll_send", "try_send"}
          /\ Goto(t, "idle")
          /\ UNCHANGED <<broken, ready>>
    /\ UNCHANGED <<state, os, slot, peer, writer, waker, waits, notified,
                   history>>

\* A task whose waker has been called is polled again.
Repoll(t) ==
    /\ At(t, "pending")
    /\ t \in notified
    /\ notified' = notified \ {t}
    /\ waits' = [waits EXCEPT ![t] = "nothing"]
    /\ Goto(t, "check")
    /\ UNCHANGED <<sockVars, broken, lockVars, waker, history>>

\* A pending future is dropped; its wakers stay registered.
Cancel(t) ==
    /\ At(t, "pending")
    /\ waits' = [waits EXCEPT ![t] = "nothing"]
    /\ Goto(t, "idle")
    /\ UNCHANGED <<sockVars, broken, lockVars, waker, notified, history>>

\* connect(): under a read guard that is released before it returns.
Connect(t) ==
    /\ At(t, "connect")
    /\ writer = None
    /\ peer' = (peer \/ state = "Connected")
    /\ joined' = (joined \/ state = "Connected")
    /\ Goto(t, "idle")
    /\ UNCHANGED <<state, os, ready, slot, broken, lockVars, waker, waits,
                   notified, shut>>

\* The runtime reports the bound socket ready and wakes the task in the slot.
BecomesReady(d) ==
    /\ state = "Connected"
    /\ d \notin ready
    /\ ready' = ready \cup {d}
    /\ slot' = [slot EXCEPT ![d] = None]
    /\ notified' = notified \cup ({slot[d]} \ {None})
    /\ UNCHANGED <<state, os, peer, broken, lockVars, waker, pc, waits, history>>

\* The operating system takes the bound socket away.
Dies ==
    /\ state = "Connected"
    /\ os = "ok"
    /\ os' = "dead"
    /\ UNCHANGED <<state, ready, slot, peer, broken, lockVars, waker, pc, waits,
                   notified, history>>

\* The steps of a call or of a poll, once begun.
Step(t) ==
    \/ MaybeRebind(t) \/ Queue(t) \/ Recheck(t) \/ Rebind(t) \/ Close(t) \/ WakeAll(t)
    \/ TryRead(t) \/ Register(t) \/ Retry(t) \/ PollReady(t) \/ Park(t)
    \/ Operate(t) \/ Repoll(t) \/ Connect(t)

Next ==
    \/ \E t \in Tasks : Begin(t) \/ WriteLock(t) \/ Step(t) \/ Cancel(t)
    \/ \E d \in Dirs : BecomesReady(d)
    \/ Dies

Spec == Init /\ [][Next]_vars

\* Threads make progress and the runtime polls a notified task.  A queued
\* writer, woken each time the last reader leaves, does not lose that race
\* for ever.
Fairness == \A t \in Tasks : WF_vars(Step(t)) /\ SF_vars(WriteLock(t))

FairSpec == Spec /\ Fairness
-----------------------------------------------------------------------------
(* Properties                                                              *)

Locations == {"idle", "check", "wlock", "queued", "recheck", "rebind",
              "close", "wake_recv", "wake_send", "read", "register", "retry", "io",
              "park", "op", "pending", "connect"}

\* Every variable holds a value of its type: no task holds more than the two
\* guards of poll_send and poll_writable.
TypeOK ==
    /\ state \in {"Connected", "Closed"} /\ os \in {"ok", "dead"}
    /\ ready \in SUBSET Dirs /\ peer \in BOOLEAN
    /\ slot \in [Dirs -> Tasks \cup {None}]
    /\ waker \in [Dirs -> Tasks \cup {None}]
    /\ broken \in BOOLEAN
    /\ readers \in [Tasks -> 0..2] /\ writer \in Tasks \cup {None}
    /\ pc \in [Tasks -> Locations]
    /\ waits \in [Tasks -> {"nothing", "lock", "ready", "gone"}]
    /\ notified \in SUBSET Tasks
    /\ shut \in BOOLEAN /\ joined \in BOOLEAN

\* A working socket is never replaced by maybe_rebind: several tasks may find
\* the socket dead and queue for the write lock, but by the second look at
\* is_broken all but the first know that the rebind is done.
OnlyBrokenReplaced ==
    \A t \in Tasks : At(t, "rebind") /\ Kind[t] # "rebind" => os = "dead"

\* Somebody is about to call the waker of direction d.
AboutToWake(d) ==
    \E u \in Tasks : At(u, "wake_recv") \/ (d = "send" /\ At(u, "wake_send"))

\* When a new socket is in place, every task still parked on an old one has
\* been woken or is in its AtomicWaker with wake_all on its way: neither the
\* dropped poll slots, nor a rebind that failed before, nor a task that
\* registers while the rebind runs makes it miss the new socket.
ReplacedSocketWakes ==
    \A t \in Tasks :
        At(t, "pending") /\ waits[t] = "gone" /\ state = "Connected"
        => \/ t \in notified
           \/ waker[Dir(t)] = t /\ AboutToWake(Dir(t))

\* A task that waits for the write lock, to rebind or to close, gets it: no
\* read guard is held for ever, in particular none by a pending task.
\* maybe_rebind: "Checks if the socket needs a rebind, and if so does it."
WriteLockGranted ==
    \A t \in Tasks : At(t, "wlock") ~> At(t, "idle") \/ writer = t

\* A task parked on a socket that has been replaced by a new one is polled
\* again (or its future is dropped).
ParkedTasksMove ==
    \A t \in Tasks : At(t, "pending") /\ waits[t] = "gone" /\ state = "Connected"
                      ~> ~At(t, "pending")

\* poll_read_socket: "Ok fine, we registered our waker, the lock is really
\* closed, we can return pending."  A task that did so and finds a working
\* socket in place is polled again.
LockWaitersWoken ==
    \A t \in Tasks :
        At(t, "pending") /\ waits[t] = "lock" /\ state = "Connected" /\ os = "ok"
        ~> ~At(t, "pending")

\* close(): "Closes the socket".  It stays closed until rebind() is called.
CloseIsFinal == shut => state = "Closed"

\* connect(): "Connects the UDP socket setting the default destination for
\* send() and limiting packets that are read via `recv`".  A socket that has
\* been connected has a peer as long as it is bound.
ConnectSticks == joined /\ state = "Connected" => peer
=============================================================================
