-------------------------- MODULE UdpSocketProofs --------------------------
(***************************************************************************)
(* Theorems about the rebinding UDP socket, for any set of tasks and any   *)
(* operations they run.                                                    *)
(***************************************************************************)
EXTENDS UdpSocket, TLAPS

\* Where a task may be within maybe_rebind and poll_read_socket, which
\* poll_send goes through twice: the second time with a guard of its own.
Entering == {"check", "wlock", "queued", "read", "register", "retry"}

\* Guards held: what a task holds is told by where it is.
GuardsOK ==
    \A t \in Tasks :
        /\ pc[t] \in Entering =>
              readers[t] = 0 \/ (readers[t] = 1 /\ Kind[t] = "poll_send")
        /\ pc[t] \in {"io", "park"} => readers[t] \in 1..2
        /\ pc[t] = "op" => readers[t] = 1
        /\ pc[t] \notin Entering \cup {"io", "park", "op"} => readers[t] = 0

\* The write lock excludes every other guard.
LockOK ==
    /\ \A t \in Tasks : pc[t] \in {"recheck", "rebind", "close"} => writer = t
    /\ writer # None => \A u \in Tasks : readers[u] = 0

\* is_broken is only set for a dead socket, and still set when maybe_rebind
\* has taken its second look.
BrokenOK ==
    /\ broken => os = "dead"
    /\ \A t \in Tasks : At(t, "rebind") /\ Kind[t] # "rebind" => broken

IInv == TypeOK /\ GuardsOK /\ LockOK /\ BrokenOK

LEMMA InitInv == Init => IInv
<1> SUFFICES ASSUME Init PROVE IInv
  OBVIOUS
<1> USE DEF Init
<1>1. TypeOK
  <2>1. /\ state \in {"Connected", "Closed"} /\ os \in {"ok", "dead"}
        /\ ready \in SUBSET Dirs /\ peer \in BOOLEAN /\ broken \in BOOLEAN
        /\ shut \in BOOLEAN /\ joined \in BOOLEAN /\ notified \in SUBSET Tasks
    BY Zenon
  <2>2. /\ slot \in [Dirs -> Tasks \cup {None}]
        /\ waker \in [Dirs -> Tasks \cup {None}]
        /\ writer \in Tasks \cup {None}
    OBVIOUS
  <2>3. readers \in [Tasks -> 0..2]
    OBVIOUS
  <2>4. /\ pc \in [Tasks -> Locations]
        /\ waits \in [Tasks -> {"nothing", "lock", "ready", "gone"}]
    BY DEF Locations
  <2> QED
    BY <2>1, <2>2, <2>3, <2>4 DEF TypeOK
<1>2. GuardsOK
  BY DEF GuardsOK, Entering
<1>3. LockOK /\ BrokenOK
  BY DEF LockOK, BrokenOK, At
<1> QED
  BY <1>1, <1>2, <1>3 DEF IInv

-----------------------------------------------------------------------------
(* Each step of a task keeps the types.                                    *)

LEMMA TypeStep ==
    ASSUME IInv, NEW t \in Tasks,
           Begin(t) \/ WriteLock(t) \/ Step(t) \/ Cancel(t)
    PROVE  TypeOK'
<1> USE DEF IInv, TypeOK, lockVars, sockVars, history, At, Goto, Locations,
    Dirs, Dir, KindAssumption
<1>1. CASE Begin(t) \/ MaybeRebind(t) \/ Queue(t) \/ WriteLock(t) \/ Recheck(t)
  BY <1>1 DEF Begin, MaybeRebind, Queue, WriteLock, Recheck
<1>2. CASE Rebind(t) \/ Close(t)
  <2>1. /\ slot' \in [Dirs -> Tasks \cup {None}]
        /\ waits' \in [Tasks -> {"nothing", "lock", "ready", "gone"}]
    BY <1>2 DEF Rebind, Close, DropSocket
  <2>2. pc' \in [Tasks -> Locations]
    BY <1>2 DEF Rebind, Close
  <2>3. ready' \in SUBSET Dirs /\ peer' \in BOOLEAN /\ shut' \in BOOLEAN
    BY <1>2, Zenon DEF Rebind, Close, DropSocket
  <2>4. broken' \in BOOLEAN /\ writer' \in Tasks \cup {None}
    BY <1>2, Zenon DEF Rebind, Close
  <2> QED
    BY <1>2, <2>1, <2>2, <2>3, <2>4 DEF Rebind, Close
<1>3. CASE WakeAll(t)
  <2>1. /\ waker' \in [Dirs -> Tasks \cup {None}]
        /\ notified' \in SUBSET Tasks
    BY <1>3 DEF WakeAll, Wake
  <2>2. pc' \in [Tasks -> Locations]
    BY <1>3 DEF WakeAll
  <2> QED
    BY <1>3, <2>1, <2>2 DEF WakeAll
<1>4. CASE TryRead(t) \/ Retry(t)
  <2>1. readers' \in [Tasks -> 0..2]
    BY <1>4 DEF TryRead, Retry, ReadGuard, Unlocked, GuardsOK, Entering
  <2>2. /\ pc' \in [Tasks -> Locations]
        /\ waits' \in [Tasks -> {"nothing", "lock", "ready", "gone"}]
        /\ waker' \in [Dirs -> Tasks \cup {None}]
    BY <1>4 DEF TryRead, Retry, ReadGuard
  <2> QED
    BY <1>4, <2>1, <2>2, Zenon DEF TryRead, Retry
<1>5. CASE Register(t) \/ Park(t)
  <2>1. readers' \in [Tasks -> 0..2]
    BY <1>5 DEF Register, Park, Unlocked
  <2>2. /\ pc' \in [Tasks -> Locations]
        /\ waits' \in [Tasks -> {"nothing", "lock", "ready", "gone"}]
        /\ waker' \in [Dirs -> Tasks \cup {None}]
    BY <1>5 DEF Register, Park
  <2> QED
    BY <1>5, <2>1, <2>2, Zenon DEF Register, Park
<1>6. CASE PollReady(t)
  BY <1>6 DEF PollReady, Unlocked
<1>7. CASE Operate(t)
  <2>1. readers' \in [Tasks -> 0..2]
    BY <1>7 DEF Operate, Unlocked
  <2>2. pc' \in [Tasks -> Locations] /\ broken' \in BOOLEAN
    BY <1>7, Zenon DEF Operate
  <2>3. ready' \in SUBSET Dirs
    BY <1>7, Zenon DEF Operate
  <2> QED
    BY <1>7, <2>1, <2>2, <2>3 DEF Operate
<1>8. CASE Repoll(t) \/ Cancel(t) \/ Connect(t)
  BY <1>8, Zenon DEF Repoll, Cancel, Connect
<1> QED
  BY <1>1, <1>2, <1>3, <1>4, <1>5, <1>6, <1>7, <1>8 DEF Step
-----------------------------------------------------------------------------
(* Each step of a task keeps the guards, the lock and is_broken in order.  *)

LEMMA LockStep ==
    ASSUME IInv, NEW t \in Tasks,
           Begin(t) \/ WriteLock(t) \/ Step(t) \/ Cancel(t)
    PROVE  GuardsOK' /\ LockOK' /\ BrokenOK'
<1> USE DEF IInv, TypeOK, GuardsOK, LockOK, BrokenOK, Entering, lockVars,
    sockVars, history, At, Goto, KindAssumption
<1>1. CASE Begin(t)
  BY <1>1 DEF Begin
<1>2. CASE MaybeRebind(t) \/ Queue(t)
  BY <1>2 DEF MaybeRebind, Queue
<1>3. CASE WriteLock(t)
  <2>1. \A u \in Tasks : readers[u] = 0
    BY <1>3 DEF WriteLock, Held
  <2> QED
    BY <1>3, <2>1, KindAssumption DEF WriteLock
<1>4. CASE Recheck(t)
  BY <1>4, KindAssumption DEF Recheck
<1>5. CASE Rebind(t)
  BY <1>5, KindAssumption DEF Rebind, DropSocket
<1>6. CASE Close(t)
  BY <1>6, KindAssumption DEF Close, DropSocket
<1>7. CASE WakeAll(t)
  BY <1>7 DEF WakeAll
<1>8. CASE TryRead(t)
  <2>1. /\ UNCHANGED <<broken, os, writer>> /\ pc[t] = "read"
        /\ readers[t] = 0 \/ (readers[t] = 1 /\ Kind[t] = "poll_send")
    BY <1>8 DEF TryRead
  <2>2. CASE ReadGuard(t)
    <3>1. GuardsOK'
      BY <2>1, <2>2 DEF ReadGuard
    <3>2. LockOK' /\ BrokenOK'
      BY <2>1, <2>2 DEF ReadGuard, Readable
    <3> QED
      BY <3>1, <3>2
  <2>3. CASE ~ReadGuard(t)
    BY <1>8, <2>1, <2>3 DEF TryRead, TryKinds
  <2> QED
    BY <2>2, <2>3
<1>9. CASE Register(t)
  BY <1>9 DEF Register
<1>10. CASE Retry(t)
  BY <1>10 DEF Retry, ReadGuard, Readable, Unlocked
<1>11. CASE PollReady(t)
  BY <1>11 DEF PollReady, Unlocked
<1>12. CASE Park(t)
  BY <1>12 DEF Park, Unlocked
<1>13. CASE Operate(t)
  BY <1>13 DEF Operate, Unlocked
<1>14. CASE Repoll(t) \/ Cancel(t) \/ Connect(t)
  BY <1>14 DEF Repoll, Cancel, Connect
<1> QED
  BY <1>1, <1>2, <1>3, <1>4, <1>5, <1>6, <1>7, <1>8, <1>9, <1>10, <1>11,
     <1>12, <1>13, <1>14, Zenon DEF Step

\* Steps of the runtime and the operating system, and steps that change
\* nothing.
LEMMA EnvironmentStep ==
    ASSUME IInv,
           (\E d \in Dirs : BecomesReady(d)) \/ Dies \/ UNCHANGED vars
    PROVE  IInv'
<1> USE DEF IInv, TypeOK, lockVars, sockVars, history, vars
<1>1. CASE \E d \in Dirs : BecomesReady(d)
  <2>1. TypeOK'
    BY <1>1 DEF BecomesReady
  <2>2. GuardsOK' /\ LockOK' /\ BrokenOK'
    BY <1>1 DEF BecomesReady, GuardsOK, LockOK, BrokenOK, At
  <2> QED
    BY <2>1, <2>2
<1>2. CASE Dies \/ UNCHANGED vars
  <2>1. TypeOK'
    BY <1>2 DEF Dies
  <2>2. GuardsOK' /\ LockOK' /\ BrokenOK'
    BY <1>2 DEF Dies, GuardsOK, LockOK, BrokenOK, At
  <2> QED
    BY <2>1, <2>2
<1> QED
  BY <1>1, <1>2

LEMMA NextInv == IInv /\ [Next]_vars => IInv'
<1> SUFFICES ASSUME IInv, [Next]_vars PROVE IInv'
  OBVIOUS
<1>1. CASE \E t \in Tasks : Begin(t) \/ WriteLock(t) \/ Step(t) \/ Cancel(t)
  BY <1>1, TypeStep, LockStep DEF IInv
<1>2. CASE (\E d \in Dirs : BecomesReady(d)) \/ Dies \/ UNCHANGED vars
  BY <1>2, EnvironmentStep
<1> QED
  BY <1>1, <1>2 DEF Next

\* Every variable of the socket keeps its type, and no task ever holds more
\* than two read guards.
THEOREM TypeCorrect == Spec => []TypeOK
<1>1. Spec => []IInv
  BY InitInv, NextInv, PTL DEF Spec
<1> QED
  BY <1>1, PTL DEF IInv

\* However many tasks find the socket dead at once, maybe_rebind never
\* replaces a socket that works.
THEOREM NoSpuriousRebind == Spec => []OnlyBrokenReplaced
<1>1. Spec => []IInv
  BY InitInv, NextInv, PTL DEF Spec
<1>2. IInv => OnlyBrokenReplaced
  BY DEF IInv, BrokenOK, OnlyBrokenReplaced
<1> QED
  BY <1>1, <1>2, PTL
-----------------------------------------------------------------------------
(* Wakeups.                                                                *)

\* At most one task waits for each direction, as the single slots of
\* AtomicWaker and of the tokio socket require.
OneWaiterPerDirection ==
    \A t, u \in Tasks :
        Kind[t] \in PollKinds /\ Kind[u] \in PollKinds /\ Dir(t) = Dir(u) => t = u

\* Only the polled operations register a waker or return Pending.
KindsOK ==
    \A t \in Tasks :
        /\ Kind[t] = "connect" => pc[t] \in {"idle", "connect"}
        /\ Kind[t] \in {"rebind", "close"} =>
              pc[t] \in {"idle", "wlock", "queued", "rebind", "close",
                        "wake_recv", "wake_send"}
        /\ Kind[t] \in TryKinds =>
              pc[t] \notin {"register", "retry", "park", "pending"}

\* A task about to return Pending, or that has, will be seen by wake_all.
RegisteredOK ==
    \A t \in Tasks :
        pc[t] \in {"retry", "pending"} => t \in notified \/ waker[Dir(t)] = t

WakeInv == TypeOK /\ KindsOK /\ RegisteredOK /\ ReplacedSocketWakes

LEMMA KindsStep ==
    ASSUME TypeOK, KindsOK, NEW t \in Tasks,
           Begin(t) \/ WriteLock(t) \/ Step(t) \/ Cancel(t)
    PROVE  KindsOK'
<1> USE DEF TypeOK, KindsOK, At, Goto, CallKinds, TryKinds, PollKinds
<1>1. CASE Begin(t) \/ WriteLock(t)
  BY <1>1 DEF Begin, WriteLock
<1>2. CASE MaybeRebind(t) \/ Queue(t) \/ Recheck(t)
  BY <1>2 DEF MaybeRebind, Queue, Recheck
<1>3. CASE Rebind(t) \/ Close(t) \/ WakeAll(t)
  BY <1>3 DEF Rebind, Close, WakeAll
<1>4. CASE TryRead(t) \/ Register(t) \/ Retry(t)
  BY <1>4 DEF TryRead, ReadGuard, Register, Retry
<1>5. CASE PollReady(t) \/ Park(t) \/ Operate(t)
  BY <1>5 DEF PollReady, Park, Operate
<1>6. CASE Repoll(t) \/ Connect(t) \/ Cancel(t)
  BY <1>6 DEF Repoll, Connect, Cancel
<1> QED
  BY <1>1, <1>2, <1>3, <1>4, <1>5, <1>6 DEF Step

\* A task that registers or takes a waker is the only one of its direction
\* that can be waiting.
LEMMA SoleWaiter ==
    ASSUME OneWaiterPerDirection, KindsOK, NEW t \in Tasks, NEW u \in Tasks,
           pc[t] \in {"register", "retry", "park"},
           pc[u] \in {"register", "retry", "park", "pending"}, Dir(t) = Dir(u)
    PROVE  t = u
<1>1. Kind[t] \notin CallKinds \cup TryKinds /\ Kind[u] \notin CallKinds \cup TryKinds
  BY DEF KindsOK, CallKinds
<1>2. Kind[t] \in PollKinds /\ Kind[u] \in PollKinds
  BY <1>1, KindAssumption
<1> QED
  BY <1>2 DEF OneWaiterPerDirection

LEMMA WakeStep ==
    ASSUME OneWaiterPerDirection, WakeInv, NEW t \in Tasks,
           Begin(t) \/ WriteLock(t) \/ Step(t) \/ Cancel(t)
    PROVE  RegisteredOK' /\ ReplacedSocketWakes'
<1> USE DEF WakeInv, TypeOK, RegisteredOK, ReplacedSocketWakes, AboutToWake,
    At, Goto, sockVars, lockVars, history
<1>1. CASE \/ Begin(t) \/ WriteLock(t) \/ MaybeRebind(t) \/ Queue(t)
           \/ Recheck(t) \/ TryRead(t) \/ Connect(t)
  <2>1. /\ UNCHANGED <<state, waker, waits, notified>>
        /\ pc[t] \notin {"wake_recv", "wake_send"}
        /\ \E l \in Locations \ {"retry", "pending"} : pc' = [pc EXCEPT ![t] = l]
    BY <1>1 DEF Begin, WriteLock, MaybeRebind, Queue, Recheck, TryRead,
       ReadGuard, Connect, Locations
  <2> QED
    BY <2>1
<1>2. CASE Rebind(t) \/ Close(t)
  <2>1. UNCHANGED <<waker, notified>>
    BY <1>2 DEF Rebind, Close
  <2>2. RegisteredOK'
    BY <1>2, <2>1 DEF Rebind, Close
  <2>3. state' = "Connected" => pc' = [pc EXCEPT ![t] = "wake_recv"]
    BY <1>2 DEF Rebind, Close
  <2>4. ReplacedSocketWakes'
    BY <2>1, <2>2, <2>3
  <2> QED
    BY <2>2, <2>4
<1>3. CASE WakeAll(t)
  <2>1. PICK d \in Dirs :
           /\ waker' = [waker EXCEPT ![d] = None]
           /\ notified' = notified \cup ({waker[d]} \ {None})
           /\ \/ d = "recv" /\ pc[t] = "wake_recv"
                 /\ pc' = [pc EXCEPT ![t] = "wake_send"]
              \/ /\ d = "send" /\ pc[t] = "wake_send"
                 /\ pc' = [pc EXCEPT ![t] = IF Kind[t] \in CallKinds
                                             THEN "idle" ELSE "read"]
           /\ UNCHANGED <<state, waits>>
    BY <1>3 DEF WakeAll, Wake, Dirs
  <2>2. \A u \in Tasks : waker[Dir(u)] = u =>
             u \in notified' \/ waker'[Dir(u)] = u
    BY <2>1, KindAssumption DEF Dir, Dirs
  <2>3. RegisteredOK'
    BY <2>1, <2>2
  <2>4. ReplacedSocketWakes'
    <3> SUFFICES ASSUME NEW u \in Tasks, pc'[u] = "pending",
                        waits'[u] = "gone", state' = "Connected",
                        u \notin notified'
                 PROVE  waker'[Dir(u)] = u /\ AboutToWake(Dir(u))'
      OBVIOUS
    <3>1. /\ pc[u] = "pending" /\ waits[u] = "gone" /\ state = "Connected"
          /\ u \notin notified
      BY <2>1
    <3>2. waker[Dir(u)] = u /\ AboutToWake(Dir(u)) /\ waker'[Dir(u)] = u
      BY <2>2, <3>1
    <3>3. Dir(u) # d /\ Dir(u) \in Dirs
      BY <2>1, <3>2, KindAssumption DEF Dir, Dirs
    <3>4. PICK v \in Tasks : \/ pc[v] = "wake_recv"
                             \/ Dir(u) = "send" /\ pc[v] = "wake_send"
      BY <3>2
    <3>5. CASE v # t
      BY <2>1, <3>2, <3>4, <3>5
    <3>6. CASE v = t
      BY <2>1, <3>2, <3>3, <3>4, <3>6 DEF Dirs
    <3> QED
      BY <3>5, <3>6
  <2> QED
    BY <2>3, <2>4
<1>4. CASE Register(t) \/ Park(t)
  <2>1. /\ pc[t] \in {"register", "park"} /\ UNCHANGED <<state, notified>>
        /\ waker' = [waker EXCEPT ![Dir(t)] = t]
        /\ waits' = waits \/ waits' = [waits EXCEPT ![t] = "ready"]
        /\ \E l \in {"retry", "pending"} : pc' = [pc EXCEPT ![t] = l]
        /\ pc'[t] = "pending" => waits'[t] = "ready"
    BY <1>4 DEF Register, Park
  <2>2. \A u \in Tasks \ {t} : pc[u] \in {"retry", "pending"} => Dir(u) # Dir(t)
    BY <2>1, SoleWaiter
  <2>3. Dir(t) \in Dirs
    BY DEF Dir, Dirs
  <2>4. \A u \in Tasks \ {t} : Dir(u) # Dir(t) => waker'[Dir(u)] = waker[Dir(u)]
    BY <2>1 DEF Dir, Dirs
  <2>5. waker'[Dir(t)] = t
    BY <2>1, <2>3
  <2>6. \A u \in Tasks \ {t} : pc'[u] = pc[u] /\ waits'[u] = waits[u]
    BY <2>1
  <2>7. RegisteredOK'
    BY <2>1, <2>2, <2>4, <2>5, <2>6
  <2>8. ReplacedSocketWakes'
    BY <2>1, <2>2, <2>4, <2>5, <2>6
  <2> QED
    BY <2>7, <2>8
<1>5. CASE Retry(t)
  <2>1. /\ pc[t] = "retry" /\ UNCHANGED <<state, notified>>
        /\ \/ /\ waker' = [waker EXCEPT ![Dir(t)] = None] /\ waits' = waits
              /\ \E l \in {"check", "io"} : pc' = [pc EXCEPT ![t] = l]
           \/ /\ waker' = waker /\ waits' = [waits EXCEPT ![t] = "lock"]
              /\ pc' = [pc EXCEPT ![t] = "pending"]
    BY <1>5 DEF Retry, ReadGuard
  <2>2. \A u \in Tasks \ {t} : pc[u] \in {"retry", "pending"} => Dir(u) # Dir(t)
    BY <2>1, SoleWaiter
  <2>3. \A u \in Tasks \ {t} : Dir(u) # Dir(t) => waker'[Dir(u)] = waker[Dir(u)]
    BY <2>1 DEF Dir, Dirs
  <2>4. \A u \in Tasks \ {t} : pc'[u] = pc[u] /\ waits'[u] = waits[u]
    BY <2>1
  <2>5. pc'[t] = "pending" => waker' = waker /\ waits'[t] = "lock"
    BY <2>1
  <2>6. RegisteredOK'
    BY <2>1, <2>2, <2>3, <2>4, <2>5
  <2>7. ReplacedSocketWakes'
    BY <2>1, <2>2, <2>3, <2>4, <2>5
  <2> QED
    BY <2>6, <2>7
<1>6. CASE PollReady(t) \/ Operate(t)
  <2>1. /\ UNCHANGED <<state, waker, waits, notified>>
        /\ pc[t] \notin {"wake_recv", "wake_send"}
        /\ \E l \in {"idle", "op", "park", "check"} : pc' = [pc EXCEPT ![t] = l]
    BY <1>6 DEF PollReady, Operate
  <2> QED
    BY <2>1
<1>7. CASE Repoll(t) \/ Cancel(t)
  <2>1. /\ UNCHANGED <<state, waker>> /\ pc[t] = "pending"
        /\ waits' = [waits EXCEPT ![t] = "nothing"]
        /\ notified \ {t} \subseteq notified'
        /\ \E l \in {"check", "idle"} : pc' = [pc EXCEPT ![t] = l]
    BY <1>7 DEF Repoll, Cancel
  <2> QED
    BY <2>1
<1> QED
  BY <1>1, <1>2, <1>3, <1>4, <1>5, <1>6, <1>7, Zenon DEF Step
LEMMA WakeNext ==
    ASSUME OneWaiterPerDirection
    PROVE  IInv /\ WakeInv /\ [Next]_vars => WakeInv'
<1> SUFFICES ASSUME IInv, WakeInv, [Next]_vars PROVE WakeInv'
  OBVIOUS
<1>1. TypeOK'
  BY NextInv DEF IInv
<1>2. CASE \E t \in Tasks : Begin(t) \/ WriteLock(t) \/ Step(t) \/ Cancel(t)
  BY <1>1, <1>2, KindsStep, WakeStep DEF WakeInv
<1>3. CASE (\E d \in Dirs : BecomesReady(d)) \/ Dies \/ UNCHANGED vars
  <2>1. UNCHANGED <<pc, waker, waits, state>> /\ notified \subseteq notified'
    BY <1>3 DEF BecomesReady, Dies, vars, sockVars
  <2> QED
    BY <1>1, <2>1 DEF WakeInv, KindsOK, RegisteredOK, ReplacedSocketWakes,
       AboutToWake, At
<1> QED
  BY <1>2, <1>3 DEF Next

\* With one waiting task per direction, a rebind leaves no task behind: each
\* one parked on an old socket has been woken, or is registered with wake_all
\* still to come.
THEOREM RebindWakesParked ==
    ASSUME OneWaiterPerDirection
    PROVE  Spec => []ReplacedSocketWakes
<1>1. Init => IInv /\ WakeInv
  <2> SUFFICES ASSUME Init PROVE IInv /\ WakeInv
    OBVIOUS
  <2>1. IInv
    BY InitInv
  <2>2. KindsOK /\ RegisteredOK /\ ReplacedSocketWakes
    BY DEF Init, KindsOK, RegisteredOK, ReplacedSocketWakes, At
  <2> QED
    BY <2>1, <2>2 DEF IInv, WakeInv
<1>2. IInv /\ WakeInv /\ [Next]_vars => (IInv /\ WakeInv)'
  BY NextInv, WakeNext
<1>3. IInv /\ WakeInv => ReplacedSocketWakes
  BY DEF WakeInv
<1> QED
  BY <1>1, <1>2, <1>3, PTL DEF Spec
=============================================================================
