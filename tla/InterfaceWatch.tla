--------------------------- MODULE InterfaceWatch ---------------------------
(***************************************************************************)
(* What netwatch's Monitor promises to whoever watches interface_state():  *)
(* a watched value is put together from what the system was at moments     *)
(* after the previous value was published, and a new value is published    *)
(* only when it differs from the previous one or tells of an unsuspend.    *)
(***************************************************************************)
EXTENDS Naturals

CONSTANTS
    Networks,        \* what the system can be
    NoState,         \* nothing published yet
    Mix(_, _),       \* interfaces of the first, default route of the second
    Same(_, _)       \* equal in all that State's equality compares

VARIABLES
    actual,          \* the system now
    published,       \* what a watcher sees
    unsuspend,       \* its last_unsuspend, 0 for None
    window           \* what the system has been since the last publication

vars == <<actual, published, unsuspend, window>>

Init ==
    /\ actual \in Networks
    /\ published = NoState
    /\ unsuspend = 0
    /\ window = {actual}

Change ==
    /\ actual' \in Networks
    /\ window' = window \cup {actual'}
    /\ UNCHANGED <<published, unsuspend>>

Publish ==
    /\ \E a, b \in window : published' = Mix(a, b)
    /\ unsuspend' \in Nat
    /\ \/ published = NoState
       \/ unsuspend' > 0
       \/ ~ Same(published, published')
       \/ unsuspend # unsuspend'
    /\ window' = {actual}
    /\ UNCHANGED actual

Next == Change \/ Publish

Spec == Init /\ [][Next]_vars
=============================================================================
