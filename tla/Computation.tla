---------------------------- MODULE Computation ----------------------------
(***************************************************************************)
(* A function of the code at work: a behaviour takes one input and         *)
(* computes the output for it.  An input says by its kind which function   *)
(* it is for.                                                              *)
(*                                                                         *)
(* A function that returns a Result gives Ok(v), Err(e), or Panic where an *)
(* expect or an index fails.                                               *)
(***************************************************************************)
EXTENDS Naturals

Byte == 0..255

Ok(v) == [r |-> "ok", v |-> v]
Err(e) == [r |-> "err", v |-> e]
Panic == [r |-> "panic", v |-> "panic"]

VARIABLES input, output
vars == <<input, output>>

Pending == [done |-> FALSE]
Done(kind) == input.kind = kind /\ output # Pending
Compute(kind, value) ==
    /\ input.kind = kind /\ output = Pending
    /\ output' = value /\ UNCHANGED input
=============================================================================
