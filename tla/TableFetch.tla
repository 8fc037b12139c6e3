----------------------------- MODULE TableFetch -----------------------------
(***************************************************************************)
(* How fetch_rib gets the routing information base from the kernel of BSD  *)
(* and macOS: sysctl is asked for the size, then for the bytes, and the    *)
(* table may change in between.                                            *)
(***************************************************************************)
EXTENDS Naturals, Sequences, FiniteSetsExt, Computation

MAX_TRIES == 3

\* Mutant: the buffer keeps the size that was asked for.
fetch_rib_untruncated(tables, failing) ==
    LET fits == {k \in 1..MAX_TRIES : Len(tables[2 * k]) <= Len(tables[2 * k - 1])}
        k == Min(fits)
    IN IF fits = {} THEN Err("Sysctl")
       ELSE Ok(tables[2 * k] \o
               [j \in 1..(Len(tables[2 * k - 1]) - Len(tables[2 * k])) |-> 0])

\* tables holds what the table is at each call of sysctl, failing the calls that
\* fail by themselves.  A round that fails with ENOMEM, since the table has
\* outgrown the buffer, is followed by the next one.
fetch_rib(tables, failing) ==
    LET again == {k \in 1..MAX_TRIES :
                    /\ {2 * k - 1, 2 * k} \cap failing = {}
                    /\ tables[2 * k - 1] # <<>>
                    /\ Len(tables[2 * k]) > Len(tables[2 * k - 1])}
        last == (1..MAX_TRIES) \ again
        k == Min(last)
    IN IF last = {} \/ 2 * k - 1 \in failing THEN Err("Sysctl")
       ELSE IF tables[2 * k - 1] = <<>> THEN Ok(<<>>)
       ELSE IF 2 * k \in failing THEN Err("Sysctl") ELSE Ok(tables[2 * k])

-----------------------------------------------------------------------------
(* The fetch at work, for any tables and any calls that fail.              *)

CONSTANT KernelTables      \* what the table may be, in bytes

FetchInit ==
    \E tables \in [1..(2 * MAX_TRIES) -> KernelTables] :
        \E failing \in SUBSET DOMAIN tables :
            input = [kind |-> "fetch", tables |-> tables, failing |-> failing]

Fetch == Compute("fetch", [fetched |-> fetch_rib(input.tables, input.failing)])

FetchSpec == FetchInit /\ output = Pending /\ [][Fetch]_vars

\* fetch_rib returns the table as it was at one of the calls, or nothing, though
\* it changes between the calls; it gives up only when sysctl itself fails or the
\* table outgrew the buffer in every round.
FetchedTableIsOne ==
    Done("fetch") =>
        /\ output.fetched.r = "ok" =>
              \E k \in DOMAIN input.tables : output.fetched.v = input.tables[k]
        /\ output.fetched.r = "err" =>
              \/ input.failing # {}
              \/ \A k \in 1..MAX_TRIES : Len(input.tables[2 * k]) > Len(input.tables[2 * k - 1])
=============================================================================
