------------------------------ MODULE MCNetMon ------------------------------
(* The monitor of every platform on a system with one interface. *)
EXTENDS NetMon
=============================================================================
