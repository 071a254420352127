------------------------------ MODULE MCSessions ------------------------------
(***************************************************************************)
(* Two overlapping requests, two passwords, a session of two ticks that is *)
(* renewed in its last one.  The requests are interchangeable.             *)
(***************************************************************************)
EXTENDS Sessions, TLC

Interchangeable == Permutations(Requests)
===============================================================================
