----------------------------- MODULE MCConfigLock -----------------------------
(***************************************************************************)
(* Two processes of one host (the gateway gw and a command-line edit cli)  *)
(* and a third one, on another host that mounts the same directory or on   *)
(* the same one (a second command line).                                   *)
(***************************************************************************)
EXTENDS ConfigLock

CONSTANTS gw, cli, third, g1, g2, c1, o1, near, far

MCThreads == {g1, g2, c1, o1}
(* Liveness: without the third process.                                    *)
NearThreads == {g1, g2, c1}
MCProcs == {gw, cli, third}
MCProcOf == [t \in Threads |-> CASE t \in {g1, g2} -> gw [] t = c1 -> cli [] OTHER -> third]

OneHost == [p \in Procs |-> near]
MCHostOf == [p \in Procs |-> IF p = third THEN far ELSE near]
MCKind == [t \in Threads |-> IF t = g1 THEN "services" ELSE "auth"]
===============================================================================
