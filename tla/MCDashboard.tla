------------------------------ MODULE MCDashboard ------------------------------
(***************************************************************************)
(* Two accounts, one host name, one service each at most.  Each scenario   *)
(* has two requests and one thing that gets in their way: each other, a    *)
(* command or an edit by hand, a read that fails, an old snapshot.         *)
(***************************************************************************)
EXTENDS Dashboard, TLC

CONSTANTS lab, web, r1, r2

ask(kind, user, id, host) == [kind |-> kind, user |-> user, id |-> id, host |-> host]

svc(names) == [id |-> web, hosts |-> names]

scenario(first, second, ask1, ask2, nCommands, nFaults, nLapses) ==
    [start |-> <<first, second>>, asks |-> (r1 :> ask1) @@ (r2 :> ask2),
     commands |-> nCommands, faults |-> nFaults, lapses |-> nLapses]

SmallScenarios == {
    \* two accounts want one host name
    scenario({}, {svc({})}, ask("add", 1, None, lab), ask("update", 2, web, lab), 0, 0, 0),
    \* an account that is not there yet
    scenario({svc({lab})}, None, ask("list", 2, None, None), ask("layout", 2, None, None), 1, 0, 0),
    \* a command or an operator interferes
    scenario({svc({lab})}, {svc({})}, ask("list", 2, None, None), ask("update", 2, web, lab), 1, 0, 0),
    scenario({svc({lab})}, {svc({})}, ask("delete", 1, web, None), ask("list", 2, None, None), 1, 0, 0),
    \* a read fails, the snapshot is out of date
    scenario({svc({lab})}, {svc({})}, ask("list", 1, None, None), ask("update", 2, web, lab), 0, 1, 0),
    scenario({svc({lab})}, {svc({})}, ask("list", 2, None, None), ask("update", 2, web, lab), 0, 0, 1)}
===============================================================================
