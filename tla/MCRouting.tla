------------------------------- MODULE MCRouting -------------------------------
(***************************************************************************)
(* Routing for TLC: two users, four services, a virtual host, two tabs.    *)
(* Each scenario has a configuration and a few things to ask for, which    *)
(* the browser does as often as it likes and in any order.                 *)
(***************************************************************************)
EXTENDS Routing

CONSTANTS t1, t2

(* A notebook server, whose start token must be passed on.                 *)
lab == [id |-> "lab", path |-> <<"lab">>, root |-> FALSE, websocket |-> TRUE, hosts |-> {},
        backend |-> <<"app">>, guarded |-> TRUE, cookie |-> Root, slash |-> FALSE]
(* Documentation below it, full of absolute links.                         *)
doc == [id |-> "doc", path |-> <<"lab", "doc">>, root |-> TRUE, websocket |-> FALSE, hosts |-> {},
        backend |-> <<>>, guarded |-> FALSE, cookie |-> Root, slash |-> TRUE]
(* An application with a host of its own, the default service.             *)
spa == [id |-> "spa", path |-> <<"spa">>, root |-> FALSE, websocket |-> FALSE, hosts |-> {"v"},
        backend |-> <<"s", "index.html">>, guarded |-> TRUE, cookie |-> Root, slash |-> FALSE]
(* A site that has all of its user's other paths.                          *)
top == [doc EXCEPT !.id = "top", !.path = Root, !.root = FALSE]

MCServices == {lab, doc, spa, top}
MCFiles == {"index.html", "x.js"}
MCAssetRoots == {"api", "static"}

Conf(a, da, b) ==
    [u \in Users |-> IF u = "ann" THEN [services |-> a, default |-> da]
                     ELSE [services |-> b, default |-> None]]

Typed(path) == [path |-> path, query |-> "", kind |-> "page", from |-> Gateway, login |-> None]
Of(kind, path) == [path |-> path, query |-> "", kind |-> kind, from |-> "page", login |-> None]
Link(path) == [Of("page", path) EXCEPT !.from = "base"]
Login(user) == [Of("form", <<"login">>) EXCEPT !.login = user]
Logout == Of("form", <<"logout">>)
Asks(first, second) == [t \in Tabs |-> IF t = t1 THEN first ELSE second]

annLab == <<"proxy", "ann", "lab", "">>
annDoc == <<"proxy", "ann", "lab", "doc", "">>
annSpa == <<"proxy", "ann", "spa", "x">>
bobLab == <<"proxy", "bob", "lab", "">>
home == <<"home">>
script == <<"static", "x.js">>
call == <<"api", "x">>

Scenario(user, accounts, reloads, first, second) ==
    [session |-> user, conf |-> accounts, later |-> reloads, asks |-> Asks(first, second)]

MCScenarios == {
    \* a page stays open while the other tab logs out, in again, and goes elsewhere
    Scenario("ann", Conf({lab, doc}, None, {lab}), {},
             {Typed(annLab), Of("fetch", script)},
             {Typed(annDoc), Logout, Login("ann")}),
    \* and in again as somebody else
    Scenario("ann", Conf({lab}, None, {lab}), {},
             {Typed(annLab), Of("fetch", call)},
             {Typed(bobLab), Logout, Login("bob")}),
    \* pages at the root, with a default service
    Scenario("ann", Conf({lab, doc, spa}, "spa", {}), {},
             {Typed(home), Of("fetch", script), Link(<<"x">>)},
             {Typed(annDoc), Of("page", home)}),
    \* the dashboard's icons, and a socket
    Scenario("ann", Conf({lab, spa}, "spa", {}), {},
             {Of("image", annSpa), Of("upgrade", call), Typed(home)},
             {Typed(annLab)}),
    \* a virtual host, from login to login
    Scenario(None, Conf({spa}, None, {}), {Conf({spa, doc}, "spa", {})},
             {[Typed(Root) EXCEPT !.from = "v"], Login("ann"), Of("post", call)},
             {[Typed(home) EXCEPT !.from = "v"], Login("bob")}),
    \* a bare service path, and a backend's login form
    Scenario("ann", Conf({lab, doc}, None, {}), {},
             {Typed(<<"lab", "x">>), Of("form", <<"login">>), Of("page", <<"login">>)},
             {Of("post", <<"lab", "doc", "y">>), Typed(annDoc)}),
    \* ways out of the prefix
    Scenario("ann", Conf({lab, doc}, None, {}), {},
             {Typed(annLab), [Of("page", Root) EXCEPT !.query = "q"]},
             {Typed(<<"lab", "", "doc">>), Of("form", home), Of("image", <<"favicon.ico">>)}),
    \* pages without a user in their path, and services that come and go
    Scenario("ann", Conf({lab}, None, {}), {Conf({lab, doc}, "lab", {})},
             {Typed(<<"proxy", "lab", "">>), Of("fetch", script)},
             {Of("page", Root), Typed(annDoc)}),
    \* not logged in
    Scenario(None, Conf({lab}, "lab", {}), {},
             {Typed(annLab), Login(None), Login("ann")},
             {Typed(home), Typed(<<"logout">>)}),
    Scenario(None, Conf({lab}, "lab", {}), {},
             {Login("ann"), Typed(<<"proxy", "lab">>)},
             {Typed(script), Of("page", call)}),
    \* a service at the root of its user's paths, and a page that looks like another's
    Scenario("ann", Conf({doc, top}, None, {}), {},
             {Typed(<<"proxy", "ann", "x">>), Of("fetch", script)},
             {Typed(<<"proxy", "ann", "lab", "doc", "proxy", "x">>), Of("page", home), Typed(<<"proxy">>)}),
    \* the gateway's own pages, and a backend's script that logs out
    Scenario("ann", Conf({lab}, "lab", {}), {},
             {Typed(annLab), Of("post", <<"logout">>)},
             {Typed(<<"2fa", "disable">>), Typed(<<"login", "2fa">>)})}
===============================================================================
