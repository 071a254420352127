------------------------------ MODULE RouteTable ------------------------------
(***************************************************************************)
(* Which service a path means: the lookups of internal/config/registry.go, *)
(* the route cookies of internal/auth/auth.go, and the path tests of       *)
(* internal/server/server.go.  Pure operators, on                          *)
(*                                                                         *)
(*   conf   per user, the services and the default service (a snapshot of  *)
(*          the registry)                                                  *)
(*   jar    the cookies a request carries                                  *)
(*                                                                         *)
(* A path is what strings.Split(path[1:], "/") returns: "/" is <<"">>,     *)
(* "/a/b" is <<"a", "b">>, "/a/b/" is <<"a", "b", "">>.  So "path is p or  *)
(* begins with p/" is IsPrefix.                                            *)
(***************************************************************************)
EXTENDS Integers, FiniteSets, SequencesExt

CONSTANTS
    Users,       \* accounts
    Services,    \* services an account may have
    Files,       \* segments that have an extension
    AssetRoots,  \* first segments of assets and API calls: "api", "static", ...
    None

Path == Seq(STRING)
SomePath == Path \ {<<>>}
Root == <<"">>

(* `id`, `path`, `root` (root_absolute), `websocket`, `hosts` and          *)
(* `backend` (backend_path, <<>> when there is none) are the configured    *)
(* ones.  `guarded`: it has an auth_bootstrap and its backend wants a      *)
(* cookie; `cookie` is the Path the backend gives that cookie.  `slash`:   *)
(* the backend redirects a path without a final slash to one with it.      *)
ASSUME ServicesAssumption ==
    /\ Users \subseteq STRING
    /\ "" \notin Users /\ "" \notin Files
    /\ \A s \in Services :
         /\ s.path \in SomePath /\ s.backend \in Path /\ s.cookie \in SomePath
         /\ {s.root, s.websocket, s.guarded, s.slash} \subseteq BOOLEAN
    /\ None \notin Services /\ None \notin Users /\ None \notin Path

(* Segments that every path may have: the proof backends know of no string *)
(* literal that it is a string.                                            *)
ASSUME SegmentsAssumption == {"", "proxy", "login"} \subseteq STRING

Account == [services : SUBSET Services, default : {s.id : s \in Services} \cup {None}]

(* A service found for a path: `rest` is what is left of it, and `legacy`  *)
(* says that the path named no user.                                       *)
Match == [user : Users, service : Services, rest : Path, legacy : BOOLEAN]

-----------------------------------------------------------------------------
(* strings.TrimRight(p, "/").                                              *)
Trim(p) == IF p # <<>> /\ Last(p) = "" THEN Front(p) ELSE p

(* Orders the paths that are prefixes of one path by their length as text. *)
Weight(p) == 2 * Len(Trim(p)) + (IF Trim(p) = p THEN 1 ELSE 0)

(* The match whose service has the longest path.                           *)
Longest(matches) ==
    LET longest == {m \in matches : \A n \in matches : Weight(n.service.path) <= Weight(m.service.path)}
    IN  IF longest = {} THEN None ELSE CHOOSE m \in longest : TRUE

Rest(prefix, p) == IF Len(prefix) = Len(p) THEN Root ELSE SubSeq(p, Len(prefix) + 1, Len(p))

UsernameFromProxyPath(p) ==
    IF Len(p) >= 3 /\ p[1] = "proxy" /\ p[2] # "" THEN p[2] ELSE None

(* /proxy/{user}/{service}/...; a service at "/" has every path.           *)
FindService(conf, p) ==
    LET user == UsernameFromProxyPath(p)
        inside == SubSeq(p, 3, Len(p))
    IN  IF user \notin Users THEN None
        ELSE Longest(
               {[user |-> user, service |-> s, legacy |-> FALSE,
                 rest |-> IF s.path = Root THEN inside ELSE Rest(s.path, inside)] :
                  s \in {x \in conf[user].services : x.path = Root \/ IsPrefix(x.path, inside)}})

(* /proxy/{service}/... of the user.                                       *)
FindLegacyService(conf, p, user) ==
    Longest(
      {[user |-> user, service |-> s, legacy |-> TRUE, rest |-> Rest(<<"proxy">> \o s.path, p)] :
         s \in {x \in conf[user].services : IsPrefix(<<"proxy">> \o x.path, p)}})

(* a, or b when a is None: the next handler or lookup in line.             *)
a ?? b == IF a = None THEN b ELSE a

FindServiceForUser(conf, p, user) == FindService(conf, p) ?? FindLegacyService(conf, p, user)

(* Mutant: only the user in the path counts, whoever asks.                 *)
matchRouteForUser_AnyUser(conf, route, user) == FindServiceForUser(conf, route, user)

(* The user's service that a route cookie or a Referer names.              *)
matchRouteForUser(conf, route, user) ==
    IF UsernameFromProxyPath(route) \in {None, user} THEN FindServiceForUser(conf, route, user)
    ELSE None

(* The service whose own path begins a bare path.                          *)
bestBareService(conf, user, p) ==
    Longest({[user |-> user, service |-> s, legacy |-> FALSE, rest |-> Rest(s.path, p)] :
               s \in {x \in conf[user].services : IsPrefix(x.path, p)}})

ServiceByID(conf, user, id) ==
    IF \E s \in conf[user].services : s.id = id
    THEN CHOOSE s \in conf[user].services : s.id = id
    ELSE None

(* The one service that claims the host.                                   *)
FindByHost(conf, host) ==
    LET claims == {m \in UNION {{[user |-> u, service |-> s] : s \in conf[u].services} : u \in Users} :
                     host \in m.service.hosts}
    IN  IF Cardinality(claims) = 1 THEN CHOOSE m \in claims : TRUE ELSE None

(* A page of the gateway root, not an asset or an API call.                *)
barePathIsPage(p) ==
    /\ \A i \in 1..Len(p) : p[i] \notin Files
    /\ ~(Len(p) > 1 /\ p[1] \in AssetRoots)

-----------------------------------------------------------------------------
(* A route cookie's value, and the prefix of the service's pages.          *)
Prefix(m) ==
    IF m.legacy THEN <<"proxy">> \o m.service.path ELSE <<"proxy", m.user>> \o m.service.path

bestRouteForPath(routes, p) ==
    LET fitting == {r \in routes : p # None /\ IsPrefix(Trim(r), p)}
    IN  IF fitting = {} THEN None
        ELSE CHOOSE r \in fitting : \A q \in fitting : Weight(q) <= Weight(r)

(* By the path, by the page, the only one there is, or the last one set.   *)
GetRouteCookieForRequest(jar, p, referer) ==
    LET routes == jar.routes \cup ({jar.recent} \ {None}) IN
    IF p = Root \/ routes = {} THEN None
    ELSE bestRouteForPath(routes, p)
      ?? bestRouteForPath(routes, referer)
      ?? (IF Cardinality(routes) = 1 THEN CHOOSE r \in routes : TRUE ELSE jar.recent)
===============================================================================
