----------------------------- MODULE Routing_proofs -----------------------------
(***************************************************************************)
(* Proofs about Routing, for any users, services, hosts, tabs, scenarios.  *)
(*                                                                         *)
(* Every handler either passes a request on, or forwards it to a service   *)
(* of the user of its session, or has no backend in it: AnswerFacts says   *)
(* so of all of them, and that what they answer is typed.  The type        *)
(* invariant TypeInv adds to TypeOK that an answered request has its       *)
(* answer; the action properties follow from it and from a walk through    *)
(* the handlers for bare paths.  LogoutForgets needs one more invariant,   *)
(* about what is under way: as long as no route cookie comes, a logout's   *)
(* request and then its answer cover all the route cookies there are.      *)
(***************************************************************************)
EXTENDS Routing, ReverseProxy_proofs

(* A request and the cookies that came with it, with a typed registry.     *)
Asking(r, k) == conf \in Lookup /\ r \in Request /\ k \in Cookies

(* The match is a current service of the user's.                           *)
Own(m, user) == m \in Found /\ m.user = user /\ m.service \in conf[user].services

NextURL == {None} \cup URL

(* An outcome other than a logout.                                         *)
Proper(o, user) ==
    \/ o.is = "forward" /\ Own(o.match, user)
    \/ o.is = "redirect" /\ o.url \in URL /\ o.next \in NextURL
    \/ o.is = "page" /\ o.form \in BOOLEAN /\ o.next \in NextURL
    \/ o.is = "login" /\ o.url \in URL /\ o.user \in Users

-----------------------------------------------------------------------------
(* The lookups.                                                            *)

LEMMA LongestIsOne ==
    ASSUME NEW S PROVE Longest(S) = None \/ Longest(S) \in S
BY DEF Longest

LEMMA FindServiceOwn ==
    ASSUME conf \in Lookup, NEW p \in Path, FindService(conf, p) # None
    PROVE  /\ UsernameFromProxyPath(p) \in Users
           /\ Own(FindService(conf, p), UsernameFromProxyPath(p))
<1> DEFINE user == UsernameFromProxyPath(p)
           inside == SubSeq(p, 3, Len(p))
           S == {[user |-> user, service |-> s, legacy |-> FALSE,
                  rest |-> IF s.path = Root THEN inside ELSE Rest(s.path, inside)] :
                    s \in {x \in conf[user].services : x.path = Root \/ IsPrefix(x.path, inside)}}
<1>1. user \in Users /\ FindService(conf, p) = Longest(S)
  BY Zenon DEF FindService
<1>2. Longest(S) \in S
  <2> HIDE DEF S, user
  <2> QED BY <1>1, LongestIsOne
<1>3. \A m \in S : m.user = user /\ m.service \in conf[user].services
  <2> HIDE DEF user, inside
  <2> QED OBVIOUS
<1> HIDE DEF S, user
<1>4. Longest(S) \in Found
  BY <1>1, FindServiceFound
<1> QED BY <1>1, <1>2, <1>3, <1>4 DEF user, Own

LEMMA FindLegacyServiceOwn ==
    ASSUME conf \in Lookup, NEW p \in Path, NEW user \in Users, FindLegacyService(conf, p, user) # None
    PROVE  Own(FindLegacyService(conf, p, user), user)
<1> DEFINE S == {[user |-> user, service |-> s, legacy |-> TRUE, rest |-> Rest(<<"proxy">> \o s.path, p)] :
                   s \in {x \in conf[user].services : IsPrefix(<<"proxy">> \o x.path, p)}}
<1>1. FindLegacyService(conf, p, user) = Longest(S)
  BY Zenon DEF FindLegacyService
<1>2. Longest(S) \in S
  <2> HIDE DEF S
  <2> QED BY <1>1, LongestIsOne
<1>3. \A m \in S : m.user = user /\ m.service \in conf[user].services
  OBVIOUS
<1> HIDE DEF S
<1> QED BY <1>1, <1>2, <1>3, FindLegacyFound DEF Own

LEMMA BestBareServiceOwn ==
    ASSUME conf \in Lookup, NEW p \in Path, NEW user \in Users, bestBareService(conf, user, p) # None
    PROVE  Own(bestBareService(conf, user, p), user)
<1> DEFINE S == {[user |-> user, service |-> s, legacy |-> FALSE, rest |-> Rest(s.path, p)] :
                   s \in {x \in conf[user].services : IsPrefix(x.path, p)}}
<1>1. bestBareService(conf, user, p) = Longest(S)
  BY Zenon DEF bestBareService
<1>2. Longest(S) \in S
  <2> HIDE DEF S
  <2> QED BY <1>1, LongestIsOne
<1>3. \A m \in S : m.user = user /\ m.service \in conf[user].services
  OBVIOUS
<1> HIDE DEF S
<1> QED BY <1>1, <1>2, <1>3, BestBareFound DEF Own

LEMMA MatchRouteOwn ==
    ASSUME conf \in Lookup, NEW p \in Path, NEW user \in Users, matchRouteForUser(conf, p, user) # None
    PROVE  Own(matchRouteForUser(conf, p, user), user)
<1>1. /\ UsernameFromProxyPath(p) \in {None, user}
      /\ matchRouteForUser(conf, p, user) = FindService(conf, p) ?? FindLegacyService(conf, p, user)
  BY DEF matchRouteForUser, FindServiceForUser
<1>2. CASE FindService(conf, p) = None
  BY <1>1, <1>2, FindLegacyServiceOwn DEF ??
<1>3. CASE FindService(conf, p) # None
  <2>1. UsernameFromProxyPath(p) = user
    BY <1>1, <1>3, FindServiceOwn, ServicesAssumption
  <2> QED BY <1>1, <1>3, <2>1, FindServiceOwn DEF ??
<1> QED BY <1>2, <1>3

LEMMA FindByHostOwn ==
    ASSUME conf \in Lookup, NEW host, NEW path \in SomePath, FindByHost(conf, host) # None
    PROVE  LET h == FindByHost(conf, host)
           IN  Own([user |-> h.user, service |-> h.service, legacy |-> FALSE, rest |-> path], h.user)
<1> DEFINE claims == {m \in UNION {{[user |-> u, service |-> s] : s \in conf[u].services} : u \in Users} :
                        host \in m.service.hosts}
           h == FindByHost(conf, host)
<1>1. Cardinality(claims) = 1 /\ h = CHOOSE m \in claims : TRUE
  BY Zenon DEF FindByHost
<1>2. claims # {}
  <2> HIDE DEF claims
  <2> QED BY <1>1, FS_EmptySet
<1>3. h \in claims
  <2> HIDE DEF claims, h
  <2> QED BY <1>1, <1>2
<1>4. h.user \in Users /\ h.service \in conf[h.user].services
  <2> HIDE DEF h
  <2> QED BY <1>3
<1> HIDE DEF h
<1>5. h.service \in Services
  BY <1>4, AccountFacts
<1>6. [user |-> h.user, service |-> h.service, legacy |-> FALSE, rest |-> path] \in Found
  BY <1>4, <1>5, FoundMatch
<1> QED BY <1>4, <1>6 DEF Own, h

LEMMA ServiceByIDOwn ==
    ASSUME NEW user, NEW id, ServiceByID(conf, user, id) # None
    PROVE  ServiceByID(conf, user, id) \in conf[user].services
BY DEF ServiceByID

-----------------------------------------------------------------------------
(* Requests.                                                               *)

LEMMA RoutePaths == Routes \subseteq SomePath
<1>1. ASSUME NEW s \in Services PROVE <<"proxy">> \o s.path \in SomePath
  BY OneSegment, SegmentsAssumption, ServicePaths, ConcatPath DEF SomePath
<1>2. ASSUME NEW u \in Users, NEW s \in Services PROVE <<"proxy", u>> \o s.path \in SomePath
  BY TwoSegments, SegmentsAssumption, ServicesAssumption, ServicePaths, ConcatPath DEF SomePath
<1>3. ASSUME NEW s \in Services
      PROVE  {<<"proxy">> \o s.path} \cup {<<"proxy", u>> \o s.path : u \in Users} \subseteq SomePath
  <2> HIDE DEF SomePath
  <2>1. {<<"proxy", u>> \o s.path : u \in Users} \subseteq SomePath
    BY <1>2
  <2> QED BY <1>1, <2>1
<1> DEFINE of(s) == {<<"proxy">> \o s.path} \cup {<<"proxy", u>> \o s.path : u \in Users}
<1>4. Routes = UNION {of(s) : s \in Services}
  BY Zenon DEF Routes
<1>5. \A s \in Services : of(s) \subseteq SomePath
  BY <1>3
<1> HIDE DEF of
<1> QED BY <1>4, <1>5

LEMMA RequestFacts ==
    ASSUME NEW r, NEW k, Asking(r, k)
    PROVE  /\ r.url \in URL /\ r.url.path \in SomePath /\ r.url.host \in Hosts
           /\ r.url.query \in {"", "q", "token"}
           /\ r.next \in NextURL /\ r.login \in {None} \cup Users
           /\ k.session # None => k.session \in Users
           /\ k.routes \subseteq Routes /\ k.recent \in {None} \cup Routes
           /\ refererPath(r) \in {None} \cup SomePath
           /\ Referer(r) \in {None} \cup SomePath
<1>1. /\ r.url \in URL /\ r.next \in NextURL /\ r.login \in {None} \cup Users
      /\ k.session # None => k.session \in Users
      /\ k.routes \subseteq Routes /\ k.recent \in {None} \cup Routes
      /\ r.referer # None => r.referer.url \in URL
  BY DEF Asking, Request, Cookies, Document, NextURL
<1>2. \A u \in URL : u.path \in SomePath /\ u.host \in Hosts /\ u.query \in {"", "q", "token"}
  BY DEF URL
<1>3. refererPath(r) \in {None} \cup SomePath
  BY <1>1, <1>2 DEF refererPath
<1>4. Referer(r) \in {None} \cup SomePath
  BY <1>3, RootPath DEF Referer, ??
<1> QED BY <1>1, <1>2, <1>3, <1>4

LEMMA AtURL ==
    ASSUME NEW r, NEW k, Asking(r, k), NEW path \in SomePath, NEW query \in {"", "q", "token"}
    PROVE  At(r, path, query) \in URL
BY RequestFacts DEF At, URL

LEMMA CookieRoute ==
    ASSUME NEW r, NEW k, Asking(r, k), NEW p \in {None} \cup Path, NEW page \in {None} \cup Path
    PROVE  GetRouteCookieForRequest(k, p, page) \in {None} \cup Routes
<1>1. k.routes \in SUBSET Path /\ k.recent \in {None} \cup Path
  BY RequestFacts, RoutePaths DEF SomePath
<1>2. GetRouteCookieForRequest(k, p, page) \in {None} \cup k.routes \cup {k.recent}
  BY <1>1, RouteCookieFound
<1> QED BY <1>2, RequestFacts

(* The route cookie that counts for a bare path, and its service.          *)
LEMMA CookieMatch ==
    ASSUME NEW r, NEW k, Asking(r, k), k.session # None, NEW page \in {None} \cup Path,
           GetRouteCookieForRequest(k, r.url.path, page) # None,
           matchRouteForUser(conf, GetRouteCookieForRequest(k, r.url.path, page), k.session) # None
    PROVE  Own(matchRouteForUser(conf, GetRouteCookieForRequest(k, r.url.path, page), k.session), k.session)
<1>1. GetRouteCookieForRequest(k, r.url.path, page) \in Routes
  BY RequestFacts, CookieRoute DEF SomePath
<1> QED BY <1>1, RoutePaths, RequestFacts, MatchRouteOwn DEF Asking, SomePath

-----------------------------------------------------------------------------
(* The handlers.                                                           *)

LEMMA FallThrough ==
    ASSUME NEW a, NEW b, NEW user, a # None => Proper(a, user), b # None => Proper(b, user)
    PROVE  a ?? b # None => Proper(a ?? b, user)
BY DEF ??

LEMMA PlainOutcomes ==
    ASSUME NEW user
    PROVE  /\ \A form \in BOOLEAN, next \in NextURL : Proper(Page(form, next), user)
           /\ Proper(NotFound, user)
           /\ \A url \in URL, next \in NextURL : Proper(Redirect(url, next), user)
BY DEF Proper, Page, NotFound, Redirect, NextURL

LEMMA LoginRedirectProper ==
    ASSUME NEW r, NEW k, Asking(r, k), NEW user PROVE Proper(LoginRedirect(r), user)
<1>1. <<"login">> \in SomePath
  BY OneSegment, SegmentsAssumption
<1>2. At(r, <<"login">>, "") \in URL
  BY <1>1, AtURL
<1>3. [r.url EXCEPT !.host = Gateway] \in URL
  BY RequestFacts, HostsAssumption DEF URL
<1> QED BY <1>2, <1>3, PlainOutcomes DEF LoginRedirect, NextURL

LEMMA ForwardProper ==
    ASSUME NEW m, NEW mode, NEW r, NEW user, Own(m, user)
    PROVE  Proper(Forward(m, mode, r), user)
BY PlainOutcomes DEF Forward, Proper, NextURL

LEMMA RefererProper ==
    ASSUME NEW r, NEW k, Asking(r, k), handleRefererProxy(r, k) # None
    PROVE  Proper(handleRefererProxy(r, k), k.session)
<1> DEFINE m == matchRouteForUser(conf, refererPath(r), k.session)
<1>1. /\ k.session # None /\ refererPath(r) # None
      /\ m # None /\ handleRefererProxy(r, k) = Forward(m, "asis", r)
  BY Zenon DEF handleRefererProxy
<1>2. Own(m, k.session)
  BY <1>1, RequestFacts, MatchRouteOwn DEF Asking, SomePath
<1> HIDE DEF m
<1> QED BY <1>1, <1>2, ForwardProper

LEMMA RouteCookieProper ==
    ASSUME NEW r, NEW k, Asking(r, k), handleRouteCookieProxy(r, k) # None
    PROVE  Proper(handleRouteCookieProxy(r, k), k.session)
<1> DEFINE route == GetRouteCookieForRequest(k, r.url.path, Referer(r))
           m == matchRouteForUser(conf, route, k.session)
<1>1. \/ handleRouteCookieProxy(r, k) = LoginRedirect(r)
      \/ /\ k.session # None /\ route # None
         /\ m # None /\ handleRouteCookieProxy(r, k) = Forward(m, "asis", r)
  BY Zenon DEF handleRouteCookieProxy
<1>2. CASE handleRouteCookieProxy(r, k) = LoginRedirect(r)
  BY <1>2, LoginRedirectProper
<1>3. CASE k.session # None /\ route # None /\ m # None /\ handleRouteCookieProxy(r, k) = Forward(m, "asis", r)
  <2>1. Own(m, k.session)
    BY <1>3, RequestFacts, CookieMatch DEF SomePath
  <2> HIDE DEF m
  <2> QED BY <1>3, <2>1, ForwardProper
<1> QED BY <1>1, <1>2, <1>3

LEMMA DefaultProper ==
    ASSUME NEW r, NEW k, Asking(r, k), forwardToDefaultService(r, k) # None
    PROVE  Proper(forwardToDefaultService(r, k), k.session)
<1> DEFINE s == ServiceByID(conf, k.session, conf[k.session].default)
           m == [user |-> k.session, service |-> s, legacy |-> FALSE, rest |-> r.url.path]
<1>1. k.session # None /\ s # None /\ forwardToDefaultService(r, k) = Forward(m, "asis", r)
  BY Zenon DEF forwardToDefaultService
<1>2. Own(m, k.session)
  <2> HIDE DEF s
  <2>1. s \in conf[k.session].services /\ k.session \in Users
    BY <1>1, ServiceByIDOwn, RequestFacts DEF s
  <2>2. m \in Found
    BY <2>1, AccountFacts, FoundMatch, RequestFacts DEF Asking
  <2> QED BY <2>1, <2>2 DEF Own
<1> HIDE DEF m
<1> QED BY <1>1, <1>2, ForwardProper

LEMMA DefaultPageProper ==
    ASSUME NEW r, NEW k, Asking(r, k), handleDefaultServicePage(r, k) # None
    PROVE  Proper(handleDefaultServicePage(r, k), k.session)
BY DefaultProper DEF handleDefaultServicePage

(* Only a service that has opted in is forwarded to as root_absolute.      *)
LEMMA RootAbsoluteForwards ==
    ASSUME NEW r, NEW k, Asking(r, k), k.session # None, handleRootAbsoluteService(r, k) # None
    PROVE  \E m : /\ Own(m, k.session) /\ m.service.root
                  /\ handleRootAbsoluteService(r, k) = Forward(m, "asis", r)
<1> DEFINE page == matchRootAbsoluteReferer(r, k)
           route == GetRouteCookieForRequest(k, r.url.path, Referer(r))
           named == matchRouteForUser(conf, route, k.session)
           m == IF page.match # None \/ page.canonical \/ route = None THEN page.match ELSE named
<1>1. m # None /\ m.service.root /\ handleRootAbsoluteService(r, k) = Forward(m, "asis", r)
  BY Zenon DEF handleRootAbsoluteService
<1>2. page.match # None => Own(page.match, k.session)
  <2> DEFINE f == FindServiceForUser(conf, refererPath(r), k.session)
  <2>1. page.match # None => page.match = f /\ refererPath(r) # None /\ f # None /\ f.user = k.session
    <3> HIDE DEF f
    <3> QED BY DEF matchRootAbsoluteReferer, f
  <2>2. refererPath(r) # None /\ f # None /\ f.user = k.session => Own(f, k.session)
    <3>1. refererPath(r) # None => refererPath(r) \in Path /\ k.session \in Users /\ conf \in Lookup
      BY RequestFacts DEF SomePath, Asking
    <3> QED BY <3>1, FindServiceOwn, FindLegacyServiceOwn DEF FindServiceForUser, ??, Own
  <2> HIDE DEF f, page
  <2> QED BY <2>1, <2>2
<1>3. route # None /\ named # None => Own(named, k.session)
  BY RequestFacts, CookieMatch DEF SomePath
<1>4. Own(m, k.session)
  <2> HIDE DEF page, route, named
  <2> QED BY <1>1, <1>2, <1>3
<1> HIDE DEF m
<1> QED BY <1>1, <1>4

LEMMA RootAbsoluteProper ==
    ASSUME NEW r, NEW k, Asking(r, k), k.session # None, handleRootAbsoluteService(r, k) # None
    PROVE  Proper(handleRootAbsoluteService(r, k), k.session)
BY RootAbsoluteForwards, ForwardProper

LEMMA BareServiceProper ==
    ASSUME NEW r, NEW k, Asking(r, k), k.session # None, BareService(r, k) # None
    PROVE  Proper(BareService(r, k), k.session)
<1> DEFINE m == bestBareService(conf, k.session, r.url.path)
           url == At(r, <<"proxy", k.session>> \o r.url.path, r.url.query)
<1>1. \/ m # None /\ BareService(r, k) = Forward(m, "prefix", r)
      \/ BareService(r, k) = Redirect(url, None)
  BY Zenon DEF BareService
<1>2. k.session \in Users /\ r.url.path \in Path
  BY RequestFacts DEF SomePath
<1>3. m # None => Own(m, k.session)
  BY <1>2, BestBareServiceOwn DEF Asking
<1>4. url \in URL
  <2>1. <<"proxy", k.session>> \in SomePath
    BY <1>2, TwoSegments, SegmentsAssumption, ServicesAssumption
  <2>2. <<"proxy", k.session>> \o r.url.path \in SomePath
    BY <1>2, <2>1, ConcatPath DEF SomePath
  <2> QED BY <2>2, RequestFacts, AtURL
<1> HIDE DEF m, url
<1> QED BY <1>1, <1>3, <1>4, ForwardProper, PlainOutcomes DEF NextURL

LEMMA ProxyProper ==
    ASSUME NEW r, NEW k, Asking(r, k) PROVE Proper(handleProxy(r, k), k.session)
<1> DEFINE m == FindService(conf, r.url.path)
           legacy == FindLegacyService(conf, r.url.path, k.session)
<1>1. \/ handleProxy(r, k) \in {LoginRedirect(r), NotFound}
      \/ m # None /\ m.user = k.session /\ handleProxy(r, k) = Forward(m, "prefix", r)
      \/ k.session # None /\ legacy # None /\ handleProxy(r, k) = Forward(legacy, "prefix", r)
  <2> HIDE DEF m, legacy
  <2> QED BY DEF handleProxy, m, legacy
<1>2. conf \in Lookup /\ r.url.path \in Path /\ (k.session # None => k.session \in Users)
  BY RequestFacts DEF SomePath, Asking
<1>3. m # None /\ m.user = k.session => Own(m, k.session)
  BY <1>2, FindServiceOwn DEF Own
<1>4. k.session # None /\ legacy # None => Own(legacy, k.session)
  BY <1>2, FindLegacyServiceOwn
<1> HIDE DEF m, legacy
<1> QED BY <1>1, <1>3, <1>4, ForwardProper, PlainOutcomes, LoginRedirectProper

LEMMA EscapeProper ==
    ASSUME NEW r, NEW k, Asking(r, k), handleProxyEscape(r, k) # None
    PROVE  Proper(handleProxyEscape(r, k), k.session)
<1> DEFINE route == GetRouteCookieForRequest(k, None, refererPath(r))
           url == At(r, Trim(route) \o Root, r.url.query)
<1>1. route # None /\ handleProxyEscape(r, k) = Redirect(url, None)
  BY Zenon DEF handleProxyEscape
<1>2. route \in Path
  BY <1>1, RequestFacts, CookieRoute, RoutePaths DEF SomePath
<1> HIDE DEF route
<1>3. Trim(route) \o Root \in SomePath
  BY <1>2, TrimPath, RootPath, ConcatPath DEF SomePath
<1>4. url \in URL
  BY <1>3, RequestFacts, AtURL
<1> HIDE DEF url
<1> QED BY <1>1, <1>4, PlainOutcomes DEF NextURL

LEMMA BackendLoginProper ==
    ASSUME NEW r, NEW k, Asking(r, k), handleBackendLogin(r, k) # None
    PROVE  Proper(handleBackendLogin(r, k), k.session)
<1> DEFINE m == findBackendService(r, k)
<1>1. k.session # None /\ m # None /\ handleBackendLogin(r, k) = Forward(m, "asis", r)
  BY Zenon DEF handleBackendLogin
<1>2. Own(m, k.session)
  <2> DEFINE page == IF refererPath(r) = None THEN None
                     ELSE matchRouteForUser(conf, refererPath(r), k.session)
             route == GetRouteCookieForRequest(k, r.url.path, refererPath(r))
             cookie == IF route = None THEN None ELSE matchRouteForUser(conf, route, k.session)
  <2>1. m = page ?? cookie
    BY Zenon DEF findBackendService
  <2>2. page # None => Own(page, k.session)
    BY <1>1, RequestFacts, MatchRouteOwn DEF SomePath, Asking
  <2>3. cookie # None => Own(cookie, k.session)
    BY <1>1, RequestFacts, CookieMatch DEF SomePath
  <2> HIDE DEF page, cookie, m
  <2> QED BY <1>1, <2>1, <2>2, <2>3 DEF ??
<1> HIDE DEF m
<1> QED BY <1>1, <1>2, ForwardProper

LEMMA LoginPageProper ==
    ASSUME NEW r, NEW k, Asking(r, k), NEW user PROVE Proper(handleLoginPage(r), user)
BY RequestFacts, PlainOutcomes DEF handleLoginPage, NextURL

LEMMA LoginProper ==
    ASSUME NEW r, NEW k, Asking(r, k), NEW user PROVE Proper(handleLogin(r), user)
<1> DEFINE url == IF ~validLoginNext(r.next, r.login) THEN At(r, Root, "")
                  ELSE IF r.next.host = Gateway THEN At(r, r.next.path, r.next.query) ELSE r.next
<1>1. handleLogin(r) = IF r.login = None THEN handleLoginPage(r)
                       ELSE [is |-> "login", user |-> r.login, url |-> url]
  BY Zenon DEF handleLogin
<1>2. url \in URL
  <2>1. At(r, Root, "") \in URL
    BY RootPath, AtURL
  <2>2. validLoginNext(r.next, r.login) => r.next \in URL
    BY RequestFacts DEF validLoginNext, NextURL
  <2>3. r.next \in URL => At(r, r.next.path, r.next.query) \in URL
    <3>1. \A u \in URL : u.path \in SomePath /\ u.query \in {"", "q", "token"}
      BY DEF URL
    <3> QED BY <3>1, AtURL
  <2> QED BY <2>1, <2>2, <2>3
<1> HIDE DEF url
<1>3. CASE r.login = None
  BY <1>1, <1>3, LoginPageProper
<1>4. CASE r.login # None
  <2>1. r.login \in Users
    BY <1>4, RequestFacts
  <2>2. /\ handleLogin(r).is = "login" /\ handleLogin(r).user = r.login
        /\ handleLogin(r).url = url
    BY <1>1, <1>4
  <2> QED BY <1>2, <2>1, <2>2 DEF Proper
<1> QED BY <1>3, <1>4

LEMMA VirtualHostProper ==
    ASSUME NEW r, NEW k, Asking(r, k), handleVirtualHost(r, k) # None
    PROVE  Proper(handleVirtualHost(r, k), k.session)
<1> DEFINE h == FindByHost(conf, r.url.host)
           m == [user |-> h.user, service |-> h.service, legacy |-> FALSE, rest |-> r.url.path]
           login == [host |-> Gateway, path |-> <<"login">>, query |-> ""]
<1>1. \/ handleVirtualHost(r, k) = Redirect(login, r.url)
      \/ handleVirtualHost(r, k) = NotFound
      \/ h # None /\ h.user = k.session /\ handleVirtualHost(r, k) = Forward(m, "vhost", r)
  <2> HIDE DEF h
  <2> QED BY Zenon DEF handleVirtualHost, h
<1>2. h # None /\ h.user = k.session => Own(m, k.session)
  BY RequestFacts, FindByHostOwn DEF Asking
<1>3. login \in URL
  BY HostsAssumption, OneSegment, SegmentsAssumption DEF URL
<1>4. r.url \in NextURL
  BY RequestFacts DEF NextURL
<1> HIDE DEF h, m, login
<1> QED BY <1>1, <1>2, <1>3, <1>4, ForwardProper, PlainOutcomes

LEMMA BareProper ==
    ASSUME NEW r, NEW k, Asking(r, k) PROVE Proper(HandleBare(r, k), k.session)
<1> DEFINE mine == IF k.session = None THEN None
                   ELSE BareService(r, k) ?? handleRootAbsoluteService(r, k)
           c1 == mine ?? handleDefaultServicePage(r, k)
           c2 == c1 ?? handleRefererProxy(r, k)
           c3 == c2 ?? handleRouteCookieProxy(r, k)
           c4 == c3 ?? forwardToDefaultService(r, k)
           c5 == c4 ?? NotFound
           Fine(o) == o # None => Proper(o, k.session)
<1>1. HandleBare(r, k) \in {LoginRedirect(r), c5}
  BY Zenon DEF HandleBare
<1>2. Fine(mine)
  <2>1. k.session # None => Fine(BareService(r, k) ?? handleRootAbsoluteService(r, k))
    BY BareServiceProper, RootAbsoluteProper, FallThrough
  <2> QED BY <2>1
<1> HIDE DEF mine
<1>3. Fine(c1) BY <1>2, DefaultPageProper, FallThrough
<1> HIDE DEF c1
<1>4. Fine(c2) BY <1>3, RefererProper, FallThrough
<1> HIDE DEF c2
<1>5. Fine(c3) BY <1>4, RouteCookieProper, FallThrough
<1> HIDE DEF c3
<1>6. Fine(c4) BY <1>5, DefaultProper, FallThrough
<1> HIDE DEF c4
<1>7. Proper(c5, k.session) BY <1>6, PlainOutcomes DEF ??
<1> QED BY <1>1, <1>7, LoginRedirectProper

LEMMA APIProper ==
    ASSUME NEW r, NEW k, Asking(r, k) PROVE Proper(HandleAPI(r, k), k.session)
<1> DEFINE c1 == handleRefererProxy(r, k) ?? handleRouteCookieProxy(r, k)
           c2 == c1 ?? forwardToDefaultService(r, k)
           Fine(o) == o # None => Proper(o, k.session)
<1>1. HandleAPI(r, k) = c2 ?? NotFound
  BY Zenon DEF HandleAPI
<1>2. Fine(c1) BY RefererProper, RouteCookieProper, FallThrough
<1> HIDE DEF c1
<1>3. Fine(c2) BY <1>2, DefaultProper, FallThrough
<1> HIDE DEF c2
<1> QED BY <1>1, <1>3, PlainOutcomes DEF ??

LEMMA LoginPathProper ==
    ASSUME NEW r, NEW k, Asking(r, k) PROVE Proper(HandleLogin(r, k), k.session)
<1> DEFINE post == handleBackendLogin(r, k) ?? handleLogin(r)
           c1 == handleRouteCookieProxy(r, k) ?? handleRefererProxy(r, k)
           get == c1 ?? handleLoginPage(r)
           Fine(o) == o # None => Proper(o, k.session)
<1>1. HandleLogin(r, k) \in {post, get, handleLoginPage(r)}
  BY Zenon DEF HandleLogin
<1>2. Proper(handleLoginPage(r), k.session)
  BY LoginPageProper
<1>3. Proper(post, k.session)
  BY BackendLoginProper, LoginProper DEF ??
<1>4. Fine(c1) BY RefererProper, RouteCookieProper, FallThrough
<1> HIDE DEF c1
<1>5. Proper(get, k.session) BY <1>2, <1>4 DEF ??
<1> HIDE DEF post, get
<1> QED BY <1>1, <1>2, <1>3, <1>5

LEMMA RootProper ==
    ASSUME NEW r, NEW k, Asking(r, k) PROVE Proper(handleRoot(r, k), k.session)
<1> DEFINE c1 == handleProxyEscape(r, k) ?? handleRefererProxy(r, k)
           Fine(o) == o # None => Proper(o, k.session)
<1>1. handleRoot(r, k) = c1 ?? Page(k.session = None, None)
  BY Zenon DEF handleRoot
<1>2. Fine(c1) BY EscapeProper, RefererProper, FallThrough
<1> HIDE DEF c1
<1>3. Proper(Page(k.session = None, None), k.session)
  BY PlainOutcomes DEF NextURL
<1> QED BY <1>1, <1>2, <1>3 DEF ??

LEMMA LogoutOutcome ==
    ASSUME NEW r
    PROVE  Proper(handleLogout(r), r.cookies.session) \/ handleLogout(r).is = "logout"
BY PlainOutcomes DEF handleLogout

LEMMA OwnPageProper ==
    ASSUME NEW r, NEW k, Asking(r, k) PROVE Proper(handleOwnPage(r, k), k.session)
<1>1. At(r, <<"login">>, "") \in URL /\ At(r, Root, "") \in URL
  BY OneSegment, SegmentsAssumption, RootPath, AtURL
<1>2. r.next \in NextURL /\ None \in NextURL
  BY RequestFacts DEF NextURL
<1>3. handleOwnPage(r, k) \in {Redirect(At(r, <<"login">>, ""), r.next),
                               Redirect(At(r, <<"login">>, ""), None),
                               Redirect(At(r, Root, ""), None), Page(FALSE, None)}
  BY Zenon DEF handleOwnPage
<1> QED BY <1>1, <1>2, <1>3, PlainOutcomes

LEMMA MuxPathPath == ASSUME NEW p \in Path PROVE MuxPath(p) \in SomePath
<1>1. Tidy(p) \in SomePath
  BY CleanPath, RootPath, ConcatPath DEF Tidy, SomePath
<1> QED BY <1>1, RootPath, ConcatPath DEF MuxPath, SomePath

(* The mux: only a request for /logout logs out.                           *)
LEMMA HandlerOutcome ==
    ASSUME NEW r, Asking(r, r.cookies)
    PROVE  LET o == Handler(r, r.cookies)
           IN  \/ Proper(o, r.cookies.session)
               \/ o.is = "logout" /\ r.url.path = <<"logout">>
<1> DEFINE k == r.cookies
           p == r.url.path
           mux == Mux(r, k)
<1>1. \/ Proper(mux, k.session)
      \/ mux.is = "logout" /\ p = <<"logout">>
  <2>1. mux = CASE MuxPath(p) # p -> Redirect(At(r, MuxPath(p), r.url.query), None)
                [] p = Root -> handleRoot(r, k)
                [] p = <<"login">> -> HandleLogin(r, k)
                [] p = <<"logout">> -> handleLogout(r)
                [] p \in OwnPages -> handleOwnPage(r, k)
                [] MuxPath(p) = p /\ p[1] = "proxy" -> handleProxy(r, k)
                [] MuxPath(p) = p /\ p[1] = "api" /\ p \notin OwnPages -> HandleAPI(r, k)
                [] OTHER -> HandleBare(r, k)
    BY Zenon DEF Mux
  <2>2. \/ mux = Redirect(At(r, MuxPath(p), r.url.query), None)
        \/ mux \in {handleRoot(r, k), HandleLogin(r, k), handleOwnPage(r, k), handleProxy(r, k),
                    HandleAPI(r, k), HandleBare(r, k)}
        \/ mux = handleLogout(r) /\ p = <<"logout">>
    <3> HIDE DEF mux, k
    <3> QED BY <2>1
  <2>3. At(r, MuxPath(p), r.url.query) \in URL
    BY MuxPathPath, RequestFacts, AtURL DEF SomePath
  <2>4. Proper(Redirect(At(r, MuxPath(p), r.url.query), None), k.session)
    BY <2>3, PlainOutcomes DEF NextURL
  <2> QED BY <2>2, <2>4, RootProper, LoginPathProper, OwnPageProper, ProxyProper, APIProper,
             BareProper, LogoutOutcome, PlainOutcomes
<1>2. Handler(r, k) = handleVirtualHost(r, k) ?? mux
  BY Zenon DEF Handler
<1> HIDE DEF mux
<1> QED BY <1>1, <1>2, VirtualHostProper DEF ??

-----------------------------------------------------------------------------
(* What is in an answer.                                                   *)

LEMMA PrefixRoute == ASSUME NEW m \in Match PROVE Prefix(m) \in Routes
<1> DEFINE of(s) == {<<"proxy">> \o s.path} \cup {<<"proxy", u>> \o s.path : u \in Users}
<1>1. Routes = UNION {of(s) : s \in Services}
  BY Zenon DEF Routes
<1>2. m.user \in Users /\ m.service \in Services
  BY DEF Match
<1>3. Prefix(m) \in of(m.service)
  BY <1>2 DEF Prefix
<1> HIDE DEF of
<1> QED BY <1>1, <1>2, <1>3

LEMMA OwnerTyped == ASSUME NEW m \in Match PROVE OwnerOf(m) \in Owner
BY DEF Match, OwnerOf, Owner

LEMMA PlainReply ==
    ASSUME NEW to \in NextURL, NEW next \in NextURL, NEW form \in BOOLEAN, NEW login \in {None} \cup Users,
           NEW a, a = Reply(to, next, form, login, FALSE, Nothing)
    PROVE  a \in Answer /\ a.by = None /\ ~a.logout /\ ~a.steady
<1>1. Root \in SomePath /\ <<>> \in Path
  BY RootPath, EmptySeq DEF Path
<1> QED BY <1>1 DEF Reply, Answer, NextURL, Nothing

LEMMA LogoutReply ==
    ASSUME NEW r, NEW k, Asking(r, k),
           NEW a, a = Reply(At(r, Root, ""), None, FALSE, None, TRUE, ClearRouteCookies(k))
    PROVE  /\ a \in Answer /\ a.by = None /\ ~a.steady
           /\ a.route = None /\ a.forget = ClearRouteCookies(k)
<1>1. Root \in SomePath /\ <<>> \in Path
  BY RootPath, EmptySeq DEF Path
<1>2. ClearRouteCookies(k) \in [routes : SUBSET Routes, recent : BOOLEAN]
  BY RequestFacts DEF ClearRouteCookies
<1>3. At(r, Root, "") \in URL
  BY <1>1, AtURL
<1> HIDE DEF ClearRouteCookies
<1> QED BY <1>1, <1>2, <1>3 DEF Reply, Answer

(* What a backend answers is typed and carries its owner.                  *)
LEMMA BackendAnswers ==
    ASSUME NEW r, NEW k, Asking(r, k), NEW m \in Found, NEW mode, NEW a \in Backend(r, k, m, mode)
    PROVE  a \in Answer /\ a.by = OwnerOf(m) /\ ~a.logout
<1> DEFINE rest == IF mode = "prefix" THEN m.rest ELSE r.url.path
           base == BaseForPath(IF mode = "prefix" THEN Prefix(m) ELSE <<>>, rest)
           route == IF mode = "vhost" THEN None ELSE Prefix(m)
           recent == mode # "vhost" /\ r.kind # "image"
           by == OwnerOf(m)
           sent(to, at, cookie) ==
             [to |-> to, next |-> None, form |-> FALSE,
              by |-> by, path |-> at, steady |-> mode # "asis", base |-> base,
              route |-> route, recent |-> recent,
              cookie |-> cookie, login |-> None, logout |-> FALSE, forget |-> Nothing]
           path == joinBackendPath(m.service.backend, rest)
           Location(p) == At(r, rewriteLocation(p, m, mode), "")
           known == m.service.guarded =>
                      \E c \in k.backend : c.owner = OwnerOf(m) /\ CookieMatches(c.path, r.url.path)
           token == [r.url EXCEPT !.query = "token"]
           cookie == [host |-> r.url.host, owner |-> OwnerOf(m),
                      path |-> RewriteSetCookie(m.service.cookie, m, mode, r.url.path)]
<1>1. a \in IF known
            THEN IF m.service.slash /\ Last(path) # ""
                 THEN {sent(Location(path \o Root), path \o Root, None)}
                 ELSE {sent(None, path, None)}
            ELSE {sent(None, path, None)}
                 \cup (IF shouldBootstrap(m, mode, r) THEN {sent(token, path, None)} ELSE {})
                 \cup (IF r.url.query = "token" THEN {sent(Location(path), path, cookie)} ELSE {})
  BY Zenon DEF Backend
<1>2. m \in Match /\ m.service \in Services /\ m.rest \in SomePath
  BY DEF Found, Match, SomePath
<1>3. rest \in SomePath
  BY <1>2, RequestFacts
<1>4. path \in SomePath /\ path \o Root \in SomePath
  <2> HIDE DEF rest
  <2>1. path \in SomePath
    BY <1>2, <1>3, ServicePaths, JoinPath
  <2> HIDE DEF path
  <2> QED BY <2>1, RootPath, ConcatPath DEF SomePath
<1>5. base \in Path
  <2> HIDE DEF rest
  <2>1. (IF mode = "prefix" THEN Prefix(m) ELSE <<>>) \in Path
    BY <1>2, PrefixPath, EmptySeq DEF SomePath, Path
  <2> QED BY <1>3, <2>1, BasePath
<1>6. route \in {None} \cup Routes /\ recent \in BOOLEAN /\ by \in Owner
  BY <1>2, PrefixRoute, OwnerTyped
<1>7. Location(path) \in URL /\ Location(path \o Root) \in URL /\ token \in URL
  <2>1. token \in URL
    BY RequestFacts DEF URL
  <2>2. \A p \in SomePath : Location(p) \in URL
    BY <1>2, RewriteLocationPath, AtURL
  <2> HIDE DEF path, Location, token
  <2> QED BY <1>4, <2>1, <2>2
<1>8. cookie \in BackendCookie
  BY <1>2, <1>6, RequestFacts, ServicePaths, RewriteSetCookiePath DEF BackendCookie
<1> HIDE DEF rest, base, route, recent, by, path, Location, known, token, cookie
<1>9. ASSUME NEW to \in NextURL, NEW at \in SomePath, NEW c \in {None} \cup BackendCookie
      PROVE  sent(to, at, c) \in Answer /\ sent(to, at, c).by = by /\ ~sent(to, at, c).logout
  BY <1>5, <1>6 DEF Answer, Nothing, NextURL
<1> HIDE DEF sent
<1>10. \E to \in NextURL, at \in SomePath, c \in {None} \cup BackendCookie : a = sent(to, at, c)
  BY <1>1, <1>4, <1>7, <1>8 DEF NextURL
<1> QED BY <1>9, <1>10 DEF by

(* An answer is typed; if a service gave it, it is the session user's own; *)
(* and only the logout handler forgets, what its request carried.          *)
LEMMA AnswerFacts ==
    ASSUME NEW r, Asking(r, r.cookies), NEW a \in Answers(r)
    PROVE  /\ a \in Answer
           /\ a.by # None => /\ a.by.user = r.cookies.session
                             /\ \E s \in conf[a.by.user].services : s.id = a.by.id
           /\ a.steady => a.by \in Owner
           /\ a.logout => /\ r.url.path = <<"logout">>
                          /\ a.forget = ClearRouteCookies(r.cookies)
                          /\ a.route = None
<1> DEFINE k == r.cookies
           o == Handler(r, k)
           B == Backend(r, k, o.match, o.mode)
<1>1. Answers(r) = CASE o.is = "forward" -> B
          [] o.is = "redirect" -> {Reply(o.url, o.next, FALSE, None, FALSE, Nothing)}
          [] o.is = "page" -> {Reply(None, o.next, o.form, None, FALSE, Nothing)}
          [] o.is = "login" -> {Reply(o.url, None, FALSE, o.user, FALSE, Nothing)}
          [] o.is = "logout" -> {Reply(At(r, Root, ""), None, FALSE, None, TRUE, ClearRouteCookies(k))}
  BY Zenon DEF Answers
<1>2. \/ Proper(o, k.session)
      \/ o.is = "logout" /\ r.url.path = <<"logout">>
  BY HandlerOutcome
<1>3. None \in NextURL /\ None \in {None} \cup Users
  BY DEF NextURL
<1>4. Asking(r, k)
  OBVIOUS
<1>5. CASE o.is = "forward"
  <2> HIDE DEF o, k
  <2>1. Own(o.match, k.session) /\ a \in B
    BY <1>1, <1>2, <1>5 DEF Proper
  <2>2. o.match \in Found
    BY <2>1 DEF Own
  <2>3. a \in Answer /\ a.by = OwnerOf(o.match) /\ ~a.logout
    BY <2>1, <2>2, BackendAnswers DEF k
  <2>4. OwnerOf(o.match) \in Owner
    BY <2>2, OwnerTyped DEF Found
  <2>5. OwnerOf(o.match).user = k.session /\ \E s \in conf[k.session].services : s.id = OwnerOf(o.match).id
    BY <2>1 DEF Own, OwnerOf
  <2> QED BY <2>3, <2>4, <2>5 DEF k
<1> HIDE DEF o
<1>6. CASE o.is = "redirect"
  <2>1. a = Reply(o.url, o.next, FALSE, None, FALSE, Nothing)
    BY <1>1, <1>6
  <2>2. o.url \in NextURL /\ o.next \in NextURL
    BY <1>2, <1>6 DEF Proper, NextURL
  <2>3. a \in Answer /\ a.by = None /\ ~a.logout /\ ~a.steady
    BY <1>3, <2>1, <2>2, PlainReply
  <2> QED BY <2>3
<1>7. CASE o.is = "page"
  <2>1. PICK form \in BOOLEAN, next \in NextURL : form = o.form /\ next = o.next
    BY <1>2, <1>7 DEF Proper
  <2>2. a = Reply(None, next, form, None, FALSE, Nothing)
    BY <1>1, <1>7, <2>1
  <2>3. a \in Answer /\ a.by = None /\ ~a.logout /\ ~a.steady
    BY <1>3, <2>2, PlainReply, Zenon
  <2> QED BY <2>3
<1>8. CASE o.is = "login"
  <2>1. a = Reply(o.url, None, FALSE, o.user, FALSE, Nothing)
    BY <1>1, <1>8
  <2>2. o.url \in NextURL /\ o.user \in Users
    BY <1>2, <1>8 DEF Proper, NextURL
  <2>3. a \in Answer /\ a.by = None /\ ~a.logout /\ ~a.steady
    BY <1>3, <2>1, <2>2, PlainReply
  <2> QED BY <2>3
<1>9. CASE o.is = "logout"
  <2>1. a = Reply(At(r, Root, ""), None, FALSE, None, TRUE, ClearRouteCookies(k))
    BY <1>1, <1>9
  <2>2. r.url.path = <<"logout">>
    BY <1>2, <1>9 DEF Proper
  <2>3. a \in Answer /\ a.by = None /\ a.route = None /\ a.forget = ClearRouteCookies(k) /\ ~a.steady
    <3> HIDE DEF k
    <3> QED BY <1>4, <2>1, LogoutReply
  <2> QED BY <2>2, <2>3
<1> QED BY <1>2, <1>5, <1>6, <1>7, <1>8, <1>9 DEF Proper

-----------------------------------------------------------------------------
(* Bare paths.                                                             *)

LEMMA RecordNotNone ==
    ASSUME NEW m, NEW user, Own(m, user), NEW mode \in {"prefix", "asis", "vhost"},
           NEW r, r.kind # "upgrade"
    PROVE  /\ Forward(m, mode, r) # None
           /\ Forward(m, mode, r) = [is |-> "forward", match |-> m, mode |-> mode]
<1>1. m \in Match
  BY DEF Own, Found
<1>2. Forward(m, mode, r) = [is |-> "forward", match |-> m, mode |-> mode]
  BY DEF Forward
<1> QED BY <1>1, <1>2, NoneAssumption

(* The mux has two handlers for bare paths.                                *)
LEMMA BareMux ==
    ASSUME NEW r, Asking(r, r.cookies), Bare(r)
    PROVE  Handler(r, r.cookies) = IF r.url.path[1] = "api"
                                   THEN HandleAPI(r, r.cookies) ELSE HandleBare(r, r.cookies)
<1> DEFINE k == r.cookies
           p == r.url.path
<1>1. /\ MuxPath(p) = p /\ p[1] # "proxy"
      /\ p # Root /\ p # <<"login">> /\ p # <<"logout">> /\ p \notin OwnPages
      /\ FindByHost(conf, r.url.host) = None
  BY DEF Bare
<1>2. handleVirtualHost(r, k) = None
  BY <1>1 DEF handleVirtualHost
<1>3. Mux(r, k) = CASE MuxPath(p) # p -> Redirect(At(r, MuxPath(p), r.url.query), None)
                    [] p = Root -> handleRoot(r, k)
                    [] p = <<"login">> -> HandleLogin(r, k)
                    [] p = <<"logout">> -> handleLogout(r)
                    [] p \in OwnPages -> handleOwnPage(r, k)
                    [] MuxPath(p) = p /\ p[1] = "proxy" -> handleProxy(r, k)
                    [] MuxPath(p) = p /\ p[1] = "api" /\ p \notin OwnPages -> HandleAPI(r, k)
                    [] OTHER -> HandleBare(r, k)
  BY Zenon DEF Mux
<1>4. Handler(r, k) = Mux(r, k)
  BY <1>2 DEF Handler, ??
<1> HIDE DEF k, p
<1>5. Mux(r, k) = IF p[1] = "api" THEN HandleAPI(r, k) ELSE HandleBare(r, k)
  BY <1>1, <1>3
<1> QED BY <1>4, <1>5 DEF k, p

(* A request that is forwarded is answered by that service.                *)
LEMMA ForwardAnswers ==
    ASSUME NEW r, Asking(r, r.cookies), r.kind # "upgrade",
           NEW m, NEW user, Own(m, user), NEW mode \in {"prefix", "asis", "vhost"},
           Handler(r, r.cookies) = Forward(m, mode, r), NEW a \in Answers(r)
    PROVE  a.by = OwnerOf(m)
<1> DEFINE o == Handler(r, r.cookies)
           k == r.cookies
<1>1. o.is = "forward" /\ o.match = m /\ o.mode = mode
  <2> HIDE DEF o
  <2> QED BY RecordNotNone DEF o
<1>2. Answers(r) = CASE o.is = "forward" -> Backend(r, k, o.match, o.mode)
          [] o.is = "redirect" -> {Reply(o.url, o.next, FALSE, None, FALSE, Nothing)}
          [] o.is = "page" -> {Reply(None, o.next, o.form, None, FALSE, Nothing)}
          [] o.is = "login" -> {Reply(o.url, None, FALSE, o.user, FALSE, Nothing)}
          [] o.is = "logout" -> {Reply(At(r, Root, ""), None, FALSE, None, TRUE, ClearRouteCookies(k))}
  BY Zenon DEF Answers
<1>3. Asking(r, k)
  OBVIOUS
<1> HIDE DEF o, k
<1>4. a \in Backend(r, k, m, mode)
  BY <1>1, <1>2
<1>5. m \in Found
  BY DEF Own
<1> QED BY <1>3, <1>4, <1>5, BackendAnswers

(* With a page of one of the user's services as its Referer, a bare path   *)
(* that is not a page's is forwarded to that service.                      *)
LEMMA RefererFirst ==
    ASSUME NEW r, NEW k, Asking(r, k), k.session # None, r.kind # "upgrade",
           refererPath(r) # None, NEW m, m = FindService(conf, refererPath(r)), m # None,
           m.user = k.session
    PROVE  Own(m, k.session) /\ handleRefererProxy(r, k) = Forward(m, "asis", r)
<1> DEFINE p == refererPath(r)
<1>1. p \in Path /\ conf \in Lookup /\ k.session \in Users
  BY RequestFacts DEF SomePath, Asking
<1>2. UsernameFromProxyPath(p) = k.session /\ Own(m, k.session)
  BY <1>1, FindServiceOwn DEF Own
<1>3. matchRouteForUser(conf, p, k.session) = m
  BY <1>2 DEF matchRouteForUser, FindServiceForUser, ??
<1> QED BY <1>2, <1>3 DEF handleRefererProxy

(* The root-absolute handler goes nowhere else then.                       *)
LEMMA RootAbsoluteOfPage ==
    ASSUME NEW r, NEW k, Asking(r, k), k.session # None, r.kind # "upgrade",
           refererPath(r) # None, NEW m, m = FindService(conf, refererPath(r)), m # None,
           m.user = k.session
    PROVE  handleRootAbsoluteService(r, k) \in {None, Forward(m, "asis", r)}
<1> DEFINE p == refererPath(r)
           page == matchRootAbsoluteReferer(r, k)
           route == GetRouteCookieForRequest(k, r.url.path, Referer(r))
           chosen == IF page.match # None \/ page.canonical \/ route = None THEN page.match
                     ELSE matchRouteForUser(conf, route, k.session)
<1>1. Len(p) >= 3 /\ p[1] = "proxy"
  <2>1. p \in Path /\ conf \in Lookup
    BY RequestFacts DEF SomePath, Asking
  <2>2. UsernameFromProxyPath(p) \in Users
    BY <2>1, FindServiceOwn
  <2> QED BY <2>2, ServicesAssumption DEF UsernameFromProxyPath
<1>2. FindServiceForUser(conf, p, k.session) = m
  BY DEF FindServiceForUser, ??
<1>3. p \in Path
  BY RequestFacts DEF SomePath
<1>4. page = [match |-> IF m.service.root THEN m ELSE None, canonical |-> TRUE]
  <2>1. ~(p = None \/ p[1] # "proxy" \/ Len(p) < 2)
    BY <1>1, <1>3, PathFacts
  <2> QED BY <1>2, <2>1 DEF matchRootAbsoluteReferer
<1>5. chosen \in {m, None}
  <2> HIDE DEF page, route
  <2> QED BY <1>4
<1>6. handleRootAbsoluteService(r, k) =
        IF bestBareService(conf, k.session, r.url.path) # None THEN None
        ELSE IF chosen = None \/ ~chosen.service.root THEN None
        ELSE Forward(chosen, "asis", r)
  BY Zenon DEF handleRootAbsoluteService
<1> HIDE DEF chosen
<1> QED BY <1>5, <1>6

(* The order of the handlers for a bare path.                              *)
LEMMA BareStart ==
    ASSUME NEW r, Asking(r, r.cookies), Bare(r)
    PROVE  LET k == r.cookies
           IN  /\ k.session # None /\ k.session \in Users /\ BareService(r, k) = None
               /\ HandleBare(r, k) = handleRootAbsoluteService(r, k) ?? handleDefaultServicePage(r, k)
                      ?? handleRefererProxy(r, k) ?? handleRouteCookieProxy(r, k)
                      ?? forwardToDefaultService(r, k) ?? NotFound
<1>1. /\ r.cookies.session # None
      /\ bestBareService(conf, r.cookies.session, r.url.path) = None
  BY DEF Bare
<1>2. BareService(r, r.cookies) = None
  BY <1>1 DEF BareService
<1>3. r.cookies.session \in Users
  BY <1>1, RequestFacts
<1> QED BY <1>1, <1>2, <1>3, Zenon DEF HandleBare, ??

(* So an asset or an API call of a page is answered by the page's service. *)
LEMMA Sticks ==
    ASSUME NEW r, Asking(r, r.cookies), Bare(r), ~barePathIsPage(r.url.path), r.kind # "upgrade",
           refererPath(r) # None, NEW m, m = FindService(conf, refererPath(r)), m # None,
           m.user = r.cookies.session, NEW a \in Answers(r)
    PROVE  a.by = OwnerOf(m)
<1> DEFINE k == r.cookies
           f == Forward(m, "asis", r)
<1>1. k.session # None /\ Asking(r, k)
  BY DEF Bare
<1>2. Own(m, k.session) /\ handleRefererProxy(r, k) = f
  BY <1>1, RefererFirst
<1>3. f # None
  BY <1>2, RecordNotNone
<1>4. HandleAPI(r, k) = f
  BY <1>2, <1>3, Zenon DEF HandleAPI, ??
<1>5. HandleBare(r, k) = f
  <2>1. handleRootAbsoluteService(r, k) \in {None, f}
    BY <1>1, RootAbsoluteOfPage
  <2>2. handleDefaultServicePage(r, k) = None
    BY DEF handleDefaultServicePage
  <2>3. HandleBare(r, k) = handleRootAbsoluteService(r, k) ?? handleDefaultServicePage(r, k)
                      ?? handleRefererProxy(r, k) ?? handleRouteCookieProxy(r, k)
                      ?? forwardToDefaultService(r, k) ?? NotFound
    BY BareStart
  <2> HIDE DEF k, f
  <2> QED BY <1>2, <1>3, <2>1, <2>2, <2>3 DEF ??
<1>6. Handler(r, k) = f
  BY <1>4, <1>5, BareMux
<1> QED BY <1>2, <1>6, ForwardAnswers

(* A bare page path: root-absolute service first, the default one second.  *)
LEMMA DefaultComes ==
    ASSUME NEW r, Asking(r, r.cookies), Bare(r), barePathIsPage(r.url.path), r.kind # "upgrade",
           r.url.path[1] # "api",
           NEW s, s = ServiceByID(conf, r.cookies.session, conf[r.cookies.session].default), s # None,
           NEW a \in Answers(r)
    PROVE  /\ a.by # None
           /\ a.by.id = s.id \/ \E x \in conf[r.cookies.session].services : x.id = a.by.id /\ x.root
<1> DEFINE k == r.cookies
           d == [user |-> k.session, service |-> s, legacy |-> FALSE, rest |-> r.url.path]
           o == handleRootAbsoluteService(r, k)
<1>1. k.session # None /\ k.session \in Users /\ Asking(r, k) /\ conf \in Lookup
  BY BareStart DEF Asking
<1>2. handleDefaultServicePage(r, k) = Forward(d, "asis", r)
  BY <1>1 DEF handleDefaultServicePage, forwardToDefaultService
<1>3. Own(d, k.session)
  <2>1. s \in conf[k.session].services
    BY ServiceByIDOwn
  <2>2. d \in Found
    BY <1>1, <2>1, AccountFacts, FoundMatch, RequestFacts
  <2> QED BY <2>1, <2>2 DEF Own
<1>4. Handler(r, k) = HandleBare(r, k)
  BY BareMux
<1>5. HandleBare(r, k) = o ?? Forward(d, "asis", r)
                      ?? handleRefererProxy(r, k) ?? handleRouteCookieProxy(r, k)
                      ?? forwardToDefaultService(r, k) ?? NotFound
  BY <1>2, BareStart, Zenon
<1>6. PICK m : /\ Own(m, k.session) /\ (m.service.root \/ m.service = s)
               /\ Handler(r, k) = Forward(m, "asis", r)
  <2>1. CASE o = None
    <3>1. Forward(d, "asis", r) # None
      BY <1>3, RecordNotNone
    <3>2. Handler(r, k) = Forward(d, "asis", r)
      <4> HIDE DEF k, d, o
      <4> QED BY <1>4, <1>5, <2>1, <3>1 DEF ??
    <3>3. d.service = s
      OBVIOUS
    <3> HIDE DEF d, k
    <3> QED BY <1>3, <3>2, <3>3
  <2>2. CASE o # None
    <3>1. PICK m : Own(m, k.session) /\ m.service.root /\ o = Forward(m, "asis", r)
      BY <1>1, <2>2, RootAbsoluteForwards
    <3>2. Handler(r, k) = o
      <4> HIDE DEF k, d, o
      <4> QED BY <1>4, <1>5, <2>2 DEF ??
    <3> QED BY <3>1, <3>2
  <2> QED BY <2>1, <2>2
<1>7. a.by = OwnerOf(m)
  BY <1>6, ForwardAnswers
<1>8. OwnerOf(m) \in Owner
  BY <1>6, OwnerTyped DEF Own, Found
<1>9. OwnerOf(m).id = m.service.id /\ m.service \in conf[k.session].services
  BY <1>6 DEF Own, OwnerOf
<1> QED BY <1>6, <1>7, <1>8, <1>9, NoneAssumption

-----------------------------------------------------------------------------
(* Types.                                                                  *)

(* A request that has been answered has its answer.                        *)
HasAnswer(f) == f # None /\ f.answered => f.answer \in Answer

TypeInv == TypeOK /\ \A t \in Tabs : HasAnswer(flight[t])

LEMMA TypeFacts ==
    ASSUME TypeOK, NEW t \in Tabs
    PROVE  /\ conf \in Lookup
           /\ tabs[t] \in Document
           /\ flight[t] # None => /\ flight[t] \in Flight /\ flight[t].req \in Request
                                  /\ Asking(flight[t].req, flight[t].req.cookies)
<1>1. conf \in Lookup /\ tabs[t] \in Document /\ (flight[t] # None => flight[t] \in Flight)
  BY DEF TypeOK, Lookup
<1>2. \A f \in Flight : f.req \in Request
  BY DEF Flight
<1>3. \A r \in Request : r.cookies \in Cookies
  BY DEF Request
<1> QED BY <1>1, <1>2, <1>3 DEF Asking

LEMMA PageTyped ==
    ASSUME NEW url \in URL, NEW form \in BOOLEAN, NEW next \in NextURL
    PROVE  GatewayPage(url, form, next) \in Document
<1>1. <<>> \in Path
  BY EmptySeq DEF Path
<1> QED BY <1>1 DEF GatewayPage, Document, NextURL

LEMMA HeaderTyped ==
    ASSUME NEW j \in Jar, NEW host \in Hosts PROVE CookieHeader(j, host) \in Cookies
BY DEF Jar, CookieHeader, Cookies

LEMMA SendTyped ==
    ASSUME NEW r \in Request, NEW meant \in {None} \cup [owner : Owner, path : SomePath]
    PROVE  Send(r, meant) \in Flight
BY DEF Send, Flight

LEMMA InitType == Init => TypeInv
<1> SUFFICES ASSUME Init PROVE TypeInv
  OBVIOUS
<1>1. PICK s \in Scenarios :
        /\ conf = s.conf /\ later = s.later /\ asks = s.asks
        /\ jar = [session |-> s.session, routes |-> [h \in Hosts |-> {}],
                  recent |-> [h \in Hosts |-> None], backend |-> {}]
        /\ tabs = [t \in Tabs |-> GatewayPage([host |-> Gateway, path |-> Root, query |-> ""],
                                              s.session = None, None)]
        /\ flight = [t \in Tabs |-> None]
        /\ out = None /\ late = {}
  BY DEF Init
<1>2. /\ s.session \in {None} \cup Users /\ s.conf \in [Users -> Account]
      /\ s.later \subseteq [Users -> Account] /\ s.asks \in [Tabs -> SUBSET Ask]
  BY ScenariosAssumption
<1>3. jar \in Jar
  BY <1>1, <1>2 DEF Jar
<1>4. [host |-> Gateway, path |-> Root, query |-> ""] \in URL
  BY RootPath, HostsAssumption DEF URL
<1>5. GatewayPage([host |-> Gateway, path |-> Root, query |-> ""], s.session = None, None) \in Document
  BY <1>4, PageTyped DEF NextURL
<1> QED BY <1>1, <1>2, <1>3, <1>5 DEF TypeOK, TypeInv, HasAnswer

LEMMA BrowseType == ASSUME TypeInv, NEW t \in Tabs, Browse(t) PROVE TypeInv'
<1> DEFINE page == tabs[t]
           host(a) == IF a.from \in Hosts THEN a.from ELSE page.url.host
           url(a) == [host |-> host(a), query |-> a.query,
                      path |-> IF a.from = "base" THEN page.base \o a.path ELSE a.path]
           login(a) == IF page.form THEN a.login ELSE None
           referer(a) == IF a.from \in Hosts THEN None ELSE page
           next(a) == IF a.kind = "form" THEN page.next ELSE None
           req(a) == [url |-> url(a), kind |-> a.kind, login |-> login(a),
                      referer |-> referer(a), next |-> next(a),
                      cookies |-> CookieHeader(jar, host(a))]
<1>1. PICK a \in asks[t] : /\ flight' = [flight EXCEPT ![t] = Send(req(a), None)]
                           /\ asks' = [asks EXCEPT ![t] = @ \ {a}]
  BY Zenon DEF Browse
<1>2. /\ a.path \in SomePath /\ a.query \in {"", "q"} /\ a.kind \in Kinds
      /\ a.login \in {None} \cup Users
  <2>1. a \in Ask
    BY DEF TypeOK, TypeInv
  <2> HIDE DEF page, req
  <2> QED BY <2>1 DEF Ask
<1>3. /\ page \in Document /\ page.url \in URL /\ page.url.host \in Hosts /\ page.base \in Path
      /\ page.next \in NextURL
  BY TypeFacts DEF Document, URL, NextURL, TypeInv
<1>4. host(a) \in Hosts
  BY <1>3
<1>5. url(a) \in URL
  <2>1. (IF a.from = "base" THEN page.base \o a.path ELSE a.path) \in SomePath
    BY <1>2, <1>3, ConcatPath DEF SomePath
  <2> HIDE DEF host
  <2> QED BY <1>2, <1>4, <2>1 DEF URL
<1>6. CookieHeader(jar, host(a)) \in Cookies
  <2> HIDE DEF host
  <2> QED BY <1>4, HeaderTyped DEF TypeOK, TypeInv
<1>7. login(a) \in {None} \cup Users /\ referer(a) \in {None} \cup Document /\ next(a) \in NextURL
  BY <1>2, <1>3 DEF NextURL
<1>8. req(a) \in Request
  <2> HIDE DEF url, login, referer, next, host
  <2> QED BY <1>2, <1>5, <1>6, <1>7 DEF Request, NextURL
<1> HIDE DEF req
<1>9. Send(req(a), None) \in Flight
  BY <1>8, SendTyped
<1>10. HasAnswer(Send(req(a), None))
  BY DEF HasAnswer, Send
<1>11. UNCHANGED <<conf, later, jar, tabs, out, late>>
  BY DEF Browse
<1> QED BY <1>1, <1>9, <1>11, <1>10 DEF TypeOK, TypeInv

(* What a handler answered is typed, by AnswerFacts.                       *)
LEMMA RouteType == ASSUME TypeInv, NEW t \in Tabs, Route(t) PROVE TypeInv'
<1> DEFINE f == flight[t]
           meant(a) == IF a.to # None /\ a.steady THEN [owner |-> a.by, path |-> a.path]
                       ELSE IF Untidy(f.req) THEN f.meant ELSE None
<1>1. f # None /\ UNCHANGED <<conf, later, asks, jar, tabs, out, late>>
  BY DEF Route, Waiting
<1>2. PICK a \in Answers(f.req) : flight' = [flight EXCEPT ![t] = Answered(@, a)]
  BY DEF Route
<1>3. f \in Flight /\ f.req \in Request /\ Asking(f.req, f.req.cookies)
  BY <1>1, TypeFacts DEF TypeInv
<1>4. a \in Answer /\ (a.steady => a.by \in Owner)
  BY <1>3, AnswerFacts
<1>5. meant(a) \in {None} \cup [owner : Owner, path : SomePath]
  BY <1>3, <1>4 DEF Answer, Flight
<1>6. Spent(f.req) \in Request
  BY <1>3 DEF Spent, Request, NoCookies, Cookies
<1>7. f.since \in BOOLEAN
  BY <1>3 DEF Flight
<1>8. Answered(f, a) \in Flight
  <2>1. Answered(f, a) = [req |-> Spent(f.req), answered |-> TRUE, answer |-> a,
                          since |-> f.since, meant |-> meant(a)]
    BY DEF Answered
  <2> HIDE DEF meant, f
  <2> QED BY <1>4, <1>5, <1>6, <1>7, <2>1 DEF Flight
<1>9. HasAnswer(Answered(f, a))
  BY <1>4 DEF HasAnswer, Answered
<1> QED BY <1>1, <1>2, <1>8, <1>9 DEF TypeOK, TypeInv

LEMMA StoreTyped ==
    ASSUME NEW j \in Jar, NEW host \in Hosts, NEW a \in Answer PROVE Store(j, host, a) \in Jar
<1> DEFINE routes == [j.routes EXCEPT ![host] = (@ \ a.forget.routes) \cup ({a.route} \ {None})]
           recent == [j.recent EXCEPT ![host] =
                        IF a.route # None /\ a.recent THEN a.route
                        ELSE IF a.forget.recent THEN None ELSE @]
           session == IF a.logout THEN None ELSE IF a.login # None THEN a.login ELSE j.session
           backend == j.backend \cup ({a.cookie} \ {None})
<1>1. /\ a.route \in {None} \cup Routes /\ a.login \in {None} \cup Users
      /\ a.cookie \in {None} \cup BackendCookie
  BY DEF Answer
<1>2. /\ j.session \in {None} \cup Users /\ j.routes \in [Hosts -> SUBSET Routes]
      /\ j.recent \in [Hosts -> {None} \cup Routes] /\ j.backend \in SUBSET BackendCookie
  BY DEF Jar
<1>3. routes \in [Hosts -> SUBSET Routes]
  BY <1>1, <1>2
<1>4. recent \in [Hosts -> {None} \cup Routes]
  BY <1>1, <1>2
<1>5. session \in {None} \cup Users /\ backend \in SUBSET BackendCookie
  BY <1>1, <1>2
<1>6. Store(j, host, a) = [session |-> session, routes |-> routes, recent |-> recent, backend |-> backend]
  BY Zenon DEF Store
<1> HIDE DEF session, routes, recent, backend
<1> QED BY <1>3, <1>4, <1>5, <1>6 DEF Jar

LEMMA FollowTyped ==
    ASSUME NEW r \in Request, NEW a \in Answer, a.to # None, NEW j \in Jar
    PROVE  Follow(r, a, j) \in Request
<1>1. a.to \in URL /\ a.to.host \in Hosts /\ a.next \in NextURL
  BY DEF Answer, URL, NextURL
<1>2. CookieHeader(j, a.to.host) \in Cookies
  BY <1>1, HeaderTyped
<1>3. r.referer \in {None} \cup Document /\ r.kind \in Kinds
  BY DEF Request
<1>4. (CASE r.kind = "form" -> "page" [] r.kind = "post" -> "fetch" [] OTHER -> r.kind) \in Kinds
  BY <1>3 DEF Kinds
<1> QED BY <1>1, <1>2, <1>3, <1>4 DEF Follow, Request, NextURL

LEMMA DeliverType == ASSUME TypeInv, NEW t \in Tabs, Deliver(t) PROVE TypeInv'
<1> DEFINE f == flight[t]
           a == f.answer
           host == f.req.url.host
           follows == a.to # None /\ f.req.kind # "upgrade"
           shown == IF a.by = None THEN GatewayPage(f.req.url, a.form, a.next)
                    ELSE [url |-> f.req.url, owner |-> a.by, base |-> a.base,
                          form |-> FALSE, next |-> None]
           sent == IF follows THEN Send(Follow(f.req, a, jar'), f.meant) ELSE None
           met(u) == flight[u] # None /\ flight[u].req.url.host = host
                       /\ flight[u].req.url.path = <<"logout">> /\ a.route # None
<1>1. /\ f # None /\ f.answered
      /\ jar' = Store(jar, host, a)
      /\ tabs' = tabs \/ tabs' = [tabs EXCEPT ![t] = shown]
      /\ flight' = [u \in Tabs |-> IF u = t THEN sent
                                   ELSE IF met(u) THEN [flight[u] EXCEPT !.since = TRUE] ELSE flight[u]]
      /\ out' \in {host, None, out}
      /\ late' \in {late \cup {host}, late \ {host}, late}
      /\ UNCHANGED <<conf, later, asks>>
  BY Zenon DEF Deliver
<1>2. /\ f \in Flight /\ f.req \in Request /\ f.req.url \in URL /\ host \in Hosts
      /\ f.meant \in {None} \cup [owner : Owner, path : SomePath]
  <2>1. f \in Flight /\ f.req \in Request /\ Asking(f.req, f.req.cookies)
    BY <1>1, TypeFacts DEF TypeInv
  <2> HIDE DEF f
  <2> QED BY <2>1, RequestFacts DEF Flight
<1>3. a \in Answer
  BY <1>1 DEF TypeInv, HasAnswer
<1>4. jar' \in Jar
  <2> HIDE DEF a, host
  <2> QED BY <1>1, <1>2, <1>3, StoreTyped DEF TypeOK, TypeInv
<1>5. shown \in Document
  <2> HIDE DEF f, a
  <2>1. /\ a.by \in {None} \cup Owner /\ a.base \in Path /\ a.form \in BOOLEAN
        /\ a.next \in NextURL
    BY <1>3 DEF Answer, NextURL
  <2>2. GatewayPage(f.req.url, a.form, a.next) \in Document
    BY <1>2, <2>1, PageTyped
  <2>3. a.by # None => [url |-> f.req.url, owner |-> a.by, base |-> a.base,
                        form |-> FALSE, next |-> None] \in Document
    BY <1>2, <2>1 DEF Document
  <2> QED BY <2>2, <2>3
<1>6. sent \in {None} \cup Flight /\ HasAnswer(sent)
  <2> HIDE DEF f, a
  <2>1. follows => Send(Follow(f.req, a, jar'), f.meant) \in Flight
    BY <1>2, <1>3, <1>4, FollowTyped, SendTyped
  <2>2. HasAnswer(Send(Follow(f.req, a, jar'), f.meant))
    BY DEF HasAnswer, Send
  <2> QED BY <2>1, <2>2 DEF HasAnswer
<1> HIDE DEF a, host, shown, sent, met, f
<1>7. ASSUME NEW u \in Tabs
      PROVE  flight'[u] \in {None} \cup Flight /\ HasAnswer(flight'[u])
  <2>1. flight[u] \in {None} \cup Flight /\ HasAnswer(flight[u])
    BY DEF TypeInv, TypeOK
  <2>2. CASE u = t
    BY <1>1, <1>6, <2>2
  <2>3. CASE u # t /\ met(u)
    <3>1. flight'[u] = [flight[u] EXCEPT !.since = TRUE] /\ flight[u] # None
      BY <1>1, <2>3 DEF met
    <3> QED BY <2>1, <3>1 DEF Flight, HasAnswer
  <2>4. CASE u # t /\ ~met(u)
    BY <1>1, <2>1, <2>4
  <2> QED BY <2>2, <2>3, <2>4
<1>8. flight' \in [Tabs -> {None} \cup Flight]
  <2>1. flight' = [u \in Tabs |-> flight'[u]]
    BY <1>1
  <2> QED BY <1>7, <2>1
<1>9. tabs' \in [Tabs -> Document]
  BY <1>1, <1>5 DEF TypeInv, TypeOK
<1>10. out' \in {None} \cup Hosts /\ late' \subseteq Hosts
  BY <1>1, <1>2 DEF TypeInv, TypeOK
<1> QED BY <1>1, <1>4, <1>7, <1>8, <1>9, <1>10 DEF TypeInv, TypeOK

LEMMA NextType == TypeInv /\ [Next]_vars => TypeInv'
<1> SUFFICES ASSUME TypeInv, [Next]_vars PROVE TypeInv'
  OBVIOUS
<1>1. ASSUME SessionEnds PROVE TypeInv'
  BY <1>1 DEF SessionEnds, TypeInv, TypeOK, Jar, HasAnswer
<1>2. ASSUME Reconfigure PROVE TypeInv'
  <2>1. /\ conf' \in later /\ later' \subseteq later
        /\ flight' = [t \in Tabs |-> IF flight[t] = None THEN None ELSE [flight[t] EXCEPT !.meant = None]]
        /\ UNCHANGED <<asks, jar, tabs, out, late>>
    BY <1>2 DEF Reconfigure
  <2>2. ASSUME NEW t \in Tabs
        PROVE  flight'[t] \in {None} \cup Flight /\ HasAnswer(flight'[t])
    <3>1. flight[t] \in {None} \cup Flight /\ HasAnswer(flight[t])
      BY DEF TypeInv, TypeOK
    <3>2. CASE flight[t] = None
      BY <2>1, <3>2 DEF HasAnswer
    <3>3. CASE flight[t] # None
      <4>1. flight'[t] = [flight[t] EXCEPT !.meant = None]
        BY <2>1, <3>3
      <4> QED BY <3>1, <3>3, <4>1 DEF Flight, HasAnswer
    <3> QED BY <3>2, <3>3
  <2>3. flight' \in [Tabs -> {None} \cup Flight]
    <3>1. flight' = [t \in Tabs |-> flight'[t]]
      BY <2>1
    <3> QED BY <2>2, <3>1
  <2> QED BY <2>1, <2>2, <2>3 DEF TypeInv, TypeOK
<1>3. ASSUME UNCHANGED vars PROVE TypeInv'
  BY <1>3 DEF vars, TypeInv, TypeOK, HasAnswer
<1> QED BY <1>1, <1>2, <1>3, BrowseType, RouteType, DeliverType DEF Next

(* The types, and an answer for every request that was answered: TypeInv   *)
(* holds in every state, whatever the handlers chose.                      *)
THEOREM TypeAlways == Spec => []TypeInv
<1> QED BY InitType, NextType, PTL DEF Spec

(* Every variable has its type: no path is ever empty, and every route     *)
(* cookie is the prefix of some service's pages.                           *)
THEOREM TypeCorrect == Spec => []TypeOK
<1>1. TypeInv => TypeOK
  BY DEF TypeInv
<1> QED BY <1>1, TypeAlways, PTL

-----------------------------------------------------------------------------
(* The records and functions that the steps change in part.                *)

FlightRecord(f) == f = [req |-> f.req, answered |-> f.answered, answer |-> f.answer,
                        meant |-> f.meant, since |-> f.since]

Shape ==
    /\ flight = [t \in Tabs |-> flight[t]]
    /\ \A t \in Tabs : flight[t] # None => FlightRecord(flight[t])
    /\ jar = [session |-> jar.session, routes |-> jar.routes,
              recent |-> jar.recent, backend |-> jar.backend]
    /\ jar.routes = [h \in Hosts |-> jar.routes[h]]
    /\ jar.recent = [h \in Hosts |-> jar.recent[h]]

LEMMA TypeShape == TypeInv => Shape
<1> SUFFICES ASSUME TypeInv PROVE Shape
  OBVIOUS
<1>1. \A t \in Tabs : flight[t] # None => FlightRecord(flight[t])
  BY DEF TypeInv, TypeOK, Flight, FlightRecord
<1>2. jar \in Jar /\ flight = [t \in Tabs |-> flight[t]]
  BY DEF TypeInv, TypeOK
<1> QED BY <1>1, <1>2 DEF Shape, Jar

-----------------------------------------------------------------------------
(* A request only ever reaches a service of the user of its session.       *)

LEMMA RoutedByRoute ==
    ASSUME Shape, [Next]_vars, NEW t \in Tabs, Routed(t)
    PROVE  flight'[t].answer \in Answers(flight[t].req)
<1>1. Waiting(t) /\ flight'[t] # None /\ flight'[t].answered
  BY DEF Routed
<1>2. ASSUME NEW u \in Tabs, Browse(u) PROVE FALSE
  <2>1. \E r : flight' = [flight EXCEPT ![u] = Send(r, None)]
    BY <1>2, Zenon DEF Browse
  <2>2. flight[u] = None
    BY <1>2 DEF Browse
  <2> QED BY <1>1, <2>1, <2>2 DEF Shape, Waiting
<1>3. ASSUME NEW u \in Tabs, Route(u) PROVE flight'[t].answer \in Answers(flight[t].req)
  <2>1. \E f : flight' = [flight EXCEPT ![u] = f] /\ f.answer \in Answers(flight[u].req)
    <3>1. PICK a \in Answers(flight[u].req) : flight' = [flight EXCEPT ![u] = Answered(@, a)]
      BY <1>3 DEF Route
    <3>2. Answered(flight[u], a).answer = a
      BY DEF Answered
    <3> QED BY <3>1, <3>2
  <2>2. CASE u = t
    BY <2>1, <2>2 DEF Shape
  <2>3. CASE u # t
    BY <1>1, <2>1, <2>3 DEF Shape, Waiting
  <2> QED BY <2>2, <2>3
<1>4. ASSUME NEW u \in Tabs, Deliver(u) PROVE FALSE
  <2>1. \/ t = u
        \/ flight'[t] = [flight[t] EXCEPT !.since = TRUE]
        \/ flight'[t] = flight[t]
    BY <1>4, Zenon DEF Deliver
  <2>2. flight[u] # None /\ flight[u].answered
    BY <1>4, Zenon DEF Deliver
  <2> QED BY <1>1, <2>1, <2>2 DEF Waiting, Shape, FlightRecord
<1>5. ASSUME Reconfigure PROVE FALSE
  BY <1>1, <1>5 DEF Reconfigure, Waiting, Shape, FlightRecord
<1>6. ASSUME UNCHANGED flight PROVE FALSE
  BY <1>1, <1>6 DEF Waiting
<1> QED BY <1>2, <1>3, <1>4, <1>5, <1>6 DEF Next, vars, SessionEnds

LEMMA RoutedAnswer ==
    ASSUME TypeInv, [Next]_vars, NEW t \in Tabs, Routed(t)
    PROVE  flight'[t].answer \in Answers(Asked(t)) /\ Asking(Asked(t), Asked(t).cookies)
<1>1. flight'[t].answer \in Answers(flight[t].req)
  BY TypeShape, RoutedByRoute
<1>2. Asking(flight[t].req, flight[t].req.cookies)
  BY TypeFacts DEF Routed, Waiting, TypeInv
<1> QED BY <1>1, <1>2 DEF Asked

(* Whoever's route cookies the browser still has, and whatever page a      *)
(* request comes from, it reaches a current service of the user of its     *)
(* session or none: OnlyOwnServices.                                       *)
THEOREM ReachesOwnServices == Spec => OnlyOwnServices
<1>1. ASSUME TypeInv, [Next]_vars
      PROVE  \A t \in Tabs : Routed(t) /\ By(t) # None =>
               /\ By(t).user = Asked(t).cookies.session
               /\ \E s \in conf[By(t).user].services : s.id = By(t).id
  <2> SUFFICES ASSUME NEW t \in Tabs, Routed(t), By(t) # None
               PROVE  /\ By(t).user = Asked(t).cookies.session
                      /\ \E s \in conf[By(t).user].services : s.id = By(t).id
    OBVIOUS
  <2> QED BY <1>1, RoutedAnswer, AnswerFacts DEF By
<1> QED BY <1>1, TypeAlways, PTL DEF Spec, OnlyOwnServices

(* Assets and API calls on bare paths stick to the service whose page      *)
(* issued them, whatever route cookies other tabs have left: StickToPage.  *)
THEOREM SticksToPage == Spec => StickToPage
<1>1. ASSUME TypeInv, [Next]_vars
      PROVE  \A t \in Tabs : Routed(t) =>
               LET r == Asked(t)
                   page == r.referer
                   m == FindService(conf, page.url.path)
               IN  /\ Bare(r) /\ ~barePathIsPage(r.url.path) /\ r.kind # "upgrade"
                   /\ page # None /\ page.url.host = Gateway
                   /\ Current(page.owner, r.cookies.session)
                   /\ m # None /\ OwnerOf(m) = page.owner
                   => By(t) = page.owner
  <2> SUFFICES ASSUME NEW t \in Tabs, Routed(t),
                      NEW r, r = Asked(t), NEW m, m = FindService(conf, r.referer.url.path),
                      Bare(r), ~barePathIsPage(r.url.path), r.kind # "upgrade",
                      r.referer # None, r.referer.url.host = Gateway,
                      Current(r.referer.owner, r.cookies.session),
                      m # None, OwnerOf(m) = r.referer.owner
               PROVE  By(t) = r.referer.owner
    OBVIOUS
  <2>1. flight'[t].answer \in Answers(r) /\ Asking(r, r.cookies)
    BY <1>1, RoutedAnswer
  <2>2. refererPath(r) = r.referer.url.path
    BY DEF refererPath, Bare
  <2>3. refererPath(r) # None
    <3>1. r.referer.url.path \in SomePath
      BY <2>1 DEF Asking, Request, Document, URL
    <3> QED BY <2>2, <3>1, ServicesAssumption DEF SomePath
  <2>4. m.user = r.cookies.session
    BY DEF OwnerOf, Current
  <2>5. flight'[t].answer.by = OwnerOf(m)
    BY <2>1, <2>2, <2>3, <2>4, Sticks
  <2> QED BY <2>5 DEF By
<1> QED BY <1>1, TypeAlways, PTL DEF Spec, StickToPage

(* A bare page path goes to the user's default service or to one that is   *)
(* declared root-absolute, never to one visited before: DefaultIsStable.   *)
THEOREM DefaultStays == Spec => DefaultIsStable
<1>1. ASSUME TypeInv, [Next]_vars
      PROVE  \A t \in Tabs : Routed(t) =>
               LET r == Asked(t)
                   user == r.cookies.session
                   default == ServiceByID(conf, user, conf[user].default)
               IN  /\ Bare(r) /\ barePathIsPage(r.url.path) /\ r.kind # "upgrade"
                   /\ r.url.path[1] # "api" /\ default # None
                   => /\ By(t) # None
                      /\ \/ By(t).id = default.id
                         \/ \E s \in conf[user].services : s.id = By(t).id /\ s.root
  <2> SUFFICES ASSUME NEW t \in Tabs, Routed(t),
                      NEW r, r = Asked(t),
                      NEW s, s = ServiceByID(conf, r.cookies.session, conf[r.cookies.session].default),
                      Bare(r), barePathIsPage(r.url.path), r.kind # "upgrade",
                      r.url.path[1] # "api", s # None
               PROVE  /\ By(t) # None
                      /\ \/ By(t).id = s.id
                         \/ \E x \in conf[r.cookies.session].services : x.id = By(t).id /\ x.root
    OBVIOUS
  <2>1. flight'[t].answer \in Answers(r) /\ Asking(r, r.cookies)
    BY <1>1, RoutedAnswer
  <2> QED BY <2>1, DefaultComes DEF By
<1> QED BY <1>1, TypeAlways, PTL DEF Spec, DefaultIsStable

-----------------------------------------------------------------------------
(* After a logout there are no route cookies.                              *)

Covers(routes, recent, host) ==
    jar.routes[host] \subseteq routes /\ (jar.recent[host] # None => recent)

(* A logout under way at a host where no route cookie has come since.      *)
Leaving(f) == f # None /\ f.req.url.path = <<"logout">> /\ ~f.since /\ f.req.url.host \in Hosts

(* What is under way: as long as no route cookie comes, a logout's request *)
(* and then its answer cover all the route cookies there are.              *)
Covered(f) ==
    LET host == f.req.url.host
    IN  /\ Leaving(f) /\ ~f.answered =>
             Covers(f.req.cookies.routes, f.req.cookies.recent # None, host)
        /\ f # None /\ f.answered /\ f.answer.logout =>
             /\ f.req.url.path = <<"logout">> /\ f.answer.route = None
             /\ Leaving(f) => Covers(f.answer.forget.routes, f.answer.forget.recent, host)

LogoutInv == LogoutForgets /\ \A t \in Tabs : Covered(flight[t])

LEMMA InitLogout == Init => LogoutInv
<1> SUFFICES ASSUME Init PROVE LogoutInv
  OBVIOUS
<1>1. out = None /\ late = {} /\ flight = [t \in Tabs |-> None]
  BY DEF Init
<1>2. PICK s \in Scenarios :
        jar = [session |-> s.session, routes |-> [h \in Hosts |-> {}],
               recent |-> [h \in Hosts |-> None], backend |-> {}]
  BY DEF Init
<1>3. \A h \in Hosts : jar.routes[h] = {} /\ jar.recent[h] = None
  BY <1>2
<1>4. LogoutForgets
  BY <1>3 DEF LogoutForgets
<1> QED BY <1>1, <1>4 DEF LogoutInv, Covered, Leaving

LEMMA BrowseLogout == ASSUME Shape, LogoutInv, NEW t \in Tabs, Browse(t) PROVE LogoutInv'
<1>1. UNCHANGED <<jar, out, late>>
  BY DEF Browse
<1>2. PICK r : /\ flight' = [flight EXCEPT ![t] = Send(r, None)]
               /\ r.cookies = CookieHeader(jar, r.url.host)
  <2> DEFINE page == tabs[t]
             host(a) == IF a.from \in Hosts THEN a.from ELSE page.url.host
             url(a) == [host |-> host(a), query |-> a.query,
                        path |-> IF a.from = "base" THEN page.base \o a.path ELSE a.path]
             req(a) == [url |-> url(a), kind |-> a.kind,
                        login |-> IF page.form THEN a.login ELSE None,
                        referer |-> IF a.from \in Hosts THEN None ELSE page,
                        next |-> IF a.kind = "form" THEN page.next ELSE None,
                        cookies |-> CookieHeader(jar, host(a))]
  <2>1. PICK a : flight' = [flight EXCEPT ![t] = Send(req(a), None)]
    BY Zenon DEF Browse
  <2>2. req(a).cookies = CookieHeader(jar, host(a)) /\ req(a).url = url(a) /\ url(a).host = host(a)
    OBVIOUS
  <2> HIDE DEF req, url, host
  <2> QED BY <2>1, <2>2
<1>3. LogoutForgets'
  BY <1>1 DEF LogoutInv, LogoutForgets
<1>4. ASSUME NEW u \in Tabs, u # t PROVE flight'[u] = flight[u]
  BY <1>2, <1>4 DEF Shape
<1>5. flight'[t] = Send(r, None)
  BY <1>2 DEF Shape
<1>6. /\ Send(r, None).req = r /\ ~Send(r, None).answered
      /\ r.cookies.routes = jar.routes[r.url.host] /\ r.cookies.recent = jar.recent[r.url.host]
  BY <1>2 DEF Send, CookieHeader
<1> QED BY <1>1, <1>3, <1>4, <1>5, <1>6 DEF LogoutInv, Covered, Leaving, Covers

LEMMA RouteLogout == ASSUME TypeInv, LogoutInv, NEW t \in Tabs, Route(t) PROVE LogoutInv'
<1> DEFINE handled(a) == Answered(flight[t], a)
<1>1. UNCHANGED <<jar, out, late>> /\ Waiting(t)
  BY DEF Route
<1>2. Shape /\ Asking(flight[t].req, flight[t].req.cookies)
  BY <1>1, TypeShape, TypeFacts DEF Waiting, TypeInv
<1>3. PICK a \in Answers(flight[t].req) : flight' = [flight EXCEPT ![t] = handled(a)]
  BY DEF Route
<1>4. LogoutForgets'
  BY <1>1 DEF LogoutInv, LogoutForgets
<1>5. ASSUME NEW u \in Tabs, u # t PROVE flight'[u] = flight[u]
  BY <1>3, <1>5, <1>2 DEF Shape
<1>6. flight'[t] = handled(a)
  BY <1>3, <1>2 DEF Shape
<1>7. a.logout => /\ flight[t].req.url.path = <<"logout">>
                  /\ a.forget = ClearRouteCookies(flight[t].req.cookies)
                  /\ a.route = None
  BY <1>2, AnswerFacts
<1>8. /\ handled(a).req.url = flight[t].req.url
      /\ handled(a).answered /\ handled(a).answer = a /\ handled(a).since = flight[t].since
  BY DEF Answered, Spent
<1> HIDE DEF handled
<1>9. ASSUME NEW u \in Tabs, u # t PROVE Covered(flight[u])'
  BY <1>1, <1>5, <1>9 DEF LogoutInv, Covered, Leaving, Covers
<1>10. Covered(flight[t])'
  <2> SUFFICES a.logout =>
                        /\ flight[t].req.url.path = <<"logout">> /\ a.route = None
                        /\ Leaving(flight[t]) =>
                             Covers(a.forget.routes, a.forget.recent, flight[t].req.url.host)
    BY <1>1, <1>6, <1>8 DEF Covered, Leaving, Covers, Waiting
  <2> QED BY <1>1, <1>7 DEF LogoutInv, Covered, Waiting, ClearRouteCookies
<1> QED BY <1>4, <1>9, <1>10 DEF LogoutInv

LEMMA SessionEndsLogout == ASSUME Shape, LogoutInv, SessionEnds PROVE LogoutInv'
<1>1. UNCHANGED <<flight, out, late>> /\ jar'.routes = jar.routes /\ jar'.recent = jar.recent
  BY DEF SessionEnds, Shape
<1> QED BY <1>1 DEF LogoutInv, LogoutForgets, Covered, Leaving, Covers

LEMMA ReconfigureLogout == ASSUME Shape, LogoutInv, Reconfigure PROVE LogoutInv'
<1>1. UNCHANGED <<jar, out, late>>
  BY DEF Reconfigure
<1>2. ASSUME NEW t \in Tabs
      PROVE  \/ flight[t] = None /\ flight'[t] = None
             \/ /\ flight[t] # None
                /\ flight'[t].req = flight[t].req /\ flight'[t].answer = flight[t].answer
                /\ flight'[t].answered = flight[t].answered
                /\ flight'[t].since = flight[t].since
  BY DEF Reconfigure, Shape, FlightRecord
<1>3. LogoutForgets'
  BY <1>1 DEF LogoutInv, LogoutForgets
<1> QED BY <1>1, <1>2, <1>3 DEF LogoutInv, Covered, Leaving, Covers

(* Cookies go in and out at one host; what is there afterwards.            *)
LEMMA StoreFacts ==
    ASSUME Shape, NEW host, NEW a, jar' = Store(jar, host, a)
    PROVE  /\ \A h \in Hosts \ {host} :
                jar'.routes[h] = jar.routes[h] /\ jar'.recent[h] = jar.recent[h]
           /\ host \in Hosts /\ a.route = None =>
                /\ jar'.routes[host] = jar.routes[host] \ a.forget.routes
                /\ jar'.recent[host] = IF a.forget.recent THEN None ELSE jar.recent[host]
<1>1. /\ jar'.routes = [jar.routes EXCEPT ![host] = (@ \ a.forget.routes) \cup ({a.route} \ {None})]
      /\ jar'.recent = [jar.recent EXCEPT ![host] =
                          IF a.route # None /\ a.recent THEN a.route
                          ELSE IF a.forget.recent THEN None ELSE @]
  BY DEF Store
<1> QED BY <1>1 DEF Shape

LEMMA DeliverLogout == ASSUME Shape, LogoutInv, NEW t \in Tabs, Deliver(t) PROVE LogoutInv'
<1> DEFINE f == flight[t]
           a == f.answer
           host == f.req.url.host
<1>1. /\ f # None /\ f.answered
      /\ jar' = Store(jar, host, a)
      /\ out' = IF a.logout THEN host ELSE IF a.login # None THEN None ELSE out
      /\ late' = IF a.route # None \/ (a.logout /\ f.since) THEN late \cup {host}
                 ELSE IF a.logout THEN late \ {host} ELSE late
  BY Zenon DEF Deliver
<1>2. flight'[t] = None \/ \E meant : flight'[t] = Send(Follow(f.req, a, jar'), meant)
  BY Zenon DEF Deliver
<1>3. ASSUME NEW u \in Tabs, u # t
      PROVE  IF flight[u] # None /\ flight[u].req.url.host = host
                /\ flight[u].req.url.path = <<"logout">> /\ a.route # None
             THEN flight'[u] = [flight[u] EXCEPT !.since = TRUE]
             ELSE flight'[u] = flight[u]
  BY <1>3, Zenon DEF Deliver
<1>4. a.logout => /\ f.req.url.path = <<"logout">> /\ a.route = None
                  /\ ~f.since /\ host \in Hosts => Covers(a.forget.routes, a.forget.recent, host)
  BY <1>1 DEF LogoutInv, Covered, Leaving
<1> HIDE DEF a, host
<1>5. \A h \in Hosts : h # host \/ a.route = None =>
        /\ jar'.routes[h] \subseteq jar.routes[h]
        /\ jar'.recent[h] \in {None, jar.recent[h]}
  BY <1>1, StoreFacts
<1>6. LogoutForgets'
  <2> SUFFICES ASSUME NEW h \in Hosts, out' = h, h \notin late'
               PROVE  jar'.routes[h] = {} /\ jar'.recent[h] = None
    BY DEF LogoutForgets
  <2>1. CASE a.logout
    <3>1. h = host /\ ~f.since /\ a.route = None
      BY <1>1, <1>4, <2>1
    <3> QED BY <1>1, <1>4, <2>1, <3>1, StoreFacts DEF Covers
  <2>2. CASE ~a.logout
    <3>1. out = h /\ (a.route = None \/ h # host)
      BY <1>1, <2>2, HostsAssumption
    <3>2. h \notin late
      BY <1>1, <2>2
    <3> QED BY <1>5, <3>1, <3>2 DEF LogoutInv, LogoutForgets
  <2> QED BY <2>1, <2>2
<1>7. Covered(flight[t])'
  <2>1. CASE flight'[t] = None
    BY <2>1 DEF Covered, Leaving
  <2>2. ASSUME NEW meant, flight'[t] = Send(Follow(f.req, a, jar'), meant)
        PROVE  Covered(flight[t])'
    <3>1. /\ ~flight'[t].answered
          /\ flight'[t].req.url = a.to
          /\ flight'[t].req.cookies = CookieHeader(jar', a.to.host)
      BY <2>2 DEF Send, Follow
    <3> QED BY <3>1 DEF Covered, Covers, CookieHeader
  <2> QED BY <1>2, <2>1, <2>2
<1>8. ASSUME NEW u \in Tabs, u # t PROVE Covered(flight[u])'
  <2>1. CASE flight'[u] = [flight[u] EXCEPT !.since = TRUE] /\ flight[u] # None
    <3>1. /\ flight'[u].since /\ flight'[u].req = flight[u].req
          /\ flight'[u].answered = flight[u].answered
          /\ flight'[u].answer = flight[u].answer
      BY <2>1 DEF Shape, FlightRecord
    <3> QED BY <2>1, <3>1 DEF LogoutInv, Covered, Leaving
  <2>2. CASE flight'[u] = flight[u] /\ Leaving(flight[u])
    <3>1. flight[u].req.url.host # host \/ a.route = None
      BY <1>3, <1>8, <2>2 DEF Leaving, Shape, FlightRecord
    <3>2. /\ jar'.routes[flight[u].req.url.host] \subseteq jar.routes[flight[u].req.url.host]
          /\ jar'.recent[flight[u].req.url.host] \in {None, jar.recent[flight[u].req.url.host]}
      BY <1>5, <2>2, <3>1 DEF Leaving
    <3> QED BY <2>2, <3>2 DEF LogoutInv, Covered, Covers, Leaving
  <2>3. CASE flight'[u] = flight[u] /\ ~Leaving(flight[u])
    BY <2>3 DEF LogoutInv, Covered, Leaving
  <2> QED BY <1>3, <1>8, <2>1, <2>2, <2>3
<1> QED BY <1>6, <1>7, <1>8 DEF LogoutInv

LEMMA NextLogout == TypeInv /\ LogoutInv /\ [Next]_vars => LogoutInv'
<1>1. ASSUME LogoutInv, UNCHANGED vars PROVE LogoutInv'
  BY <1>1 DEF vars, LogoutInv, LogoutForgets, Covered, Leaving, Covers
<1> QED
  BY <1>1, TypeShape, BrowseLogout, RouteLogout, DeliverLogout, SessionEndsLogout, ReconfigureLogout DEF Next

(* After a logout no route cookie leads anywhere: LogoutForgets.           *)
THEOREM ForgetsOnLogout == Spec => []LogoutForgets
<1>1. LogoutInv => LogoutForgets
  BY DEF LogoutInv
<1> QED BY <1>1, TypeAlways, InitLogout, NextLogout, PTL DEF Spec
===============================================================================
