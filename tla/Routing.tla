-------------------------------- MODULE Routing --------------------------------
(***************************************************************************)
(* internal/server/server.go: where the gateway sends a request, with what *)
(* the reverse proxy does to the answer, and the browser that follows it.  *)
(*                                                                         *)
(* One browser with several tabs.  A tab asks for something, the gateway   *)
(* routes the request by its host, its path, its Referer, its session and  *)
(* its route cookies, and the answer comes later: meanwhile other tabs set *)
(* cookies, log out or log in as somebody else, and services come and go.  *)
(*                                                                         *)
(* The handlers are operators on a request and the cookies that came with  *)
(* it.  They return an outcome, or None for `return false`.  A request     *)
(* reads the registry at one moment.  Tokens, expiry and refreshing of     *)
(* sessions are in Sessions: here a session is the name of its user.       *)
(***************************************************************************)
EXTENDS ReverseProxy

CONSTANTS
    Tabs,       \* tabs of the browser
    Gateway,    \* the gateway's own host
    Hosts,      \* that and the virtual hosts
    Scenarios   \* configurations, and what the browser may ask for

ASSUME HostsAssumption == Gateway \in Hosts /\ None \notin Hosts

VARIABLES
    conf,       \* the registry's snapshot
    later,      \* the configurations still to come
    asks,       \* what each tab may still ask for, once
    jar,        \* the browser's cookies
    tabs,       \* the document in each tab
    flight,     \* the request of each tab that is under way, or its answer
    out,        \* history: the host of the last logout, until the next login
    late        \* history: hosts where a route cookie has come since the
                \* request of the last logout was sent

vars == <<conf, later, asks, jar, tabs, flight, out, late>>

(* A URL.  `query` is "", "token" (with the backend's start token) or "q". *)
URL == [host : Hosts, path : SomePath, query : {"", "q", "token"}]

(* Navigations ("page", and "form" by POST), and what scripts do.          *)
Kinds == {"page", "form", "fetch", "post", "image", "upgrade"}

(* A thing to ask for: typed, or on the page, relative to its base or not. *)
(* `login` is the user that a login form names, with the right password.   *)
Ask == [path : SomePath, query : {"", "q"}, kind : Kinds, from : {"page", "base"} \cup Hosts,
        login : {None} \cup Users]

(* A document: where it was loaded from, whose it is (None: the gateway's) *)
(* and what its relative links resolve against.  `form`: it is a login     *)
(* form, that leads on to `next`.                                          *)
Owner == [user : Users, id : {s.id : s \in Services}]
Document == [url : URL, owner : {None} \cup Owner, base : Path,
             form : BOOLEAN, next : {None} \cup URL]

BackendCookie == [host : Hosts, path : SomePath, owner : Owner]
Routes == UNION {{<<"proxy">> \o s.path} \cup {<<"proxy", u>> \o s.path : u \in Users} : s \in Services}
Cookies == [session : {None} \cup Users, routes : SUBSET Routes, recent : {None} \cup Routes,
            backend : SUBSET BackendCookie]
Jar == [session : {None} \cup Users, routes : [Hosts -> SUBSET Routes],
        recent : [Hosts -> {None} \cup Routes], backend : SUBSET BackendCookie]

(* A request: `kind` stands for its method and headers, `next` is the next *)
(* parameter of /login, and `cookies` the Cookie header.                   *)
Request == [url : URL, kind : Kinds, referer : {None} \cup Document,
            next : {None} \cup URL, login : {None} \cup Users, cookies : Cookies]

ASSUME ScenariosAssumption ==
    Scenarios \subseteq [session : {None} \cup Users, conf : [Users -> Account],
                         later : SUBSET [Users -> Account], asks : [Tabs -> SUBSET Ask]]

ASSUME NoneAssumption ==
    /\ None \notin Owner
    /\ None \notin [is : {"forward"}, match : Match, mode : {"prefix", "asis", "vhost"}]

OwnerOf(m) == [user |-> m.user, id |-> m.service.id]

-----------------------------------------------------------------------------
(* The handlers.  k holds the cookies of request r, for its host.          *)

At(r, path, query) == [host |-> r.url.host, path |-> path, query |-> query]

Page(form, next) == [is |-> "page", form |-> form, next |-> next]
NotFound == Page(FALSE, None)
Redirect(url, next) == [is |-> "redirect", url |-> url, next |-> next]
(* `next` is a relative URL, which counts as one of the gateway's.         *)
LoginRedirect(r) == Redirect(At(r, <<"login">>, ""), [r.url EXCEPT !.host = Gateway])

(* proxyRequest, forwardAsIs and proxyVHost.                               *)
Forward(m, mode, r) ==
    IF r.kind = "upgrade" /\ ~m.service.websocket THEN Page(FALSE, None)
    ELSE [is |-> "forward", match |-> m, mode |-> mode]

refererPath(r) ==
    IF r.referer # None /\ r.referer.url.host = r.url.host THEN r.referer.url.path ELSE None
(* The Referer header as it is: browsers tell other hosts no path.         *)
Referer(r) == IF r.referer = None THEN None ELSE refererPath(r) ?? Root

handleRefererProxy(r, k) ==
    IF k.session = None \/ refererPath(r) = None THEN None
    ELSE LET m == matchRouteForUser(conf, refererPath(r), k.session)
         IN  IF m = None THEN None ELSE Forward(m, "asis", r)

handleRouteCookieProxy(r, k) ==
    LET route == GetRouteCookieForRequest(k, r.url.path, Referer(r))
        m == matchRouteForUser(conf, route, k.session)
    IN  IF route = None THEN None
        ELSE IF k.session = None THEN LoginRedirect(r)
        ELSE IF m = None THEN None ELSE Forward(m, "asis", r)

forwardToDefaultService(r, k) ==
    IF k.session = None THEN None
    ELSE LET s == ServiceByID(conf, k.session, conf[k.session].default)
         IN  IF s = None THEN None
             ELSE Forward([user |-> k.session, service |-> s, legacy |-> FALSE, rest |-> r.url.path],
                          "asis", r)

handleDefaultServicePage(r, k) ==
    IF barePathIsPage(r.url.path) THEN forwardToDefaultService(r, k) ELSE None

(* Mutant: a page of a service that has not opted in says nothing.         *)
matchRootAbsoluteReferer_Unflagged(r, k) ==
    LET p == refererPath(r)
        m == FindServiceForUser(conf, p, k.session)
    IN  IF p = None \/ p[1] # "proxy" \/ Len(p) < 2 THEN [match |-> None, canonical |-> FALSE]
        ELSE IF m # None /\ m.user = k.session /\ m.service.root
             THEN [match |-> m, canonical |-> TRUE]
             ELSE [match |-> None, canonical |-> FALSE]

(* The page's service if it has opted in; a page under /proxy/ decides.    *)
matchRootAbsoluteReferer(r, k) ==
    LET p == refererPath(r)
        m == FindServiceForUser(conf, p, k.session)
    IN  IF p = None \/ p[1] # "proxy" \/ Len(p) < 2 THEN [match |-> None, canonical |-> FALSE]
        ELSE [match |-> IF m # None /\ m.user = k.session /\ m.service.root THEN m ELSE None,
              canonical |-> TRUE]

handleRootAbsoluteService(r, k) ==
    LET page == matchRootAbsoluteReferer(r, k)
        route == GetRouteCookieForRequest(k, r.url.path, Referer(r))
        m == IF page.match # None \/ page.canonical \/ route = None THEN page.match
             ELSE matchRouteForUser(conf, route, k.session)
    IN  IF bestBareService(conf, k.session, r.url.path) # None THEN None
        ELSE IF m = None \/ ~m.service.root THEN None
        ELSE Forward(m, "asis", r)

(* redirectBareService, or forwardBareService when that would lose a body. *)
BareService(r, k) ==
    LET m == bestBareService(conf, k.session, r.url.path)
    IN  IF m = None THEN None
        ELSE IF r.kind \in {"post", "form"} THEN Forward(m, "prefix", r)
        ELSE Redirect(At(r, <<"proxy", k.session>> \o r.url.path, r.url.query), None)

handleProxy(r, k) ==
    LET m == FindService(conf, r.url.path)
        legacy == FindLegacyService(conf, r.url.path, k.session)
    IN  IF k.session = None THEN LoginRedirect(r)
        ELSE IF m # None THEN IF m.user = k.session THEN Forward(m, "prefix", r) ELSE NotFound
        ELSE IF legacy # None THEN Forward(legacy, "prefix", r) ELSE NotFound

handleProxyEscape(r, k) ==
    LET route == GetRouteCookieForRequest(k, None, refererPath(r))
    IN  IF r.url.query = "" \/ k.session = None \/ route = None THEN None
        ELSE IF ~IsPrefix(<<"proxy", k.session>>, route) \/ Len(route) < 3 THEN None
        ELSE Redirect(At(r, Trim(route) \o Root, r.url.query), None)

(* Where a login form may lead, for user or, with None, for anybody.       *)
validLoginNext(next, user) ==
    /\ next # None
    /\ \/ next.host = Gateway /\ next.path[1] = "proxy" /\ Len(next.path) > 1
       \/ /\ FindByHost(conf, next.host) # None
          /\ user = None \/ FindByHost(conf, next.host).user = user

handleLoginPage(r) == Page(TRUE, IF validLoginNext(r.next, None) THEN r.next ELSE None)

findBackendService(r, k) ==
    LET route == GetRouteCookieForRequest(k, r.url.path, refererPath(r))
        page == IF refererPath(r) = None THEN None
                ELSE matchRouteForUser(conf, refererPath(r), k.session)
    IN  page ?? (IF route = None THEN None ELSE matchRouteForUser(conf, route, k.session))

(* POST /login: for a backend when its form is on a page under /proxy/.    *)
handleBackendLogin(r, k) ==
    IF k.session = None THEN None
    ELSE LET m == findBackendService(r, k)
             ours == r.kind = "form" /\ ~(Referer(r) # None /\ Referer(r)[1] = "proxy")
         IN  IF m = None \/ ours THEN None ELSE Forward(m, "asis", r)

(* The right password of r.login, or a wrong one: then the form again.     *)
handleLogin(r) ==
    IF r.login = None THEN handleLoginPage(r)
    ELSE [is |-> "login", user |-> r.login,
          url |-> IF ~validLoginNext(r.next, r.login) THEN At(r, Root, "")
                  ELSE IF r.next.host = Gateway THEN At(r, r.next.path, r.next.query) ELSE r.next]

handleVirtualHost(r, k) ==
    LET m == FindByHost(conf, r.url.host)
    IN  IF m = None THEN None
        ELSE IF k.session = None
             THEN IF r.kind \in {"page", "form"} THEN Redirect([host |-> Gateway, path |-> <<"login">>, query |-> ""], r.url)
                  ELSE NotFound
        ELSE IF k.session # m.user THEN NotFound
        ELSE Forward([user |-> m.user, service |-> m.service, legacy |-> FALSE, rest |-> r.url.path],
                     "vhost", r)

-----------------------------------------------------------------------------
(* The mux.                                                                *)

(* Mutant: the last service visited comes before the default service.      *)
HandleBare_CookieFirst(r, k) ==
    LET body == r.kind \in {"post", "form"}
        mine == IF k.session = None THEN None
                ELSE BareService(r, k) ?? handleRootAbsoluteService(r, k)
    IN  IF k.session = None /\ ~body /\ barePathIsPage(r.url.path) THEN LoginRedirect(r)
        ELSE mine
          ?? handleRefererProxy(r, k)
          ?? handleRouteCookieProxy(r, k)
          ?? forwardToDefaultService(r, k)
          ?? NotFound

(* Paths that no handler of the gateway's own claims.                      *)
HandleBare(r, k) ==
    LET body == r.kind \in {"post", "form"}
        mine == IF k.session = None THEN None
                ELSE BareService(r, k) ?? handleRootAbsoluteService(r, k)
    IN  IF k.session = None /\ ~body /\ barePathIsPage(r.url.path) THEN LoginRedirect(r)
        ELSE mine
          ?? handleDefaultServicePage(r, k)
          ?? handleRefererProxy(r, k)
          ?? handleRouteCookieProxy(r, k)
          ?? forwardToDefaultService(r, k)
          ?? NotFound

(* /api/, except the gateway's own.                                        *)
HandleAPI(r, k) ==
    handleRefererProxy(r, k) ?? handleRouteCookieProxy(r, k) ?? forwardToDefaultService(r, k) ?? NotFound

HandleLogin(r, k) ==
    IF r.kind \in {"post", "form"} THEN handleBackendLogin(r, k) ?? handleLogin(r)
    ELSE IF k.session = None THEN handleLoginPage(r)
    ELSE handleRouteCookieProxy(r, k) ?? handleRefererProxy(r, k) ?? handleLoginPage(r)

(* The dashboard, or the login form.                                       *)
handleRoot(r, k) ==
    handleProxyEscape(r, k) ?? handleRefererProxy(r, k) ?? Page(k.session = None, None)

(* A POST logs out, a script's too; a GET asks for one.                    *)
handleLogout(r) == IF r.kind \in {"form", "post"} THEN [is |-> "logout"] ELSE NotFound

(* Pages of the gateway's that no backend is ever asked for.               *)
OwnPages == {<<"favicon.ico">>, <<"api", "services">>, <<"login", "2fa">>,
             <<"2fa", "setup">>, <<"2fa", "qr">>, <<"2fa", "disable">>}

(* The handlers of OwnPages, for accounts without a second factor.         *)
handleOwnPage(r, k) ==
    LET toLogin(next) == Redirect(At(r, <<"login">>, ""), next)
    IN  CASE r.url.path = <<"login", "2fa">> ->
                 toLogin(IF r.kind \in {"form", "post"} THEN r.next ELSE None)
          [] r.url.path \in {<<"2fa", "setup">>, <<"2fa", "disable">>} /\ k.session = None ->
                 toLogin(None)
          [] r.url.path = <<"2fa", "disable">> /\ k.session # None ->
                 Redirect(At(r, Root, ""), None)
          [] OTHER -> Page(FALSE, None)

(* net/http's ServeMux redirects a path with empty segments, and one that  *)
(* is registered only with a slash at its end.                             *)
Tidy(p) ==
    LET clean == Clean(p) IN IF Last(p) = "" /\ clean # Root THEN clean \o Root ELSE clean
MuxPath(p) ==
    LET tidy == Tidy(p) IN IF tidy \in {<<"proxy">>, <<"api">>} THEN tidy \o Root ELSE tidy

Mux(r, k) ==
    LET p == r.url.path
        tidy == MuxPath(p)
    IN  CASE tidy # p -> Redirect(At(r, tidy, r.url.query), None)
          [] p = Root -> handleRoot(r, k)
          [] p = <<"login">> -> HandleLogin(r, k)
          [] p = <<"logout">> -> handleLogout(r)
          [] p \in OwnPages -> handleOwnPage(r, k)
          [] tidy = p /\ p[1] = "proxy" -> handleProxy(r, k)
          [] tidy = p /\ p[1] = "api" /\ p \notin OwnPages -> HandleAPI(r, k)
          [] OTHER -> HandleBare(r, k)

Handler(r, k) == handleVirtualHost(r, k) ?? Mux(r, k)

-----------------------------------------------------------------------------
(* What comes back: `to` is a redirect's target and `next` its parameter,  *)
(* or that of a login form; `by` the service that has answered, for its    *)
(* path `path`, and `steady` if its redirect names it; the rest are the    *)
(* cookies that are set and cleared.                                       *)
Answer == [to : {None} \cup URL, next : {None} \cup URL, form : BOOLEAN,
           by : {None} \cup Owner, path : SomePath, base : Path, steady : BOOLEAN,
           route : {None} \cup Routes, recent : BOOLEAN, cookie : {None} \cup BackendCookie,
           login : {None} \cup Users, logout : BOOLEAN,
           forget : [routes : SUBSET Routes, recent : BOOLEAN]]

Nothing == [routes |-> {}, recent |-> FALSE]

(* NewReverseProxy, with a backend that may have redirects of its own.     *)
Backend(r, k, m, mode) ==
    LET rest == IF mode = "prefix" THEN m.rest ELSE r.url.path
        path == joinBackendPath(m.service.backend, rest)
        sent(to, at, cookie) ==
            [to |-> to, next |-> None, form |-> FALSE,
             by |-> OwnerOf(m), path |-> at, steady |-> mode # "asis",
             base |-> BaseForPath(IF mode = "prefix" THEN Prefix(m) ELSE <<>>, rest),
             route |-> IF mode = "vhost" THEN None ELSE Prefix(m),
             recent |-> mode # "vhost" /\ r.kind # "image",
             cookie |-> cookie, login |-> None, logout |-> FALSE, forget |-> Nothing]
        Location(p) == At(r, rewriteLocation(p, m, mode), "")
        known == m.service.guarded =>
                   \E c \in k.backend : c.owner = OwnerOf(m) /\ CookieMatches(c.path, r.url.path)
    IN  IF known
        THEN IF m.service.slash /\ Last(path) # ""
             THEN {sent(Location(path \o Root), path \o Root, None)}
             ELSE {sent(None, path, None)}
        ELSE {sent(None, path, None)}   \* 401: nothing to bootstrap with, or the wrong token
             \cup (IF shouldBootstrap(m, mode, r)
                   THEN {sent([r.url EXCEPT !.query = "token"], path, None)} ELSE {})
             \cup (IF r.url.query = "token"
                   THEN {sent(Location(path), path,
                              [host |-> r.url.host, owner |-> OwnerOf(m),
                               path |-> RewriteSetCookie(m.service.cookie, m, mode, r.url.path)])}
                   ELSE {})

(* The gateway's own answers.                                              *)
Reply(to, next, form, login, logout, forget) ==
    [to |-> to, next |-> next, form |-> form,
     by |-> None, path |-> Root, base |-> <<>>, steady |-> FALSE,
     route |-> None, recent |-> FALSE, cookie |-> None,
     login |-> login, logout |-> logout, forget |-> forget]

(* Mutant: the recent route alone is cleared.                              *)
ClearRouteCookies_Recent(k) == [routes |-> {}, recent |-> k.recent # None]

(* All that the request has shown.                                         *)
ClearRouteCookies(k) == [routes |-> k.routes, recent |-> k.recent # None]

Answers(r) ==
    LET k == r.cookies
        o == Handler(r, k)
    IN  CASE o.is = "forward" -> Backend(r, k, o.match, o.mode)
          [] o.is = "redirect" -> {Reply(o.url, o.next, FALSE, None, FALSE, Nothing)}
          [] o.is = "page" -> {Reply(None, o.next, o.form, None, FALSE, Nothing)}
          [] o.is = "login" -> {Reply(o.url, None, FALSE, o.user, FALSE, Nothing)}
          [] o.is = "logout" -> {Reply(At(r, Root, ""), None, FALSE, None, TRUE, ClearRouteCookies(k))}

-----------------------------------------------------------------------------
(* The browser and the gateway.                                            *)

(* Under way: a request, then its answer.  `meant` is where a backend has  *)
(* sent the browser, and `since` says that a route cookie has come while a *)
(* logout was under way.                                                   *)
Flight == [req : Request, answered : BOOLEAN, answer : {None} \cup Answer,
           meant : {None} \cup [owner : Owner, path : SomePath], since : BOOLEAN]

CookieHeader(j, host) ==
    [session |-> j.session, routes |-> j.routes[host], recent |-> j.recent[host],
     backend |-> {c \in j.backend : c.host = host}]

NoCookies == [session |-> None, routes |-> {}, recent |-> None, backend |-> {}]

GatewayPage(url, form, next) ==
    [url |-> url, owner |-> None, base |-> <<>>, form |-> form, next |-> next]

Send(r, meant) ==
    [req |-> r, answered |-> FALSE, answer |-> None, meant |-> meant, since |-> FALSE]

Init ==
    \E s \in Scenarios :
      /\ conf = s.conf /\ later = s.later /\ asks = s.asks
      /\ jar = [session |-> s.session, routes |-> [h \in Hosts |-> {}],
                recent |-> [h \in Hosts |-> None], backend |-> {}]
      /\ tabs = [t \in Tabs |-> GatewayPage([host |-> Gateway, path |-> Root, query |-> ""],
                                            s.session = None, None)]
      /\ flight = [t \in Tabs |-> None]
      /\ out = None /\ late = {}

(* What a page may send: a login form its user's name; the dashboard shows *)
(* icons and logs out; scripts and all other forms are on backends' pages. *)
Offers(page, a) ==
    \/ a.kind = "page"
    \/ a.kind = "form" /\ a.path = <<"login">> /\ page.form
    \/ a.kind = "form" /\ a.path = <<"logout">> /\ page.owner = None /\ ~page.form
    \/ a.kind = "image" /\ ~page.form
    \/ page.owner # None /\ (a.kind = "form" => a.path # <<"logout">>)

(* The browser asks for something in tab t.                                *)
Browse(t) ==
    /\ flight[t] = None
    /\ \E a \in asks[t] :
         LET page == tabs[t]
             host == IF a.from \in Hosts THEN a.from ELSE page.url.host
         IN  /\ IF a.from \in Hosts THEN a.kind = "page" ELSE Offers(page, a)
             /\ a.from = "base" => page.owner # None
             /\ flight' = [flight EXCEPT ![t] =
                  Send([url |-> [host |-> host, query |-> a.query,
                                 path |-> IF a.from = "base" THEN page.base \o a.path ELSE a.path],
                        kind |-> a.kind, login |-> IF page.form THEN a.login ELSE None,
                        referer |-> IF a.from \in Hosts THEN None ELSE page,
                        next |-> IF a.kind = "form" THEN page.next ELSE None,
                        cookies |-> CookieHeader(jar, host)], None)]
             /\ asks' = [asks EXCEPT ![t] = @ \ {a}]
    /\ UNCHANGED <<conf, later, jar, tabs, out, late>>

Waiting(t) == flight[t] # None /\ ~flight[t].answered

Spent(r) == [url |-> r.url, kind |-> r.kind, referer |-> r.referer,
             next |-> r.next, login |-> r.login, cookies |-> NoCookies]

(* The mux sends the request on before any handler sees it.                *)
Untidy(r) == FindByHost(conf, r.url.host) = None /\ MuxPath(r.url.path) # r.url.path

(* The request has its answer: its cookies have served their purpose.      *)
Answered(f, a) ==
    [req |-> Spent(f.req), answered |-> TRUE, answer |-> a, since |-> f.since,
     meant |-> IF a.to # None /\ a.steady THEN [owner |-> a.by, path |-> a.path]
               ELSE IF Untidy(f.req) THEN f.meant ELSE None]

(* The gateway handles the request, and a backend if it is forwarded.      *)
Route(t) ==
    /\ Waiting(t)
    /\ \E a \in Answers(flight[t].req) : flight' = [flight EXCEPT ![t] = Answered(@, a)]
    /\ UNCHANGED <<conf, later, asks, jar, tabs, out, late>>

(* What the browser does with a redirect: GET from now on.                 *)
Follow(r, a, j) ==
    [url |-> a.to, next |-> a.next, referer |-> r.referer, login |-> None,
     kind |-> CASE r.kind = "form" -> "page" [] r.kind = "post" -> "fetch" [] OTHER -> r.kind,
     cookies |-> CookieHeader(j, a.to.host)]

Store(j, host, a) ==
    [session |-> IF a.logout THEN None ELSE IF a.login # None THEN a.login ELSE j.session,
     routes |-> [j.routes EXCEPT ![host] = (@ \ a.forget.routes) \cup ({a.route} \ {None})],
     recent |-> [j.recent EXCEPT ![host] =
                   IF a.route # None /\ a.recent THEN a.route
                   ELSE IF a.forget.recent THEN None ELSE @],
     backend |-> j.backend \cup ({a.cookie} \ {None})]

(* The browser has the answer in tab t.                                    *)
Deliver(t) ==
    LET f == flight[t]
        a == f.answer
        host == f.req.url.host
        follows == a.to # None /\ f.req.kind # "upgrade"
    IN  /\ f # None /\ f.answered
        /\ jar' = Store(jar, host, a)
        /\ tabs' = IF follows \/ f.req.kind \notin {"page", "form"} THEN tabs
                   ELSE [tabs EXCEPT ![t] =
                           IF a.by = None THEN GatewayPage(f.req.url, a.form, a.next)
                           ELSE [url |-> f.req.url, owner |-> a.by, base |-> a.base,
                                 form |-> FALSE, next |-> None]]
        /\ flight' =
             [u \in Tabs |->
                IF u = t
                THEN IF follows
                     THEN Send(Follow(f.req, a, jar'), f.meant)
                     ELSE None
                ELSE IF flight[u] # None /\ flight[u].req.url.host = host
                        /\ flight[u].req.url.path = <<"logout">> /\ a.route # None
                     THEN [flight[u] EXCEPT !.since = TRUE]
                     ELSE flight[u]]
        /\ out' = IF a.logout THEN host ELSE IF a.login # None THEN None ELSE out
        /\ late' = IF a.route # None \/ (a.logout /\ f.since) THEN late \cup {host}
                   ELSE IF a.logout THEN late \ {host} ELSE late
        /\ UNCHANGED <<conf, later, asks>>

(* The session runs out, or its user's password changes.                   *)
SessionEnds ==
    /\ jar.session # None
    /\ jar' = [jar EXCEPT !.session = None]
    /\ UNCHANGED <<conf, later, asks, tabs, flight, out, late>>

(* Services are added, changed and removed.                                *)
Reconfigure ==
    /\ \E c \in later : conf' = c /\ later' = later \ {c}
    /\ flight' = [t \in Tabs |-> IF flight[t] = None THEN None ELSE [flight[t] EXCEPT !.meant = None]]
    /\ UNCHANGED <<asks, jar, tabs, out, late>>

Next ==
    \/ \E t \in Tabs : Browse(t) \/ Route(t) \/ Deliver(t)
    \/ SessionEnds
    \/ Reconfigure

(* Requests are answered, and answers arrive.  The former is weak fairness *)
(* of Route(t), with its ENABLED written out: every request has an answer. *)
Handled(t) == []<>~Waiting(t) \/ []<><<Route(t)>>_vars

Spec == Init /\ [][Next]_vars /\ \A t \in Tabs : Handled(t) /\ WF_vars(Deliver(t))

-----------------------------------------------------------------------------
(* Properties.                                                             *)

(* Type correctness.  Every route cookie is the prefix of some service's   *)
(* pages, and no path is ever empty.                                       *)
TypeOK ==
    /\ conf \in [Users -> Account] /\ later \subseteq [Users -> Account]
    /\ asks \in [Tabs -> SUBSET Ask]
    /\ jar \in Jar
    /\ tabs \in [Tabs -> Document]
    /\ flight \in [Tabs -> {None} \cup Flight]
    /\ out \in {None} \cup Hosts /\ late \subseteq Hosts

(* Tab t's request has just been handled: the request, and what came.      *)
Routed(t) == Waiting(t) /\ flight'[t] # None /\ flight'[t].answered
Asked(t) == flight[t].req
By(t) == flight'[t].answer.by

(* Whatever the path, the host, the Referer and the route cookies say, a   *)
(* request only ever reaches a service that the user of its session has    *)
(* now: neither another user's nor one that has been removed.              *)
OnlyOwnServices ==
    [][\A t \in Tabs : Routed(t) /\ By(t) # None =>
         /\ By(t).user = Asked(t).cookies.session
         /\ \E s \in conf[By(t).user].services : s.id = By(t).id]_vars

Current(owner, user) ==
    owner # None /\ owner.user = user /\ ServiceByID(conf, user, owner.id) # None

(* Neither under /proxy/ nor one of the gateway's own, nor of a service's  *)
(* own path, and one that the mux leaves alone; and no service has taken   *)
(* the gateway's own host.                                                 *)
Bare(r) ==
    /\ r.url.host = Gateway /\ FindByHost(conf, Gateway) = None
    /\ MuxPath(r.url.path) = r.url.path /\ r.url.path[1] # "proxy"
    /\ r.url.path \notin {Root, <<"login">>, <<"logout">>} \cup OwnPages
    /\ r.cookies.session # None
    /\ bestBareService(conf, r.cookies.session, r.url.path) = None

(* Assets and API calls stick to the page that issued them: what a page    *)
(* under /proxy/ asks for at a bare path goes to that page's service,      *)
(* whichever other services, in other tabs, have been visited since, and   *)
(* even if the route cookies are gone or belong to somebody else.          *)
StickToPage ==
    [][\A t \in Tabs : Routed(t) =>
         LET r == Asked(t)
             page == r.referer
             m == FindService(conf, page.url.path)
         IN  /\ Bare(r) /\ ~barePathIsPage(r.url.path) /\ r.kind # "upgrade"
             /\ page # None /\ page.url.host = Gateway
             /\ Current(page.owner, r.cookies.session)
             /\ m # None /\ OwnerOf(m) = page.owner
             => By(t) = page.owner]_vars

(* A bare path that looks like a page goes to the user's default service,  *)
(* whichever service was visited last.  Only a service that has opted in   *)
(* (root_absolute) comes before it, from its own page or by its cookie.    *)
DefaultIsStable ==
    [][\A t \in Tabs : Routed(t) =>
         LET r == Asked(t)
             user == r.cookies.session
             default == ServiceByID(conf, user, conf[user].default)
         IN  /\ Bare(r) /\ barePathIsPage(r.url.path) /\ r.kind # "upgrade"
             /\ r.url.path[1] # "api" /\ default # None
             => /\ By(t) # None
                /\ \/ By(t).id = default.id
                   \/ \E s \in conf[user].services : s.id = By(t).id /\ s.root]_vars

(* After a logout the browser holds no route cookie of that host, so that  *)
(* no bare path leads to a service by them, until somebody logs in: unless *)
(* an answer that the gateway sent before has brought one back.            *)
LogoutForgets ==
    \A host \in Hosts : out = host /\ host \notin late =>
      jar.routes[host] = {} /\ jar.recent[host] = None

(* A backend that knows no path without a slash at its end, behind a       *)
(* backend_path, which takes the slash away; and one whose start token     *)
(* earns a cookie for a path of its own, to which the browser does not go. *)
Awkward(s) ==
    \/ s.backend \notin {<<>>, Root} /\ s.slash
    \/ s.guarded /\ s.cookie # Root

(* A page of the backend's own that looks like one of the gateway's:       *)
(* rewriteLocation takes a redirect there for one that already has its     *)
(* prefix, and leaves it alone.                                            *)
Alike(path, host) == path[1] = "proxy" /\ Len(path) > 1 /\ FindByHost(conf, host) = None

(* A backend's redirect to one of its own pages brings the browser to that *)
(* very page of that very service, at once or after the mux has tidied the *)
(* path: what rewriteLocation adds and strips is what the next request     *)
(* strips and adds.  A page of its own under /proxy/ has no way back.      *)
RedirectsReturn ==
    [][\A t \in Tabs : Routed(t) /\ flight[t].meant # None =>
         LET meant == flight[t].meant
         IN  \/ Untidy(Asked(t))
             \/ Asked(t).cookies.session # meant.owner.user
             \/ Alike(meant.path, Asked(t).url.host)
             \/ Awkward(ServiceByID(conf, meant.owner.user, meant.owner.id))
             \/ By(t) = meant.owner /\ flight'[t].answer.path = meant.path]_vars

(* A browser that follows redirects comes to an end: neither the bootstrap *)
(* nor the detours by login, bare paths and lost prefixes go in circles.   *)
NavigationEnds ==
    \A t \in Tabs : flight[t] # None ~>
      flight[t] = None \/ \E u \in Users : \E s \in conf[u].services : Awkward(s)
===============================================================================
