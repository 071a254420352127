----------------------------- MODULE ReverseProxy ------------------------------
(***************************************************************************)
(* internal/proxy: what becomes of paths, redirects and cookies between    *)
(* the browser and a backend.  Pure operators, on the paths of RouteTable. *)
(*                                                                         *)
(* A request is forwarded in one of three modes: "prefix" for the pages    *)
(* under /proxy/, with the prefix taken off; "asis" for bare paths; and    *)
(* "vhost" for a host of the service's own.                                *)
(***************************************************************************)
EXTENDS RouteTable

(* The directory of a document, against which its relative links resolve.  *)
BaseForPath(prefix, rest) == Front(Trim(prefix) \o rest)

(* path.Join and path.Clean: no empty segments.                            *)
Clean(p) ==
    LET kept[i \in 0..Len(p)] ==
          IF i = 0 THEN <<>> ELSE IF p[i] = "" THEN kept[i - 1] ELSE Append(kept[i - 1], p[i])
    IN  IF kept[Len(p)] = <<>> THEN Root ELSE kept[Len(p)]

(* /app/index.html stands for its directory, except at the service's root. *)
FileLike(backend) == Last(backend) \in Files

(* The backend's path for what the browser asks of the service.            *)
joinBackendPath(backend, rest) ==
    IF backend \in {<<>>, Root} THEN rest
    ELSE IF rest = Root THEN Clean(backend)
    ELSE Clean((IF FileLike(backend) THEN Front(backend) ELSE backend) \o rest)

(* Mutant: only the very directory is taken off.                           *)
stripBackendPath_WholeOnly(location, backend) ==
    IF location = Trim(backend) THEN Root ELSE location

(* Mutant: nothing is left of the backend path itself, not even a slash.   *)
stripBackendPath_Empty(location, backend) ==
    LET base == IF FileLike(backend) THEN Front(backend) ELSE Trim(backend)
    IN  IF backend \in {<<>>, Root} THEN location
        ELSE IF location = backend THEN <<>>
        ELSE IF base # <<>> /\ IsPrefix(base, location) THEN Rest(base, location)
        ELSE location

(* The converse, for a redirect of the backend.                            *)
stripBackendPath(location, backend) ==
    LET base == IF FileLike(backend) THEN Front(backend) ELSE Trim(backend)
    IN  IF backend \in {<<>>, Root} THEN location
        ELSE IF location = backend THEN Root
        ELSE IF base # <<>> /\ IsPrefix(base, location) THEN Rest(base, location)
        ELSE location

(* A redirect to a path of the backend's, as the browser gets it.          *)
rewriteLocation(location, m, mode) ==
    IF Len(location) > 1 /\ location[1] = "proxy" THEN location
    ELSE LET path == stripBackendPath(location, m.service.backend)
         IN  IF mode = "prefix" THEN Prefix(m) \o path ELSE path

(* The Path of a backend's cookie; at is the path the browser has asked.   *)
RewriteSetCookie(path, m, mode, at) ==
    IF mode # "vhost" /\ at[1] = "proxy"
    THEN Trim(Prefix(m)) \o path
    ELSE path

(* Mutant: whether the request has carried the token does not matter.      *)
shouldBootstrap_Again(m, mode, r) ==
    /\ m.service.guarded
    /\ r.kind = "page"
    /\ mode = "prefix" => r.url.path[1] = "proxy"

(* The backend's 401 becomes a redirect with the token.                    *)
shouldBootstrap(m, mode, r) ==
    /\ m.service.guarded
    /\ r.kind = "page"
    /\ mode = "prefix" => r.url.path[1] = "proxy"
    /\ r.url.query # "token"

(* The browser sends a cookie of this Path with a request for p.           *)
CookieMatches(path, p) == IsPrefix(Trim(path), p) /\ (Len(p) > Len(Trim(path)) \/ path = p)
===============================================================================
