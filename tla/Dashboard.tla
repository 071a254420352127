------------------------------- MODULE Dashboard -------------------------------
(***************************************************************************)
(* internal/api/api.go: the dashboard's requests, with the registry they   *)
(* read and reload, the `goprox` commands and an operator's editor, which  *)
(* write the same files, and ScanLoop.                                     *)
(*                                                                         *)
(* Each request is a goroutine: it checks the session against the login    *)
(* cache, looks the account up, validates the host name on the snapshot,   *)
(* edits the file, reloads the registry and answers from it.  The edit is  *)
(* one step (ConfigLock); all the rest interleaves.                        *)
(*                                                                         *)
(* Sessions are young, so that refreshSession has nothing to do (Sessions  *)
(* models it).  A request names one host name at most, and whatever else   *)
(* it may be refused for is `Refuse`.                                      *)
(***************************************************************************)
EXTENDS Registry

CONSTANTS
    Scenarios,  \* what the program starts with and what is asked of it
    Managed,    \* accounts that `goprox` commands or an operator work on
    MaxClock    \* bound: ticks of the file system's clock

VARIABLES
    req,       \* the request of each goroutine
    edited,    \* the version it has written, or 0
    writes,    \* versions written
    admin,     \* commands and edits by hand still to come
    clock,     \* the file system's clock, in ticks of its timestamps
    last,      \* mtime of the last version of each account
    reused,    \* history: accounts with two versions of one mtime
    behind,    \* history: accounts whose file was not what HostOwners saw
    overlap,   \* history: someone held an older version when this was edited
    gone       \* history: the account was removed during the request

history == <<reused, behind, overlap, gone>>
vars == <<registryVars, req, edited, writes, admin, clock, last, history>>

Kinds == {"list", "add", "update", "delete", "layout"}
Claiming == {"add", "update"}
Ask == [kind : Kinds, user : Users, id : ServiceIDs \cup {None}, host : Hosts \cup {None}]
(* `session` is the password (its version) the session cookie was signed   *)
(* for; `current`, whether that was the account's when the request began.  *)
Request == [ask : Ask, session : Nat, current : BOOLEAN]

ASSUME ManagedAssumption == Managed \subseteq Users
(* The services of each account at the start, what the requests ask for,   *)
(* and bounds: how many commands and edits by hand there are, how many     *)
(* reads fail and how often scanEvery passes between two scans.            *)
ASSUME ScenariosAssumption ==
    Scenarios \subseteq [start : [Users -> (SUBSET Service) \cup {None}],
                         asks : [Requests -> Ask],
                         commands : Nat, faults : Nat, lapses : Nat]


Asked(r) == IF r.host = None THEN {} ELSE {r.host}

(* Worker w has read u's file (or its absence from the directory) and will *)
(* put what it read into the snapshot.                                     *)
Holds(w, u) ==
    \/ pc[w] = "load" /\ u \notin todo[w]
    \/ w \in Requests /\ pc[w] = "insert" /\ req[w].ask.user = u
InHand(w, u) == IF pc[w] = "load" THEN found[w][u] ELSE got[w]

-----------------------------------------------------------------------------
(* ValidateVHosts has let the gateway start.                               *)
Init ==
    /\ \E scenario \in Scenarios :
         /\ files = [u \in Users |->
                       IF scenario.start[u] = None THEN None
                       ELSE [ver |-> 0, mtime |-> 0, password |-> 0, services |-> scenario.start[u]]]
         /\ admin = scenario.commands
         /\ faults = scenario.faults
         /\ lapses = scenario.lapses
         /\ req = [t \in Requests |-> [ask |-> scenario.asks[t], session |-> 0, current |-> FALSE]]
    /\ ValidateHosts(files)
    /\ RegistryInit
    /\ edited = [t \in Requests |-> 0]
    /\ writes = 0
    /\ clock = 0
    /\ last = [u \in Users |-> 0]
    /\ reused = {}
    /\ behind = [t \in Requests |-> {}]
    /\ overlap = [t \in Requests |-> FALSE]
    /\ gone = [t \in Requests |-> FALSE]

(* A new version of u's file, in this tick or a later one.                 *)
Publish(u, password, services) ==
    /\ writes' = writes + 1
    /\ \E now \in {clock, clock + 1} \cap (0..MaxClock) :
         /\ clock' = now
         /\ last' = [last EXCEPT ![u] = now]
         /\ files' = [files EXCEPT ![u] = [ver |-> writes + 1, mtime |-> now,
                                           password |-> password, services |-> services]]
         /\ reused' = IF now = last[u] THEN reused \cup {u} ELSE reused
    /\ behind' = [t \in Requests |-> IF pc[t] = "edit" THEN behind[t] \cup {u} ELSE behind[t]]

(* A request of a browser that logged in at the start or just now.         *)
Begin(t) ==
    /\ Goto(t, "start", "stat")
    /\ LET u == req[t].ask.user IN
       \E session \in {0} \cup {files[v].password : v \in {x \in {u} : files[x] # None}} :
         req' = [req EXCEPT ![t] =
                   [ask |-> req[t].ask, session |-> session,
                    current |-> files[u] # None /\ session = files[u].password]]
    /\ UNCHANGED <<files, edited, writes, admin, clock, last, history>>
    /\ UNCHANGED <<snapshot, cache, scanning, lookups, bounds>>

(* requireSession: the session is of the password in the login config.     *)
SessionValid(t) == got[t] # None /\ got[t].password = req[t].session

Unauthorized(t) ==
    /\ Goto(t, "session", "done")
    /\ ~SessionValid(t)
    /\ got' = [got EXCEPT ![t] = None]
    /\ UNCHANGED <<files, snapshot, cache, scanning, key, bounds>>

(* A body or field that will not do, a file that is not writable, an edit  *)
(* that fails: no such service, no file, lock time-out, I/O error.         *)
Refuse(t) ==
    /\ \E p \in {"session", "validate", "edit"} : Goto(t, p, "done")
    /\ got' = [got EXCEPT ![t] = None]
    /\ UNCHANGED <<files, snapshot, cache, scanning, key, bounds>>

(* GetUser: handleListServices answers with the account, others go on to   *)
(* validate a host name or to edit; after the edit, they answer.           *)
FindUser(t) ==
    LET a == req[t].ask
        next == IF a.kind = "list" THEN "done" ELSE IF a.host # None THEN "validate" ELSE "edit"
    IN  \/ /\ edited[t] = 0
           /\ pc[t] = "session" => SessionValid(t)
           /\ GetUser(t, a.user, "session", next, "missing")
        \/ edited[t] # 0 /\ GetUser(t, a.user, "answer", "done", "done")

(* Mutant: HostOwners asks the routable index.                             *)
OtherOwners_Routable(a) ==
    {o \in {hosts[a.host]} \ {None} : ~(o.user = a.user /\ o.service.id = a.id)}

(* Others' claims of the host, as HostOwners sees them.                    *)
OtherOwners(a) ==
    {o \in Owners(users, a.host) : ~(o.user = a.user /\ o.service.id = a.id)}

(* validateHostnames: HostOwners, on the snapshot.                         *)
ValidateHostnames(t) ==
    \/ EnsureFresh(t, "validate", "owners") /\ UNCHANGED history
    \/ /\ Ready(t, "validate", "owners")
       /\ pc' = [pc EXCEPT ![t] = IF OtherOwners(req[t].ask) = {} THEN "edit" ELSE "done"]
       /\ behind' = [behind EXCEPT ![t] = {v \in Users : users[v] # files[v]}]
       /\ UNCHANGED <<files, snapshot, cache, scanning, lookups, bounds, reused, overlap, gone>>

(* What the edit may leave of u's services; nothing when it is an error.   *)
After(a, services) ==
    LET others == {s \in services : s.id # a.id}
        names == IF a.host = None THEN {} ELSE {a.host}
        Free == \A s \in others : s.hosts \cap names = {}
    IN  CASE a.kind = "add" ->
               {services \cup {[id |-> id, hosts |-> names]} :
                  id \in {i \in ServiceIDs : Free /\ \A s \in services : s.id # i}}
          [] a.kind = "update" ->
               {others \cup {[s EXCEPT !.hosts = names]} : s \in {x \in services : Free /\ x.id = a.id}}
          [] a.kind = "delete" -> {others : s \in {x \in services : x.id = a.id}}
          [] OTHER -> {services}

(* handleUpdateService and handleUpdateLayout answer from the registry.    *)
Afterwards(a) == IF a.kind \in {"update", "layout"} THEN "answer" ELSE "done"

(* Mutant: the registry is left to the next scan.                          *)
Edit_NoReload(t) ==
    LET u == req[t].ask.user IN
    /\ Goto(t, "edit", Afterwards(req[t].ask))
    /\ files[u] # None
    /\ \E services \in After(req[t].ask, files[u].services) :
         Publish(u, files[u].password, services)
    /\ edited' = [edited EXCEPT ![t] = writes + 1]
    /\ got' = [got EXCEPT ![t] = None]
    /\ overlap' = [overlap EXCEPT ![t] = \E w \in Workers \ {t} : Holds(w, u)]
    /\ UNCHANGED <<snapshot, cache, scanning, key, bounds, admin, gone>>

(* AddService, UpdateService, RemoveService or UpdateServicesLayout, and   *)
(* on to Reload.                                                           *)
Edit(t) ==
    LET u == req[t].ask.user IN
    /\ Goto(t, "edit", "list")
    /\ files[u] # None
    /\ \E services \in After(req[t].ask, files[u].services) :
         Publish(u, files[u].password, services)
    /\ edited' = [edited EXCEPT ![t] = writes + 1]
    /\ got' = [got EXCEPT ![t] = None]
    /\ back' = [back EXCEPT ![t] = Afterwards(req[t].ask)]
    /\ overlap' = [overlap EXCEPT ![t] = \E w \in Workers \ {t} : Holds(w, u)]
    /\ UNCHANGED <<snapshot, cache, todo, found, key, bounds, admin, gone>>

Handle(t) ==
    /\ \/ /\ \/ GetUserConfigForLogin(t, req[t].ask.user, "session")
             \/ Unauthorized(t)
             \/ Refuse(t)
             \/ FindUser(t)
          /\ UNCHANGED <<edited, writes, admin, clock, last, history>>
       \/ ValidateHostnames(t) /\ UNCHANGED <<edited, writes, admin, clock, last>>
       \/ Edit(t)
    /\ UNCHANGED req

-----------------------------------------------------------------------------
(* `goprox user`.                                                          *)
CreateUserConfig(u) ==
    /\ files[u] = None
    /\ Publish(u, writes + 1, {})
    /\ UNCHANGED gone

(* `goprox passwd`.                                                        *)
UpdatePasswordHash(u) ==
    /\ files[u] # None
    /\ Publish(u, writes + 1, files[u].services)
    /\ UNCHANGED gone

(* `goprox del`.                                                           *)
RemoveUserConfig(u) ==
    /\ files[u] # None
    /\ files' = [files EXCEPT ![u] = None]
    /\ behind' = [t \in Requests |-> IF pc[t] = "edit" THEN behind[t] \cup {u} ELSE behind[t]]
    /\ gone' = [t \in Requests |-> gone[t] \/ req[t].ask.user = u]
    /\ UNCHANGED <<writes, clock, last, reused>>

(* An operator gives a service host names, whoever else may have them.     *)
EditByHand(u) ==
    /\ files[u] # None
    /\ \E id \in ServiceIDs, names \in SUBSET Hosts :
         Publish(u, files[u].password,
                 {s \in files[u].services : s.id # id} \cup {[id |-> id, hosts |-> names]})
    /\ UNCHANGED gone

Admin(u) ==
    /\ admin > 0
    /\ admin' = admin - 1
    /\ CreateUserConfig(u) \/ UpdatePasswordHash(u) \/ RemoveUserConfig(u) \/ EditByHand(u)
    /\ UNCHANGED <<snapshot, cache, pc, scanning, lookups, bounds, req, edited, overlap>>

(* A step of the goroutine w, after a request has come in.                 *)
Step(w) ==
    \/ w \in Requests /\ Handle(w)
    \/ /\ Reload(w) \/ (w = Scanner /\ ScanTick)
       /\ UNCHANGED <<req, edited, writes, admin, clock, last, history>>

Next ==
    \/ \E t \in Requests : Begin(t)
    \/ \E w \in Workers : Step(w)
    \/ Lapse /\ UNCHANGED <<req, edited, writes, admin, clock, last, history>>
    \/ \E u \in Managed : Admin(u)

(* Goroutines that can run do, ScanLoop's ticker among them; nobody has to *)
(* send a request or edit a file.                                          *)
Fairness == \A w \in Workers : WF_vars(Step(w))

Spec == Init /\ [][Next]_vars /\ Fairness

-----------------------------------------------------------------------------
Places == {"sleep", "start", "stat", "parse", "store", "session", "lookup", "miss", "insert",
           "validate", "owners", "edit", "list", "load", "answer", "missing", "done"}

TypeOK ==
    /\ files \in [Users -> Config \cup {None}]
    /\ users \in [Users -> Config \cup {None}]
    /\ hosts \in [Hosts -> Target \cup {None}]
    /\ fresh \in BOOLEAN
    /\ cache \in [Users -> [mtime : Nat, cfg : Config] \cup {None}]
    /\ pc \in [Workers -> Places]
    /\ todo \in [Workers -> SUBSET Users]
    /\ found \in [Workers -> [Users -> Config \cup {None}]]
    /\ back \in [Workers -> Places]
    /\ got \in [Requests -> Config \cup {None}]
    /\ key \in [Requests -> Nat]
    /\ faults \in Nat /\ lapses \in Nat /\ failed \in BOOLEAN
    /\ ondemand \in SUBSET Users
    /\ req \in [Requests -> Request]
    /\ edited \in [Requests -> Nat]
    /\ writes \in Nat /\ admin \in Nat /\ clock \in Nat
    /\ last \in [Users -> Nat]
    /\ reused \in SUBSET Users
    /\ behind \in [Requests -> SUBSET Users]
    /\ overlap \in [Requests -> BOOLEAN]
    /\ gone \in [Requests -> BOOLEAN]

(* Past requireSession: the places where a handler does its work.          *)
Admitted == {"lookup", "miss", "insert", "validate", "owners", "edit", "list", "load", "answer"}

(* GetUserConfigForLogin: "password, TOTP and service edits are observed   *)
(* on the next lookup".  A request that begins after a password change is  *)
(* not admitted with a session of an older password, whatever other        *)
(* requests were storing into the login cache meanwhile - unless the       *)
(* account's file was ever written twice within a tick of its timestamps.  *)
RevokedRefused ==
    \A t \in Requests :
        pc[t] \in Admitted /\ req[t].ask.user \notin reused => req[t].current

(* A handler edits and then answers from the registry it has reloaded: the *)
(* answer shows the edit, although scans and lookups of others replace the *)
(* snapshot at any time - unless one of them had read the file before the  *)
(* edit and finished after it, or a read failed.                           *)
AnswerShowsEdit ==
    \A t \in Requests :
        pc[t] = "done" /\ edited[t] # 0 /\ got[t] # None /\ ~overlap[t] /\ ~failed =>
            got[t].ver >= edited[t]

(* An account that exists is found, known to the snapshot or not: a        *)
(* request is told "user config not found" only when the account is        *)
(* removed while it runs, or a read fails.                                 *)
KnownUserFound ==
    \A t \in Requests : pc[t] = "missing" => gone[t] \/ failed

(* FindByHost routes a host to a service of the snapshot, to one that no   *)
(* other service of the snapshot contends with; records that loadUser      *)
(* added since the swap are not in the index yet.                          *)
IndexAgrees ==
    \A h \in Hosts :
        hosts[h] # None =>
            \A o \in Owners(users, h) \cup {hosts[h]} :
                o.user \notin ondemand => o = hosts[h] /\ o \in Owners(users, h)

(* validateHostnames: a request takes a host that another service has only *)
(* if that service's file was not, or is no longer, what HostOwners saw.   *)
ClaimsChecked ==
    [][\A t \in Requests :
         edited'[t] # edited[t] /\ req[t].ask.host # None =>
             \A o \in Owners(files, req[t].ask.host) :
                 \/ o.user = req[t].ask.user /\ o.service.id = req[t].ask.id
                 \/ o.user \in behind[t]]_vars

(* Once the snapshot has an account's latest version, and nobody is about  *)
(* to put an older one into it, it keeps it until the file changes: no     *)
(* removed account comes back, no old services.                            *)
StaysCurrent ==
    [][\A u \in Users :
         /\ users[u] = files[u]
         /\ \A w \in Workers : Holds(w, u) => InHand(w, u) = files[u]
         /\ files'[u] = files[u]
         => users'[u] = users[u]]_vars

(* When files stop changing, the gateway's snapshot comes to be that of    *)
(* the files and stays so, however scans and lookups overlapped before.    *)
Converges == <>[](users = files /\ hosts = buildHostIndex(files))
===============================================================================
