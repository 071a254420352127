--------------------------- MODULE Dashboard_proofs ----------------------------
(***************************************************************************)
(* Proofs about Dashboard, for any accounts, host names and requests.      *)
(***************************************************************************)
EXTENDS Dashboard, TLAPS

(* The files of the accounts, or copies of them.                           *)
Records == [Users -> Config \cup {None}]

-----------------------------------------------------------------------------
(* Types.                                                                  *)

LEMMA Updated ==
    ASSUME NEW A, NEW B, NEW f \in [A -> B], NEW a \in A, NEW b \in B
    PROVE  [f EXCEPT ![a] = b] \in [A -> B]
OBVIOUS

LEMMA OwnersAreTargets ==
    ASSUME NEW records \in Records, NEW h
    PROVE  Owners(records, h) \subseteq Target
BY DEF Owners, Target, Config, Records

LEMMA IndexType ==
    ASSUME NEW records \in Records
    PROVE  buildHostIndex(records) \in [Hosts -> Target \cup {None}]
<1>1. ASSUME NEW h \in Hosts
      PROVE  (IF \E o \in Owners(records, h) : Owners(records, h) = {o}
              THEN CHOOSE o \in Owners(records, h) : TRUE ELSE None) \in Target \cup {None}
  <2> DEFINE S == Owners(records, h)
  <2>1. S \subseteq Target
    BY OwnersAreTargets
  <2> HIDE DEF S
  <2>2. (IF \E o \in S : S = {o} THEN CHOOSE o \in S : TRUE ELSE None) \in Target \cup {None}
    BY <2>1
  <2> QED BY <2>2 DEF S
<1> QED BY <1>1 DEF buildHostIndex

LEMMA AfterType ==
    ASSUME NEW a \in Ask, NEW services \in SUBSET Service, NEW after \in After(a, services)
    PROVE  after \in SUBSET Service
<1> DEFINE others == {s \in services : s.id # a.id}
           names == IF a.host = None THEN {} ELSE {a.host}
<1>1. others \subseteq Service /\ names \subseteq Hosts
  BY DEF Ask
<1>2. \A id \in ServiceIDs : [id |-> id, hosts |-> names] \in Service
  BY <1>1 DEF Service
<1>3. \A s \in Service : [s EXCEPT !.hosts = names] \in Service
  BY <1>1 DEF Service
<1>4. \/ after = services
      \/ \E id \in ServiceIDs : after = services \cup {[id |-> id, hosts |-> names]}
      \/ \E s \in services : after = others \cup {[s EXCEPT !.hosts = names]}
      \/ after = others
  BY DEF After
<1> HIDE DEF others, names
<1> QED BY <1>1, <1>2, <1>3, <1>4

LEMMA InitType == Init => TypeOK
<1> SUFFICES ASSUME Init PROVE TypeOK
  OBVIOUS
<1>1. PICK scenario \in Scenarios :
         /\ files = [u \in Users |->
                       IF scenario.start[u] = None THEN None
                       ELSE [ver |-> 0, mtime |-> 0, password |-> 0, services |-> scenario.start[u]]]
         /\ admin = scenario.commands
         /\ faults = scenario.faults
         /\ lapses = scenario.lapses
         /\ req = [t \in Requests |-> [ask |-> scenario.asks[t], session |-> 0, current |-> FALSE]]
  BY DEF Init
<1>2. /\ scenario.start \in [Users -> (SUBSET Service) \cup {None}]
      /\ scenario.asks \in [Requests -> Ask]
      /\ scenario.commands \in Nat /\ scenario.faults \in Nat /\ scenario.lapses \in Nat
  BY ScenariosAssumption
<1>3. files \in Records
  BY <1>1, <1>2 DEF Config, Records
<1>4. req \in [Requests -> Request]
  BY <1>1, <1>2 DEF Request
<1>5. hosts \in [Hosts -> Target \cup {None}]
  BY <1>3, IndexType DEF Init, RegistryInit
<1> QED BY <1>1, <1>2, <1>3, <1>4, <1>5
        DEF Init, RegistryInit, TypeOK, Records, NoUsers, Workers, Places

(* What is about to go into the login cache is there.                      *)
Stored == \A t \in Requests : pc[t] = "store" => got[t] # None

LEMMA BoundsType ==
    ASSUME TypeOK, Fault \/ UNCHANGED bounds
    PROVE  faults' \in Nat /\ lapses' \in Nat /\ failed' \in BOOLEAN
<1>1. CASE Fault
  BY <1>1 DEF Fault, TypeOK
<1>2. CASE UNCHANGED bounds
  BY <1>2 DEF bounds, TypeOK
<1> QED BY <1>1, <1>2

(* The steps of Reload.                                                    *)
LEMMA ReloadType ==
    ASSUME TypeOK, NEW w \in Workers, Reload(w),
           UNCHANGED <<req, edited, writes, admin, clock, last, history>>
    PROVE  TypeOK'
<1> USE DEF TypeOK, Goto, Places, snapshot, scanning, lookups, bounds, history
<1>1. CASE ReadDir(w)
  BY <1>1 DEF ReadDir, NoUsers
<1>2. CASE ReadDirFails(w)
  BY <1>2 DEF ReadDirFails, Fault
<1>3. CASE LoadNext(w)
  <2>1. PICK u \in todo[w] : /\ todo' = [todo EXCEPT ![w] = todo[w] \ {u}]
                             /\ found' \in {found, [found EXCEPT ![w][u] = files[u]]}
    BY <1>3 DEF LoadNext
  <2>2. faults' \in Nat /\ lapses' \in Nat /\ failed' \in BOOLEAN
    <3>1. Fault \/ UNCHANGED bounds
      BY <1>3 DEF LoadNext
    <3> QED BY <3>1, BoundsType
  <2>3. [found[w] EXCEPT ![u] = files[u]] \in [Users -> Config \cup {None}]
    OBVIOUS
  <2>4. found' \in [Workers -> [Users -> Config \cup {None}]]
    BY <2>1, <2>3
  <2> QED BY <1>3, <2>1, <2>2, <2>4 DEF LoadNext
<1>4. CASE Swap(w)
  <2>1. hosts' \in [Hosts -> Target \cup {None}]
    BY <1>4, IndexType DEF Swap, Records
  <2> QED BY <1>4, <2>1 DEF Swap, NoUsers
<1> QED BY <1>1, <1>2, <1>3, <1>4 DEF Reload


(* The registry's part of a request.                                       *)
LEMMA GetUserType ==
    ASSUME TypeOK, NEW t \in Requests, NEW u \in Users,
           NEW from, NEW to \in Places, NEW missing \in Places,
           GetUser(t, u, from, to, missing),
           UNCHANGED <<req, edited, writes, admin, clock, last, history>>
    PROVE  TypeOK'
<1> USE DEF TypeOK, Goto, snapshot, scanning, lookups, bounds, history
<1>1. CASE EnsureFresh(t, from, "lookup")
  BY <1>1 DEF EnsureFresh, Places, Workers
<1>2. CASE Lookup(t, u, from, to)
  BY <1>2 DEF Lookup, Places, Workers
<1>3. CASE LoadUser(t, u, missing)
  <2>1. faults' \in Nat /\ lapses' \in Nat /\ failed' \in BOOLEAN
    <3>1. Fault \/ UNCHANGED bounds
      BY <1>3 DEF LoadUser
    <3> QED BY <3>1, BoundsType
  <2>2. got' \in [Requests -> Config \cup {None}] /\ pc' \in [Workers -> Places]
    <3>1. /\ got' = got \/ got' = [got EXCEPT ![t] = files[u]]
          /\ pc' = [pc EXCEPT ![t] = missing] \/ pc' = [pc EXCEPT ![t] = "insert"]
      BY <1>3, Zenon DEF LoadUser
    <3>2. files[u] \in Config \cup {None} /\ t \in Workers /\ "insert" \in Places
      BY DEF Places, Workers
    <3>3. got \in [Requests -> Config \cup {None}] /\ pc \in [Workers -> Places]
      OBVIOUS
    <3> HIDE DEF TypeOK, Goto, snapshot, scanning, lookups, bounds, history
    <3>4. got' \in [Requests -> Config \cup {None}]
      BY <3>1, <3>2, <3>3, Updated, Zenon
    <3>5. pc' \in [Workers -> Places]
      BY <3>1, <3>2, <3>3, Updated, Zenon
    <3> QED BY <3>4, <3>5
  <2> QED BY <1>3, <2>1, <2>2 DEF LoadUser
<1>4. CASE Insert(t, u, to)
  BY <1>4 DEF Insert, Workers
<1> QED BY <1>1, <1>2, <1>3, <1>4 DEF GetUser

LEMMA LoginConfigType ==
    ASSUME TypeOK, Stored, NEW t \in Requests, NEW u \in Users,
           GetUserConfigForLogin(t, u, "session"),
           UNCHANGED <<req, edited, writes, admin, clock, last, history>>
    PROVE  TypeOK'
<1> USE DEF TypeOK, Goto, snapshot, scanning, lookups, bounds, history, Workers
<1>1. files[u] # None => files[u].mtime \in Nat
  BY DEF Config
<1>2. CASE StatLogin(t, u, "session")
  BY <1>1, <1>2 DEF StatLogin, Places
<1>3. CASE ParseLogin(t, u, "session")
  <2>1. faults' \in Nat /\ lapses' \in Nat /\ failed' \in BOOLEAN
    <3>1. Fault \/ UNCHANGED bounds
      BY <1>3 DEF ParseLogin
    <3> QED BY <3>1, BoundsType
  <2>2. /\ got' \in [Requests -> Config \cup {None}] /\ key' \in [Requests -> Nat]
        /\ pc' \in [Workers -> Places]
    <3>1. /\ got' = [got EXCEPT ![t] = None] \/ got' = [got EXCEPT ![t] = files[u]]
          /\ key' = key \/ key' = [key EXCEPT ![t] = 0]
          /\ pc' = [pc EXCEPT ![t] = "session"] \/ pc' = [pc EXCEPT ![t] = "store"]
      BY <1>3, Zenon DEF ParseLogin
    <3>2. /\ files[u] \in Config \cup {None} /\ None \in Config \cup {None}
          /\ t \in Workers /\ "session" \in Places /\ "store" \in Places /\ 0 \in Nat
      BY DEF Places
    <3>3. /\ got \in [Requests -> Config \cup {None}] /\ pc \in [Workers -> Places]
          /\ key \in [Requests -> Nat]
      OBVIOUS
    <3> HIDE DEF TypeOK, Goto, snapshot, scanning, lookups, bounds, history, Workers
    <3>4. got' \in [Requests -> Config \cup {None}]
      BY <3>1, <3>2, <3>3, Updated, Zenon
    <3>5. pc' \in [Workers -> Places]
      BY <3>1, <3>2, <3>3, Updated, Zenon
    <3>6. key' \in [Requests -> Nat]
      BY <3>1, <3>2, <3>3, Updated, Zenon
    <3> QED BY <3>4, <3>5, <3>6
  <2> QED BY <1>3, <2>1, <2>2 DEF ParseLogin
<1>4. CASE StoreLogin(t, u, "session")
  <2>1. got[t] \in Config
    BY <1>4 DEF StoreLogin, Stored
  <2> QED BY <1>4, <2>1 DEF StoreLogin, Places
<1> QED BY <1>2, <1>3, <1>4 DEF GetUserConfigForLogin


(* A new version of a file.                                                *)
LEMMA PublishType ==
    ASSUME TypeOK, NEW u \in Users, NEW password \in Nat, NEW services \in SUBSET Service,
           Publish(u, password, services)
    PROVE  /\ files' \in [Users -> Config \cup {None}] /\ writes' \in Nat /\ clock' \in Nat
           /\ last' \in [Users -> Nat] /\ reused' \in SUBSET Users
           /\ behind' \in [Requests -> SUBSET Users]
<1>1. PICK now \in 0..MaxClock :
        /\ clock' = now
        /\ last' = [last EXCEPT ![u] = now]
        /\ files' = [files EXCEPT ![u] = [ver |-> writes + 1, mtime |-> now,
                                          password |-> password, services |-> services]]
        /\ reused' = IF now = last[u] THEN reused \cup {u} ELSE reused
  BY DEF Publish
<1>2. now \in Nat /\ writes' = writes + 1 /\ writes \in Nat
  BY DEF Publish, TypeOK
<1>3. [ver |-> writes + 1, mtime |-> now, password |-> password, services |-> services] \in Config
  BY <1>2 DEF Config
<1>4. files' \in [Users -> Config \cup {None}]
  BY <1>1, <1>3 DEF TypeOK
<1>5. behind' \in [Requests -> SUBSET Users]
  BY DEF Publish, TypeOK
<1> QED BY <1>1, <1>2, <1>4, <1>5 DEF TypeOK

LEMMA EditType ==
    ASSUME TypeOK, NEW t \in Requests, Edit(t), UNCHANGED req
    PROVE  TypeOK'
<1> DEFINE a == req[t].ask
           u == a.user
<1>1. a \in Ask /\ u \in Users
  BY DEF TypeOK, Request, Ask
<1>2. files[u] # None /\ files[u] \in Config
  BY <1>1 DEF Edit, TypeOK
<1>3. PICK services \in After(a, files[u].services) : Publish(u, files[u].password, services)
  BY DEF Edit
<1>4. services \in SUBSET Service
  BY <1>1, <1>2, AfterType DEF Config
<1>5. /\ files' \in [Users -> Config \cup {None}] /\ writes' \in Nat /\ clock' \in Nat
      /\ last' \in [Users -> Nat] /\ reused' \in SUBSET Users
      /\ behind' \in [Requests -> SUBSET Users]
  BY <1>1, <1>2, <1>3, <1>4, PublishType DEF Config
<1>6. /\ pc' = [pc EXCEPT ![t] = "list"]
      /\ edited' = [edited EXCEPT ![t] = writes + 1]
      /\ got' = [got EXCEPT ![t] = None]
      /\ back' = [back EXCEPT ![t] = Afterwards(a)]
      /\ overlap' = [overlap EXCEPT ![t] = \E w \in Workers \ {t} : Holds(w, u)]
      /\ UNCHANGED <<users, hosts, fresh, ondemand, cache, todo, found, key,
                     faults, lapses, failed, admin, gone>>
  BY Zenon DEF Edit, Goto, snapshot, bounds
<1>7. Afterwards(a) \in Places
  BY DEF Afterwards, Places
<1>8. overlap' \in [Requests -> BOOLEAN]
  BY <1>6, Zenon DEF TypeOK
<1>9. /\ pc' \in [Workers -> Places] /\ back' \in [Workers -> Places]
      /\ got' \in [Requests -> Config \cup {None}] /\ edited' \in [Requests -> Nat]
  <2>1. /\ t \in Workers /\ "list" \in Places /\ writes + 1 \in Nat
        /\ pc \in [Workers -> Places] /\ back \in [Workers -> Places]
        /\ got \in [Requests -> Config \cup {None}] /\ edited \in [Requests -> Nat]
    BY DEF TypeOK, Places, Workers
  <2> HIDE DEF a, u
  <2>2. pc' \in [Workers -> Places]
    BY <1>6, <2>1, Updated, Zenon
  <2>3. back' \in [Workers -> Places]
    BY <1>6, <1>7, <2>1, Updated, Zenon
  <2>4. got' \in [Requests -> Config \cup {None}]
    <3>1. None \in Config \cup {None}
      OBVIOUS
    <3> QED BY <1>6, <2>1, <3>1, Updated, Zenon
  <2>5. edited' \in [Requests -> Nat]
    BY <1>6, <2>1, Updated, Zenon
  <2> QED BY <2>2, <2>3, <2>4, <2>5
<1>10. UNCHANGED <<users, hosts, fresh, ondemand, cache, todo, found, key,
                   faults, lapses, failed, admin, gone, req>>
  BY <1>6
<1> HIDE DEF a, u
<1> QED BY <1>5, <1>8, <1>9, <1>10 DEF TypeOK

LEMMA FindUserType ==
    ASSUME TypeOK, NEW t \in Requests, FindUser(t),
           UNCHANGED <<req, edited, writes, admin, clock, last, history>>
    PROVE  TypeOK'
<1> DEFINE a == req[t].ask
           next == IF a.kind = "list" THEN "done" ELSE IF a.host # None THEN "validate" ELSE "edit"
<1>1. a.user \in Users
  BY DEF TypeOK, Request, Ask
<1>2. \/ GetUser(t, a.user, "session", next, "missing")
      \/ GetUser(t, a.user, "answer", "done", "done")
  BY Zenon DEF FindUser
<1>3. next \in Places /\ "missing" \in Places /\ "done" \in Places
  BY DEF Places
<1> HIDE DEF a, next
<1> QED BY <1>1, <1>2, <1>3, GetUserType

LEMMA HandleType ==
    ASSUME TypeOK, Stored, NEW t \in Requests, Handle(t)
    PROVE  TypeOK'
<1>1. UNCHANGED req
  BY DEF Handle
<1>2. CASE Edit(t)
  BY <1>1, <1>2, EditType
<1>3. CASE ValidateHostnames(t) /\ UNCHANGED <<edited, writes, admin, clock, last>>
  <2>1. CASE EnsureFresh(t, "validate", "owners") /\ UNCHANGED history
    BY <1>1, <1>3, <2>1 DEF EnsureFresh, TypeOK, Places, Goto, Workers,
       snapshot, scanning, lookups, bounds, history
  <2>2. CASE ~(EnsureFresh(t, "validate", "owners") /\ UNCHANGED history)
    <3>1. /\ pc' = [pc EXCEPT ![t] = IF OtherOwners(req[t].ask) = {} THEN "edit" ELSE "done"]
          /\ behind' = [behind EXCEPT ![t] = {v \in Users : users[v] # files[v]}]
          /\ UNCHANGED <<files, snapshot, cache, scanning, lookups, bounds, reused, overlap, gone>>
      BY <1>3, <2>2, Zenon DEF ValidateHostnames
    <3> QED BY <1>1, <1>3, <3>1
            DEF TypeOK, Places, snapshot, scanning, lookups, bounds
  <2> QED BY <2>1, <2>2
<1>4. CASE UNCHANGED <<edited, writes, admin, clock, last, history>>
  <2>1. CASE GetUserConfigForLogin(t, req[t].ask.user, "session")
    <3>1. req[t].ask.user \in Users
      BY DEF TypeOK, Request, Ask
    <3> QED BY <1>1, <1>4, <2>1, <3>1, LoginConfigType
  <2>2. CASE Unauthorized(t)
    BY <1>1, <1>4, <2>2 DEF Unauthorized, TypeOK, Goto, Places, snapshot, scanning, bounds, history
  <2>3. CASE Refuse(t)
    BY <1>1, <1>4, <2>3 DEF Refuse, TypeOK, Goto, Places, snapshot, scanning, bounds, history
  <2>4. CASE FindUser(t)
    BY <1>1, <1>4, <2>4, FindUserType
  <2>5. CASE ValidateHostnames(t)
    BY <1>3, <1>4, <2>5
  <2>6. CASE Edit(t)
    BY <1>2, <2>6
  <2> QED BY <2>1, <2>2, <2>3, <2>4, <2>5, <2>6 DEF Handle
<1> QED BY <1>2, <1>3, <1>4 DEF Handle

LEMMA AdminType ==
    ASSUME TypeOK, NEW u \in Users, Admin(u)
    PROVE  TypeOK'
<1>1. /\ admin' = admin - 1 /\ admin' \in Nat
      /\ UNCHANGED <<snapshot, cache, pc, scanning, lookups, bounds, req, edited, overlap>>
  BY DEF Admin, TypeOK
<1>2. files[u] # None => files[u].password \in Nat /\ files[u].services \in SUBSET Service
  BY DEF TypeOK, Config
<1>3. CASE RemoveUserConfig(u)
  BY <1>1, <1>3 DEF RemoveUserConfig, TypeOK, snapshot, scanning, lookups, bounds
<1>4. CASE (\E password \in Nat, services \in SUBSET Service : Publish(u, password, services))
           /\ UNCHANGED gone
  <2>1. /\ files' \in [Users -> Config \cup {None}] /\ writes' \in Nat /\ clock' \in Nat
        /\ last' \in [Users -> Nat] /\ reused' \in SUBSET Users
        /\ behind' \in [Requests -> SUBSET Users]
    BY <1>4, PublishType
  <2> QED BY <1>1, <1>4, <2>1 DEF TypeOK, snapshot, scanning, lookups, bounds
<1>5. CASE CreateUserConfig(u)
  <2>1. writes + 1 \in Nat /\ {} \in SUBSET Service
    BY DEF TypeOK
  <2>2. Publish(u, writes + 1, {}) /\ UNCHANGED gone
    BY <1>5 DEF CreateUserConfig
  <2> QED BY <1>4, <2>1, <2>2
<1>6. CASE UpdatePasswordHash(u)
  <2>1. writes + 1 \in Nat /\ files[u].services \in SUBSET Service
    BY <1>2, <1>6 DEF UpdatePasswordHash, TypeOK
  <2>2. Publish(u, writes + 1, files[u].services) /\ UNCHANGED gone
    BY <1>6 DEF UpdatePasswordHash
  <2> QED BY <1>4, <2>1, <2>2
<1>7. CASE EditByHand(u)
  <2>1. PICK id \in ServiceIDs, names \in SUBSET Hosts :
          Publish(u, files[u].password,
                  {s \in files[u].services : s.id # id} \cup {[id |-> id, hosts |-> names]})
    BY <1>7 DEF EditByHand
  <2>2. {s \in files[u].services : s.id # id} \cup {[id |-> id, hosts |-> names]} \in SUBSET Service
    BY <1>2, <1>7 DEF EditByHand, Service
  <2> QED BY <1>2, <1>4, <1>7, <2>1, <2>2 DEF EditByHand
<1> QED BY <1>3, <1>5, <1>6, <1>7 DEF Admin

-----------------------------------------------------------------------------
(* What the steps of a request, and of Reload, do to the control and to    *)
(* what others see; the invariants below rest on these facts alone.        *)
Returns == {"lookup", "owners", "answer", "done"}

(* Apart(t): a step of t leaves the other workers where they are.          *)
Apart(t) ==
    /\ \A w \in Workers \ {t} : pc'[w] = pc[w]
    /\ \A s \in Requests \ {t} : got'[s] = got[s] /\ key'[s] = key[s] /\ back'[s] = back[s]
    /\ back'[t] \in Returns \cup {back[t]}
    /\ failed => failed'

Fetched(t, u) ==
    \/ UNCHANGED <<users, hosts, ondemand>>
    \/ /\ pc[t] = "insert"
       /\ users' = [users EXCEPT ![u] = got[t]]
       /\ ondemand' = ondemand \cup {u}
       /\ hosts' = hosts

Cached(t, u) ==
    \/ cache' = cache
    \/ cache' = [cache EXCEPT ![u] = None]
    \/ pc[t] = "store" /\ cache' = [cache EXCEPT ![u] = [mtime |-> key[t], cfg |-> got[t]]]

(* On the way to requireSession, and past it.                              *)
LoginMoved(t, u) ==
    \/ pc[t] = "stat" /\ pc'[t] = "session" /\ got'[t] = None
    \/ /\ pc[t] = "stat" /\ pc'[t] = "session"
       /\ files[u] # None /\ cache[u] # None /\ cache[u].mtime = files[u].mtime
       /\ got'[t] = cache[u].cfg
    \/ /\ pc[t] = "stat" /\ pc'[t] = "parse"
       /\ files[u] # None /\ key'[t] = files[u].mtime
    \/ pc[t] = "parse" /\ pc'[t] = "session" /\ got'[t] = None
    \/ /\ pc[t] = "parse" /\ pc'[t] = "store"
       /\ files[u] # None /\ got'[t] = files[u] /\ key'[t] = key[t]
    \/ pc[t] = "store" /\ pc'[t] = "session" /\ got'[t] = got[t]

Inside(t) == pc[t] \in Admitted \/ (pc[t] = "session" /\ SessionValid(t))

WorkMoved(t, a) ==
    /\ Inside(t)
    /\ \/ pc'[t] \in Admitted \ {"edit"}
       \/ pc'[t] = "missing" /\ (files[a.user] = None \/ failed')
       \/ pc'[t] = "edit" /\ a.host = None
       \/ /\ pc'[t] = "edit" /\ OtherOwners(a) = {}
          /\ behind'[t] = {v \in Users : users[v] # files[v]}

Moved(t, a) ==
    /\ Apart(t)
    /\ Fetched(t, a.user)
    /\ Cached(t, a.user)
    /\ pc[t] # "start"
    /\ pc'[t] = "done" \/ LoginMoved(t, a.user) \/ WorkMoved(t, a)

LEMMA LoginMoves ==
    ASSUME TypeOK, NEW t \in Requests, NEW u \in Users,
           GetUserConfigForLogin(t, u, "session")
    PROVE  Apart(t) /\ Fetched(t, u) /\ Cached(t, u) /\ LoginMoved(t, u)
<1>1. /\ pc \in [Workers -> Places] /\ got \in [Requests -> Config \cup {None}]
      /\ key \in [Requests -> Nat] /\ t \in Workers
  BY DEF TypeOK, Workers
<1> USE DEF Goto, snapshot, scanning, lookups, bounds
<1>2. CASE StatLogin(t, u, "session")
  BY <1>1, <1>2 DEF StatLogin, Apart, Fetched, Cached, LoginMoved
<1>3. CASE ParseLogin(t, u, "session")
  BY <1>1, <1>3 DEF ParseLogin, Apart, Fetched, Cached, LoginMoved, Fault
<1>4. CASE StoreLogin(t, u, "session")
  BY <1>1, <1>4 DEF StoreLogin, Apart, Fetched, Cached, LoginMoved
<1> QED BY <1>2, <1>3, <1>4 DEF GetUserConfigForLogin

LEMMA FindMoves ==
    ASSUME TypeOK, NEW t \in Requests, FindUser(t)
    PROVE  Moved(t, req[t].ask)
<1> DEFINE a == req[t].ask
           next == IF a.kind = "list" THEN "done" ELSE IF a.host # None THEN "validate" ELSE "edit"
<1>1. /\ pc \in [Workers -> Places] /\ got \in [Requests -> Config \cup {None}]
      /\ key \in [Requests -> Nat] /\ back \in [Workers -> Places] /\ t \in Workers
  BY DEF TypeOK, Workers
<1> USE DEF Goto, snapshot, scanning, lookups, bounds, Apart, Fetched, Cached, Moved, WorkMoved,
            Inside, Admitted, Returns
<1>2. next \in {"done", "validate", "edit"} /\ (next = "edit" => a.host = None)
  OBVIOUS
<1>3. \/ (pc[t] = "session" => SessionValid(t)) /\ GetUser(t, a.user, "session", next, "missing")
      \/ GetUser(t, a.user, "answer", "done", "done")
  BY Zenon DEF FindUser
<1> HIDE DEF a, next
<1>4. CASE (pc[t] = "session" => SessionValid(t)) /\ GetUser(t, a.user, "session", next, "missing")
  <2>1. CASE EnsureFresh(t, "session", "lookup")
    BY <1>1, <1>4, <2>1 DEF EnsureFresh, a
  <2>2. CASE Lookup(t, a.user, "session", next)
    BY <1>1, <1>2, <1>4, <2>2 DEF Lookup, Ready, a
  <2>3. CASE LoadUser(t, a.user, "missing")
    BY <1>1, <2>3 DEF LoadUser, Fault, a
  <2>4. CASE Insert(t, a.user, next)
    BY <1>1, <1>2, <2>4 DEF Insert, a
  <2> QED BY <1>4, <2>1, <2>2, <2>3, <2>4 DEF GetUser
<1>5. CASE GetUser(t, a.user, "answer", "done", "done")
  <2>1. CASE EnsureFresh(t, "answer", "lookup")
    BY <1>1, <2>1 DEF EnsureFresh, a
  <2>2. CASE Lookup(t, a.user, "answer", "done")
    BY <1>1, <2>2 DEF Lookup, Ready, a
  <2>3. CASE LoadUser(t, a.user, "done")
    BY <1>1, <2>3 DEF LoadUser, Fault, a
  <2>4. CASE Insert(t, a.user, "done")
    BY <1>1, <2>4 DEF Insert, a
  <2> QED BY <1>5, <2>1, <2>2, <2>3, <2>4 DEF GetUser
<1> QED BY <1>3, <1>4, <1>5

(* Every step of a request moves it as described.                          *)
LEMMA HandleMoves ==
    ASSUME TypeOK, NEW t \in Requests, Handle(t)
    PROVE  Moved(t, req[t].ask)
<1> DEFINE a == req[t].ask
<1>1. /\ pc \in [Workers -> Places] /\ got \in [Requests -> Config \cup {None}]
      /\ key \in [Requests -> Nat] /\ back \in [Workers -> Places] /\ t \in Workers
      /\ behind \in [Requests -> SUBSET Users] /\ a.user \in Users
  BY DEF TypeOK, Workers, Request, Ask
<1> USE DEF Goto, snapshot, scanning, lookups, bounds, Apart, Fetched, Cached, Moved, WorkMoved,
            Inside, Admitted, Returns, history
<1>2. CASE GetUserConfigForLogin(t, a.user, "session")
  <2>1. pc[t] # "start"
    BY <1>2 DEF GetUserConfigForLogin, StatLogin, ParseLogin, StoreLogin
  <2>2. Apart(t) /\ Fetched(t, a.user) /\ Cached(t, a.user) /\ LoginMoved(t, a.user)
    BY <1>1, <1>2, LoginMoves
  <2> QED BY <2>1, <2>2, Zenon DEF Moved
<1>3. CASE Unauthorized(t)
  BY <1>1, <1>3 DEF Unauthorized
<1>4. CASE Refuse(t)
  BY <1>1, <1>4 DEF Refuse
<1>5. CASE FindUser(t)
  BY <1>5, FindMoves
<1>6. CASE ValidateHostnames(t)
  <2>1. CASE EnsureFresh(t, "validate", "owners")
    BY <1>1, <2>1 DEF EnsureFresh
  <2>2. CASE ~EnsureFresh(t, "validate", "owners")
    <3>1. /\ pc[t] \in {"validate", "owners"}
          /\ pc' = [pc EXCEPT ![t] = IF OtherOwners(a) = {} THEN "edit" ELSE "done"]
          /\ behind' = [behind EXCEPT ![t] = {v \in Users : users[v] # files[v]}]
          /\ UNCHANGED <<users, hosts, ondemand, cache, back, got, key, failed>>
      BY <1>6, <2>2, Zenon DEF ValidateHostnames, Ready
    <3>2. behind'[t] = {v \in Users : users[v] # files[v]}
      BY <1>1, <3>1
    <3>3. \/ OtherOwners(a) = {} /\ pc'[t] = "edit"
          \/ pc'[t] = "done"
      BY <1>1, <3>1
    <3>4. Apart(t) /\ Fetched(t, a.user) /\ Cached(t, a.user)
      BY <1>1, <3>1
    <3> HIDE DEF a, Apart, Fetched, Cached
    <3> QED BY <3>1, <3>2, <3>3, <3>4 DEF a
  <2> QED BY <2>1, <2>2
<1>7. CASE Edit(t)
  <2>1. /\ pc[t] = "edit" /\ pc' = [pc EXCEPT ![t] = "list"]
        /\ got' = [got EXCEPT ![t] = None]
        /\ back' = [back EXCEPT ![t] = Afterwards(a)]
        /\ UNCHANGED <<users, hosts, ondemand, cache, key, failed>>
    BY <1>7, Zenon DEF Edit
  <2>2. Afterwards(a) \in Returns
    BY DEF Afterwards
  <2> QED BY <1>1, <2>1, <2>2
<1> QED BY <1>2, <1>3, <1>4, <1>5, <1>6, <1>7 DEF Handle

Scanned(w) ==
    \/ UNCHANGED <<users, hosts, ondemand>>
    \/ /\ pc[w] = "load" /\ todo[w] = {}
       /\ users' = found[w]
       /\ hosts' = buildHostIndex(found[w])
       /\ ondemand' = {}

LEMMA ReloadMoves ==
    ASSUME TypeOK, NEW w \in Workers, Reload(w)
    PROVE  /\ \A v \in Workers \ {w} : pc'[v] = pc[v]
           /\ pc[w] \in {"list", "load"} /\ pc'[w] \in {"load", back[w]}
           /\ UNCHANGED <<files, cache, got, key, back>> /\ (failed => failed')
           /\ Scanned(w)
<1>1. pc \in [Workers -> Places]
  BY DEF TypeOK
<1> USE DEF Goto, snapshot, lookups, bounds, scanning, Scanned
<1>2. CASE ReadDir(w)
  BY <1>1, <1>2 DEF ReadDir
<1>3. CASE ReadDirFails(w)
  BY <1>1, <1>3 DEF ReadDirFails, Fault
<1>4. CASE LoadNext(w)
  <2>1. /\ pc[w] = "load" /\ pc' = [pc EXCEPT ![w] = "load"]
        /\ UNCHANGED <<files, users, hosts, ondemand, cache, back, got, key>>
        /\ Fault \/ UNCHANGED bounds
    BY <1>4, Zenon DEF LoadNext
  <2>2. failed => failed'
    BY <2>1 DEF Fault
  <2> QED BY <1>1, <2>1, <2>2
<1>5. CASE Swap(w)
  BY <1>1, <1>5 DEF Swap
<1> QED BY <1>2, <1>3, <1>4, <1>5 DEF Reload

(* What is about to go into the login cache is there, and Reload returns   *)
(* to one of its callers: this, with the types, is inductive.              *)
Returning == \A t \in Requests : back[t] \in Returns \cup {"sleep"}
Typed == TypeOK /\ Stored /\ Returning

LEMMA TypedInit == Init => Typed
<1> SUFFICES ASSUME Init PROVE Typed
  OBVIOUS
<1>1. TypeOK
  BY InitType
<1>2. Stored /\ Returning
  BY ScannerAssumption DEF Init, RegistryInit, Stored, Returning, Workers
<1> QED BY <1>1, <1>2 DEF Typed

LEMMA StepTyped ==
    ASSUME Typed, NEW w \in Workers, Step(w)
    PROVE  Typed'
<1>0. TypeOK /\ Stored /\ Returning
  BY DEF Typed
<1>1. CASE w \in Requests /\ Handle(w)
  <2>1. TypeOK'
    BY <1>0, <1>1, HandleType
  <2>2. Moved(w, req[w].ask)
    BY <1>0, <1>1, HandleMoves
  <2>3. Stored' /\ Returning'
    BY <1>0, <1>1, <2>2
       DEF Moved, Apart, LoginMoved, WorkMoved, Admitted, Stored, Returning, Returns, Workers
  <2> QED BY <2>1, <2>3 DEF Typed
<1>2. CASE Reload(w) /\ UNCHANGED <<req, edited, writes, admin, clock, last, history>>
  <2>1. TypeOK'
    BY <1>0, <1>2, ReloadType
  <2>2. /\ \A v \in Workers \ {w} : pc'[v] = pc[v]
        /\ pc'[w] \in {"load", back[w]}
        /\ UNCHANGED <<got, back>>
    BY <1>0, <1>2, ReloadMoves
  <2>3. Stored' /\ Returning'
    BY <1>0, <2>2 DEF Stored, Returning, Returns, Workers
  <2> QED BY <2>1, <2>3 DEF Typed
<1>3. CASE w = Scanner /\ ScanTick /\ UNCHANGED <<req, edited, writes, admin, clock, last, history>>
  <2>1. TypeOK'
    BY <1>0, <1>3 DEF ScanTick, Goto, TypeOK, Places, Workers,
       snapshot, scanning, lookups, bounds, history
  <2>2. Stored' /\ Returning'
    BY <1>0, <1>3, ScannerAssumption DEF ScanTick, Goto, Stored, Returning, TypeOK, Workers,
       lookups, scanning
  <2> QED BY <2>1, <2>2 DEF Typed
<1> QED BY <1>1, <1>2, <1>3 DEF Step

LEMMA BeginTyped ==
    ASSUME Typed, NEW t \in Requests, Begin(t)
    PROVE  Typed'
<1> DEFINE u == req[t].ask.user
<1>0. TypeOK /\ Stored /\ Returning
  BY DEF Typed
<1>1. u \in Users /\ req[t].ask \in Ask
  BY <1>0 DEF TypeOK, Request, Ask
<1>2. PICK session \in {0} \cup {files[v].password : v \in {x \in {u} : files[x] # None}} :
        req' = [req EXCEPT ![t] =
                  [ask |-> req[t].ask, session |-> session,
                   current |-> files[u] # None /\ session = files[u].password]]
  BY DEF Begin
<1>3. session \in Nat
  BY <1>0, <1>1 DEF TypeOK, Config
<1>4. (files[u] # None /\ session = files[u].password) \in BOOLEAN
  OBVIOUS
<1>5. [ask |-> req[t].ask, session |-> session,
       current |-> files[u] # None /\ session = files[u].password] \in Request
  BY <1>1, <1>3, <1>4 DEF Request
<1>6. req' \in [Requests -> Request]
  BY <1>0, <1>2, <1>5 DEF TypeOK
<1>7. /\ pc' = [pc EXCEPT ![t] = "stat"]
      /\ UNCHANGED <<files, users, hosts, fresh, ondemand, cache, todo, found, back, got, key,
                     faults, lapses, failed, edited, writes, admin, clock, last,
                     reused, behind, overlap, gone>>
  BY Zenon DEF Begin, Goto, snapshot, scanning, lookups, bounds, history
<1>8. TypeOK'
  BY <1>0, <1>6, <1>7 DEF TypeOK, Places
<1>9. Stored' /\ Returning'
  BY <1>0, <1>7 DEF Stored, Returning, TypeOK, Workers
<1> QED BY <1>8, <1>9 DEF Typed

LEMMA TypedNext ==
    ASSUME Typed, [Next]_vars
    PROVE  Typed'
<1>0. TypeOK /\ Stored /\ Returning
  BY DEF Typed
<1>1. CASE \E t \in Requests : Begin(t)
  BY <1>1, BeginTyped
<1>2. CASE \E w \in Workers : Step(w)
  BY <1>2, StepTyped
<1>3. CASE Lapse /\ UNCHANGED <<req, edited, writes, admin, clock, last, history>>
  <2>1. /\ fresh' = FALSE /\ lapses > 0 /\ lapses' = lapses - 1
        /\ UNCHANGED <<files, users, hosts, ondemand, cache, pc, todo, found, back, got, key,
                       faults, failed, req, edited, writes, admin, clock, last,
                       reused, behind, overlap, gone>>
    BY <1>3, Zenon DEF Lapse, scanning, lookups, history
  <2>2. lapses' \in Nat
    <3>1. lapses \in Nat
      BY <1>0 DEF TypeOK
    <3>2. lapses > 0 /\ lapses' = lapses - 1
      BY <2>1
    <3> QED BY <3>1, <3>2
  <2>3. TypeOK'
    BY <1>0, <2>1, <2>2, Zenon DEF TypeOK
  <2>4. Stored' /\ Returning'
    BY <1>0, <2>1 DEF Stored, Returning
  <2> QED BY <2>3, <2>4 DEF Typed
<1>4. CASE \E u \in Managed : Admin(u)
  <2>1. PICK u \in Managed : Admin(u)
    BY <1>4
  <2>2. TypeOK'
    BY <1>0, <2>1, ManagedAssumption, AdminType
  <2>3. UNCHANGED <<pc, got, back>>
    BY <2>1 DEF Admin, lookups, scanning
  <2> QED BY <1>0, <2>2, <2>3 DEF Typed, Stored, Returning
<1>5. CASE UNCHANGED vars
  <2>1. UNCHANGED <<files, users, hosts, fresh, ondemand, cache, pc, todo, found, back, got, key,
                    faults, lapses, failed, req, edited, writes, admin, clock, last,
                    reused, behind, overlap, gone>>
    BY <1>5, Zenon DEF vars, registryVars, snapshot, scanning, lookups, bounds, history
  <2>2. TypeOK'
    BY <1>0, <2>1 DEF TypeOK
  <2>3. Stored' /\ Returning'
    BY <1>0, <2>1 DEF Stored, Returning
  <2> QED BY <2>2, <2>3 DEF Typed
<1> QED BY <1>1, <1>2, <1>3, <1>4, <1>5 DEF Next

LEMMA AlwaysTyped == Spec => []Typed
<1> QED BY TypedInit, TypedNext, PTL DEF Spec

(* Types: every variable of the dashboard and of the registry keeps its    *)
(* type.                                                                   *)
THEOREM TypeCorrect == Spec => []TypeOK
<1>1. Typed => TypeOK
  BY DEF Typed
<1> QED BY <1>1, AlwaysTyped, PTL

-----------------------------------------------------------------------------
(* What everybody else does leaves the snapshot alone.                     *)
LEMMA SnapshotMoves ==
    ASSUME TypeOK, [Next]_vars
    PROVE  \/ UNCHANGED <<users, hosts, ondemand>>
           \/ \E t \in Requests : Fetched(t, req[t].ask.user)
           \/ \E w \in Workers : Scanned(w)
<1>1. CASE \E t \in Requests : Begin(t)
  BY <1>1 DEF Begin, snapshot
<1>2. ASSUME NEW w \in Workers, Step(w)
      PROVE  (\E t \in Requests : Fetched(t, req[t].ask.user)) \/ Scanned(w)
  <2>1. CASE w \in Requests /\ Handle(w)
    BY <2>1, HandleMoves DEF Moved
  <2>2. CASE Reload(w)
    BY <2>2, ReloadMoves
  <2>3. CASE ScanTick
    BY <2>3 DEF ScanTick, snapshot, Scanned
  <2> QED BY <1>2, <2>1, <2>2, <2>3 DEF Step
<1>3. CASE Lapse
  BY <1>3 DEF Lapse
<1>4. CASE \E u \in Managed : Admin(u)
  BY <1>4 DEF Admin, snapshot
<1>5. CASE UNCHANGED vars
  BY <1>5 DEF vars, registryVars, snapshot
<1> QED BY <1>1, <1>2, <1>3, <1>4, <1>5 DEF Next

(* What the snapshot gets of an account is what somebody held.             *)
LEMMA SnapshotFrom ==
    ASSUME TypeOK, [Next]_vars, NEW u \in Users
    PROVE  \/ users'[u] = users[u]
           \/ \E w \in Workers : Holds(w, u) /\ users'[u] = InHand(w, u)
<1>1. CASE UNCHANGED <<users, hosts, ondemand>>
  BY <1>1
<1>2. ASSUME NEW t \in Requests, Fetched(t, req[t].ask.user), users' # users
      PROVE  users'[u] = users[u] \/ (Holds(t, u) /\ users'[u] = InHand(t, u))
  <2>1. pc[t] = "insert" /\ users' = [users EXCEPT ![req[t].ask.user] = got[t]]
    BY <1>2 DEF Fetched
  <2>2. CASE req[t].ask.user = u
    BY <2>1, <2>2 DEF TypeOK, Holds, InHand
  <2>3. CASE req[t].ask.user # u
    BY <2>1, <2>3 DEF TypeOK
  <2> QED BY <2>2, <2>3
<1>3. ASSUME NEW w \in Workers, Scanned(w), users' # users
      PROVE  Holds(w, u) /\ users'[u] = InHand(w, u)
  BY <1>3 DEF Scanned, Holds, InHand
<1> QED BY <1>1, <1>2, <1>3, SnapshotMoves DEF Workers

(* The snapshot keeps what it has of an account as long as that is the     *)
(* account's file and nobody holds anything else to put there: no scan and *)
(* no lookup, however they overlap, brings back what is gone.              *)
THEOREM SnapshotStaysCurrent == Spec => StaysCurrent
<1> DEFINE Keeps == \A u \in Users :
                      /\ users[u] = files[u]
                      /\ \A w \in Workers : Holds(w, u) => InHand(w, u) = files[u]
                      /\ files'[u] = files[u]
                      => users'[u] = users[u]
<1>1. TypeOK /\ [Next]_vars => [Keeps]_vars
  BY SnapshotFrom
<1> QED BY <1>1, TypeCorrect, PTL DEF Spec, StaysCurrent

-----------------------------------------------------------------------------
(* A claim depends on the record of its account alone.                     *)
LEMMA OwnersLocal ==
    ASSUME NEW records \in Records, NEW others \in Records, NEW h,
           NEW o \in Owners(records, h), records[o.user] = others[o.user]
    PROVE  o \in Owners(others, h)
BY DEF Owners, Records

LEMMA IndexOwner ==
    ASSUME NEW records \in Records, NEW h \in Hosts, buildHostIndex(records)[h] # None
    PROVE  Owners(records, h) = {buildHostIndex(records)[h]}
<1> DEFINE S == Owners(records, h)
<1>1. buildHostIndex(records)[h] = IF \E o \in S : S = {o} THEN CHOOSE o \in S : TRUE ELSE None
  BY DEF buildHostIndex
<1> HIDE DEF S
<1>2. (\E o \in S : S = {o}) => S = {CHOOSE o \in S : TRUE}
  OBVIOUS
<1>3. S = {buildHostIndex(records)[h]}
  BY <1>1, <1>2
<1> QED BY <1>3 DEF S

LEMMA BuiltAgrees ==
    ASSUME NEW records \in Records, NEW h \in Hosts, buildHostIndex(records)[h] # None,
           NEW o \in Owners(records, h) \cup {buildHostIndex(records)[h]}
    PROVE  o = buildHostIndex(records)[h] /\ o \in Owners(records, h)
BY IndexOwner

(* FindByHost never routes a host to a service that another one of the     *)
(* snapshot contends with, nor to one the snapshot no longer has.          *)
THEOREM IndexStaysAgreed == Spec => []IndexAgrees
<1>1. Init => IndexAgrees
  <2> SUFFICES ASSUME Init PROVE IndexAgrees
    OBVIOUS
  <2>1. users \in Records /\ hosts = buildHostIndex(users)
    BY InitType DEF Init, RegistryInit, TypeOK, Records
  <2> QED BY <2>1, BuiltAgrees DEF IndexAgrees
<1>2. ASSUME TypeOK, IndexAgrees, [Next]_vars
      PROVE  IndexAgrees'
  <2>1. CASE UNCHANGED <<users, hosts, ondemand>>
    BY <1>2, <2>1 DEF IndexAgrees, Owners
  <2>2. ASSUME NEW t \in Requests, Fetched(t, req[t].ask.user)
        PROVE  IndexAgrees'
    <3> DEFINE u == req[t].ask.user
    <3>1. CASE /\ users' = [users EXCEPT ![u] = got[t]]
               /\ ondemand' = ondemand \cup {u} /\ hosts' = hosts
      <4>0. u \in Users /\ got[t] \in Config \cup {None} /\ users \in Records
        BY <1>2 DEF TypeOK, Request, Ask, Records
      <4>1. users' \in Records /\ \A v \in Users \ {u} : users'[v] = users[v]
        BY <3>1, <4>0 DEF Records
      <4> HIDE DEF u
      <4>2. SUFFICES ASSUME NEW h \in Hosts, hosts[h] # None,
                            NEW o \in Owners(users', h) \cup {hosts[h]},
                            o.user \notin ondemand, o.user # u
                     PROVE  o = hosts[h] /\ o \in Owners(users', h)
        BY <3>1 DEF IndexAgrees
      <4>3. o.user \in Users
        <5>1. o \in Target
          BY <1>2, <4>1, OwnersAreTargets, <4>2 DEF TypeOK
        <5> QED BY <5>1 DEF Target
      <4>4. o \in Owners(users, h) \cup {hosts[h]}
        BY <4>0, <4>1, <4>2, <4>3, OwnersLocal
      <4>5. o = hosts[h] /\ o \in Owners(users, h)
        BY <1>2, <4>2, <4>4 DEF IndexAgrees
      <4> QED BY <4>0, <4>1, <4>2, <4>3, <4>5, OwnersLocal
    <3> QED BY <2>1, <2>2, <3>1 DEF Fetched
  <2>3. ASSUME NEW w \in Workers, Scanned(w)
        PROVE  IndexAgrees'
    <3>1. CASE users' = found[w] /\ hosts' = buildHostIndex(found[w])
      <4>1. found[w] \in Records
        BY <1>2 DEF TypeOK, Records
      <4> QED BY <3>1, <4>1, BuiltAgrees DEF IndexAgrees
    <3> QED BY <2>1, <2>3, <3>1 DEF Scanned
  <2> QED BY <1>2, <2>1, <2>2, <2>3, SnapshotMoves
<1> QED BY <1>1, <1>2, TypeCorrect, PTL DEF Spec

-----------------------------------------------------------------------------
(* What writers do to the files, and what each kind of step does to the    *)
(* rest.                                                                   *)
Behind(u) == \A t \in Requests : pc[t] = "edit" => behind'[t] = behind[t] \cup {u}

Written(u, password) ==
    /\ \A v \in Users \ {u} : files'[v] = files[v] /\ last'[v] = last[v]
    /\ files'[u] # None /\ files'[u].password = password /\ files'[u].mtime = last'[u]
    /\ files'[u].ver = writes + 1 /\ writes' = writes + 1
    /\ clock <= last'[u] /\ clock' = last'[u]
    /\ reused \subseteq reused' /\ (last'[u] = last[u] => u \in reused')
    /\ Behind(u)

Removed(u) ==
    /\ files' = [files EXCEPT ![u] = None]
    /\ \A t \in Requests : gone'[t] = (gone[t] \/ req[t].ask.user = u)
    /\ UNCHANGED <<clock, last, reused, writes>>
    /\ Behind(u)

Quiet == UNCHANGED <<files, last, clock, reused, gone, edited, writes, overlap>>

LEMMA PublishMoves ==
    ASSUME TypeOK, NEW u \in Users, NEW password \in Nat, NEW services \in SUBSET Service,
           Publish(u, password, services)
    PROVE  Written(u, password)
<1>1. PICK now \in {clock, clock + 1} \cap (0..MaxClock) :
        /\ clock' = now
        /\ last' = [last EXCEPT ![u] = now]
        /\ files' = [files EXCEPT ![u] = [ver |-> writes + 1, mtime |-> now,
                                          password |-> password, services |-> services]]
        /\ reused' = IF now = last[u] THEN reused \cup {u} ELSE reused
  BY DEF Publish
<1>2. now \in Nat /\ clock <= now
  BY DEF TypeOK
<1>3. [ver |-> writes + 1, mtime |-> now, password |-> password, services |-> services] \in Config
  BY <1>2 DEF Config, TypeOK
<1>4. /\ \A v \in Users \ {u} : files'[v] = files[v] /\ last'[v] = last[v]
      /\ last'[u] = now
      /\ files'[u] = [ver |-> writes + 1, mtime |-> now, password |-> password, services |-> services]
  BY <1>1 DEF TypeOK
<1>5. files'[u] # None
  BY <1>3, <1>4, NoneAssumption
<1>6. Behind(u)
  BY DEF Publish, Behind
<1>7. writes' = writes + 1
  BY DEF Publish
<1> QED BY <1>1, <1>2, <1>4, <1>5, <1>6, <1>7 DEF Written

LEMMA EditMoves ==
    ASSUME TypeOK, NEW t \in Requests, Edit(t)
    PROVE  /\ pc[t] = "edit" /\ files[req[t].ask.user] # None /\ UNCHANGED gone
           /\ \A s \in Requests \ {t} : edited'[s] = edited[s]
           /\ Written(req[t].ask.user, files[req[t].ask.user].password)
<1> DEFINE a == req[t].ask
           u == a.user
<1>1. a \in Ask /\ u \in Users
  BY DEF TypeOK, Request, Ask
<1>2. files[u] # None /\ files[u] \in Config
  BY <1>1 DEF Edit, TypeOK
<1>3. PICK services \in After(a, files[u].services) : Publish(u, files[u].password, services)
  BY DEF Edit
<1>4. services \in SUBSET Service /\ files[u].password \in Nat
  BY <1>1, <1>2, AfterType DEF Config
<1>5. Written(u, files[u].password)
  BY <1>1, <1>3, <1>4, PublishMoves
<1>6. pc[t] = "edit" /\ UNCHANGED gone
  BY DEF Edit, Goto
<1>7. edited' = [edited EXCEPT ![t] = writes + 1] /\ edited \in [Requests -> Nat]
  BY DEF Edit, TypeOK
<1> QED BY <1>2, <1>5, <1>6, <1>7

LEMMA HandleWrites ==
    ASSUME TypeOK, NEW t \in Requests, Handle(t)
    PROVE  /\ UNCHANGED req
           /\ \/ Edit(t)
              \/ Quiet /\ \A s \in Requests \ {t} : behind'[s] = behind[s]
<1>1. CASE Edit(t)
  BY <1>1 DEF Handle
<1>2. CASE UNCHANGED <<edited, writes, admin, clock, last, history>>
           /\ (GetUserConfigForLogin(t, req[t].ask.user, "session") \/ Unauthorized(t)
                \/ Refuse(t) \/ FindUser(t))
  <2>1. UNCHANGED files
    BY <1>2 DEF GetUserConfigForLogin, StatLogin, ParseLogin, StoreLogin, Unauthorized, Refuse,
       FindUser, GetUser, EnsureFresh, Lookup, LoadUser, Insert
  <2> QED BY <1>2, <2>1 DEF Handle, Quiet, history
<1>3. CASE ValidateHostnames(t) /\ UNCHANGED <<edited, writes, admin, clock, last>>
  <2>1. UNCHANGED <<files, reused, gone, overlap>>
    BY <1>3 DEF ValidateHostnames, EnsureFresh, history
  <2>2. behind' = behind \/ behind' = [behind EXCEPT ![t] = {v \in Users : users[v] # files[v]}]
    BY <1>3, Zenon DEF ValidateHostnames, history
  <2>3. \A s \in Requests \ {t} : behind'[s] = behind[s]
    BY <2>2 DEF TypeOK
  <2> QED BY <1>3, <2>1, <2>3 DEF Handle, Quiet
<1> QED BY <1>1, <1>2, <1>3 DEF Handle

(* Reload, ScanTick, Lapse and stuttering.                                 *)
Scanning ==
    /\ \A t \in Requests : \/ pc'[t] = pc[t]
                           \/ pc[t] \in {"list", "load"} /\ pc'[t] \in {"load", back[t]}
    /\ UNCHANGED <<req, got, key, cache, behind>> /\ (failed => failed')
    /\ Quiet

LEMMA AdminMoves ==
    ASSUME TypeOK, NEW u \in Users, Admin(u)
    PROVE  /\ UNCHANGED <<pc, got, key, cache, failed, req, edited, overlap>>
           /\ \/ Removed(u)
              \/ /\ UNCHANGED gone
                 /\ \E password \in Nat :
                      /\ Written(u, password)
                      /\ password > 0 \/ (files[u] # None /\ password = files[u].password)
<1>1. UNCHANGED <<pc, got, key, cache, failed, req, edited, overlap>>
  BY DEF Admin, lookups, bounds
<1>2. files[u] # None => files[u].password \in Nat /\ files[u].services \in SUBSET Service
  BY DEF TypeOK, Config
<1>3. writes + 1 \in Nat /\ writes + 1 > 0 /\ {} \in SUBSET Service
  BY DEF TypeOK
<1>4. CASE RemoveUserConfig(u)
  <2>1. /\ files' = [files EXCEPT ![u] = None]
        /\ UNCHANGED <<clock, last, reused, writes>>
        /\ gone' = [t \in Requests |-> gone[t] \/ req[t].ask.user = u]
    BY <1>4, Zenon DEF RemoveUserConfig
  <2>2. Behind(u)
    BY <1>4 DEF RemoveUserConfig, Behind
  <2>3. \A t \in Requests : gone'[t] = (gone[t] \/ req[t].ask.user = u)
    BY <2>1, Zenon
  <2> QED BY <1>1, <2>1, <2>2, <2>3, Zenon DEF Removed
<1>5. CASE CreateUserConfig(u)
  <2>1. Publish(u, writes + 1, {}) /\ UNCHANGED gone
    BY <1>5 DEF CreateUserConfig
  <2>2. Written(u, writes + 1)
    BY <1>3, <2>1, PublishMoves
  <2> QED BY <1>1, <1>3, <2>1, <2>2
<1>6. CASE UpdatePasswordHash(u)
  <2>1. Publish(u, writes + 1, files[u].services) /\ UNCHANGED gone /\ files[u] # None
    BY <1>6 DEF UpdatePasswordHash
  <2>2. Written(u, writes + 1)
    BY <1>2, <1>3, <2>1, PublishMoves
  <2> QED BY <1>1, <1>3, <2>1, <2>2
<1>7. CASE EditByHand(u)
  <2>1. files[u] # None /\ UNCHANGED gone
    BY <1>7 DEF EditByHand
  <2>2. PICK id \in ServiceIDs, names \in SUBSET Hosts :
          Publish(u, files[u].password,
                  {s \in files[u].services : s.id # id} \cup {[id |-> id, hosts |-> names]})
    BY <1>7 DEF EditByHand
  <2>3. {s \in files[u].services : s.id # id} \cup {[id |-> id, hosts |-> names]} \in SUBSET Service
    BY <1>2, <2>1 DEF Service
  <2>4. Written(u, files[u].password)
    BY <1>2, <2>1, <2>2, <2>3, PublishMoves
  <2> QED BY <1>1, <1>2, <2>1, <2>4
<1> QED BY <1>4, <1>5, <1>6, <1>7 DEF Admin

LEMMA NextKinds ==
    ASSUME TypeOK, [Next]_vars
    PROVE  \/ \E t \in Requests : Begin(t)
           \/ \E t \in Requests : Handle(t)
           \/ Scanning
           \/ \E u \in Users : Admin(u)
<1>1. ASSUME NEW w \in Workers, Step(w), w \in Requests => ~Handle(w)
      PROVE  Scanning
  <2>1. UNCHANGED <<req, edited, writes, admin, clock, last, history>>
    BY <1>1 DEF Step
  <2>2. CASE Reload(w)
    <3>1. /\ \A v \in Workers \ {w} : pc'[v] = pc[v]
          /\ pc[w] \in {"list", "load"} /\ pc'[w] \in {"load", back[w]}
          /\ UNCHANGED <<files, cache, got, key, back>> /\ (failed => failed')
      BY <2>2, ReloadMoves
    <3>2. UNCHANGED <<req, edited, writes, clock, last, reused, behind, gone, overlap>>
      BY <2>1 DEF history
    <3>3. \A t \in Requests : \/ pc'[t] = pc[t]
                              \/ pc[t] \in {"list", "load"} /\ pc'[t] \in {"load", back[t]}
      BY <3>1 DEF Workers
    <3> QED BY <3>1, <3>2, <3>3, Zenon DEF Scanning, Quiet
  <2>3. CASE w = Scanner /\ ScanTick
    <3>1. \A t \in Requests : pc'[t] = pc[t]
      BY <2>3, ScannerAssumption DEF ScanTick, Goto, TypeOK, Workers
    <3>2. UNCHANGED <<files, cache, got, key, failed, req, edited, writes, clock, last, reused, behind,
                    gone, overlap>>
      BY <2>1, <2>3, Zenon DEF ScanTick, history, lookups, bounds
    <3> QED BY <3>1, <3>2, Zenon DEF Scanning, Quiet
  <2> QED BY <1>1, <2>2, <2>3 DEF Step
<1>2. CASE Lapse /\ UNCHANGED <<req, edited, writes, admin, clock, last, history>>
  <2>1. UNCHANGED <<files, cache, pc, got, key, failed, req, edited, writes, clock, last, reused, behind,
                  gone, overlap>>
    BY <1>2, Zenon DEF Lapse, history, lookups
  <2> QED BY <2>1, Zenon DEF Scanning, Quiet
<1>3. CASE UNCHANGED vars
  <2>1. UNCHANGED <<files, cache, pc, got, key, failed, req, edited, writes, clock, last, reused, behind,
                  gone, overlap>>
    BY <1>3, Zenon DEF vars, registryVars, history, lookups, bounds
  <2> QED BY <2>1, Zenon DEF Scanning, Quiet
<1> QED BY <1>1, <1>2, <1>3, ManagedAssumption DEF Next

-----------------------------------------------------------------------------
(* A request that has found its account goes on with one that exists, or   *)
(* that has been removed since the request began.                          *)
Found(t) == pc[t] \in Admitted \cup {"store"} \/ (pc[t] = "session" /\ got[t] # None)
Alive == \A t \in Requests : Found(t) /\ files[req[t].ask.user] = None => gone[t]
FindsInv == Alive /\ KnownUserFound

LEMMA FindsInit == Init => FindsInv
<1> SUFFICES ASSUME Init PROVE FindsInv
  OBVIOUS
<1>1. \A t \in Requests : pc[t] = "start"
  BY ScannerAssumption DEF Init, RegistryInit, Workers
<1> QED BY <1>1 DEF FindsInv, Alive, Found, KnownUserFound, Admitted

LEMMA FindsBegin ==
    ASSUME Typed, FindsInv, NEW t \in Requests, Begin(t)
    PROVE  FindsInv'
<1>1. pc' = [pc EXCEPT ![t] = "stat"] /\ pc \in [Workers -> Places] /\ t \in Workers
  BY DEF Begin, Goto, Typed, TypeOK, Workers
<1>2. UNCHANGED <<files, got, failed, gone>>
  BY DEF Begin, lookups, bounds, history
<1>3. \A s \in Requests : req'[s].ask = req[s].ask
  BY DEF Begin, Typed, TypeOK
<1>4. \A s \in Requests : pc'[s] = pc[s] \/ pc'[s] = "stat"
  BY <1>1 DEF Workers
<1> QED BY <1>2, <1>3, <1>4 DEF FindsInv, Alive, Found, KnownUserFound, Admitted

LEMMA FindsHandle ==
    ASSUME Typed, FindsInv, NEW t \in Requests, Handle(t)
    PROVE  FindsInv'
<1>1. Moved(t, req[t].ask)
  BY HandleMoves DEF Typed
<1>2. UNCHANGED <<req, gone>>
  BY HandleWrites, EditMoves DEF Typed, Quiet
<1>3. \A v \in Users : files'[v] = None => files[v] = None
  <2>1. CASE Edit(t)
    <3>1. /\ files'[req[t].ask.user] # None
          /\ \A v \in Users \ {req[t].ask.user} : files'[v] = files[v]
      BY <2>1, EditMoves DEF Typed, Written
    <3> QED BY <3>1
  <2>2. CASE Quiet
    BY <2>2 DEF Quiet
  <2> QED BY <2>1, <2>2, HandleWrites DEF Typed
<1>4. \A s \in Requests : req[s].ask.user \in Users
  BY DEF Typed, TypeOK, Request, Ask
<1>5. /\ failed => failed'
      /\ \A s \in Requests \ {t} : pc'[s] = pc[s] /\ got'[s] = got[s]
  BY <1>1 DEF Moved, Apart, Workers
<1>6. ASSUME NEW s \in Requests, s # t
      PROVE  /\ Found(s)' /\ files'[req[s].ask.user] = None => gone[s]
             /\ pc'[s] = "missing" => gone[s] \/ failed'
  BY <1>3, <1>4, <1>5, <1>6 DEF FindsInv, Alive, Found, KnownUserFound
<1>7. Found(t)' => Found(t) \/ files[req[t].ask.user] # None
  BY <1>1 DEF Moved, LoginMoved, WorkMoved, Inside, SessionValid, Found, Admitted
<1>8. Found(t)' /\ files'[req[t].ask.user] = None => gone[t]
  BY <1>3, <1>4, <1>7 DEF FindsInv, Alive
<1>9. pc'[t] = "missing" => gone[t] \/ failed'
  <2>1. pc'[t] = "missing" => Inside(t) /\ (files[req[t].ask.user] = None \/ failed')
    BY <1>1 DEF Moved, LoginMoved, WorkMoved, Admitted
  <2>2. Inside(t) => Found(t)
    BY DEF Inside, Found, SessionValid
  <2> QED BY <2>1, <2>2 DEF FindsInv, Alive
<1> QED BY <1>2, <1>6, <1>8, <1>9 DEF FindsInv, Alive, KnownUserFound

LEMMA FindsAdmin ==
    ASSUME Typed, FindsInv, NEW u \in Users, Admin(u)
    PROVE  FindsInv'
<1>1. UNCHANGED <<pc, got, failed, req>>
  BY AdminMoves DEF Typed
<1>2. \A s \in Requests : req[s].ask.user \in Users
  BY DEF Typed, TypeOK, Request, Ask
<1>3. CASE Removed(u)
  <2>1. \A v \in Users \ {u} : files'[v] = files[v]
    BY <1>3 DEF Removed, Typed, TypeOK
  <2>2. \A t \in Requests : gone'[t] = (gone[t] \/ req[t].ask.user = u)
    BY <1>3 DEF Removed
  <2> QED BY <1>1, <1>2, <2>1, <2>2 DEF FindsInv, Alive, Found, KnownUserFound
<1>4. CASE UNCHANGED gone /\ \E password \in Nat : Written(u, password)
  <2>1. files'[u] # None /\ \A v \in Users \ {u} : files'[v] = files[v]
    BY <1>4 DEF Written
  <2> QED BY <1>1, <1>2, <1>4, <2>1 DEF FindsInv, Alive, Found, KnownUserFound
<1> QED BY <1>3, <1>4, AdminMoves DEF Typed

(* Nobody is told that an account is not there that exists all the while.  *)
THEOREM KnownUsersFound == Spec => []KnownUserFound
<1>1. ASSUME Typed, FindsInv, [Next]_vars
      PROVE  FindsInv'
  <2>1. CASE Scanning
    <3>1. UNCHANGED <<files, gone, req, got>> /\ (failed => failed')
      BY <2>1 DEF Scanning, Quiet
    <3>2. ASSUME NEW t \in Requests
          PROVE  (Found(t)' => Found(t)) /\ (pc'[t] = "missing" => pc[t] = "missing")
      BY <1>1, <2>1 DEF Scanning, Typed, Returning, Returns, Found, Admitted
    <3> QED BY <1>1, <3>1, <3>2 DEF FindsInv, Alive, KnownUserFound
  <2> QED BY <1>1, <2>1, NextKinds, FindsBegin, FindsHandle, FindsAdmin DEF Typed
<1>2. FindsInv => KnownUserFound
  BY DEF FindsInv
<1> QED BY <1>1, <1>2, FindsInit, AlwaysTyped, PTL DEF Spec

-----------------------------------------------------------------------------
(* Until it edits, a request has seen every claim of its host but those of *)
(* accounts whose file is behind or has changed since.                     *)
Own(t, o) == o.user = req[t].ask.user /\ o.service.id = req[t].ask.id
ClaimsSeen ==
    \A t \in Requests :
        pc[t] = "edit" /\ req[t].ask.host # None =>
            \A o \in Owners(files, req[t].ask.host) : Own(t, o) \/ o.user \in behind[t]

(* Who writes a file puts its account behind for everybody who has looked. *)
LEMMA ClaimsRewritten ==
    ASSUME TypeOK, ClaimsSeen, NEW u \in Users, Behind(u), files' \in Records,
           \A v \in Users \ {u} : files'[v] = files[v],
           NEW t \in Requests, pc[t] = "edit", req[t].ask.host # None,
           NEW o \in Owners(files', req[t].ask.host)
    PROVE  Own(t, o) \/ o.user \in behind'[t]
<1>1. o.user \in Users
  <2>1. o \in Target
    BY OwnersAreTargets
  <2> QED BY <2>1 DEF Target
<1>2. behind'[t] = behind[t] \cup {u}
  BY DEF Behind
<1>3. CASE o.user # u
  <2>1. files \in Records /\ files'[o.user] = files[o.user]
    BY <1>1, <1>3 DEF TypeOK, Records
  <2>2. o \in Owners(files, req[t].ask.host)
    BY <2>1, OwnersLocal
  <2> QED BY <1>2, <2>2 DEF ClaimsSeen
<1> QED BY <1>2, <1>3

LEMMA ClaimsHandle ==
    ASSUME Typed, ClaimsSeen, NEW t \in Requests, Handle(t)
    PROVE  ClaimsSeen'
<1>1. Moved(t, req[t].ask) /\ UNCHANGED req
  BY HandleMoves, HandleWrites DEF Typed
<1>2. \A s \in Requests \ {t} : pc'[s] = pc[s]
  BY <1>1 DEF Moved, Apart, Workers
<1>3. TypeOK'
  BY HandleType DEF Typed
<1>4. CASE Edit(t)
  <2> DEFINE u == req[t].ask.user
  <2>1. /\ u \in Users /\ Behind(u)
        /\ \A v \in Users \ {u} : files'[v] = files[v]
    BY <1>4, EditMoves DEF Typed, Written, TypeOK, Request, Ask
  <2>2. pc'[t] # "edit"
    <3>1. pc' = [pc EXCEPT ![t] = "list"] /\ pc \in [Workers -> Places] /\ t \in Workers
      BY <1>4 DEF Edit, Goto, Typed, TypeOK, Workers
    <3> QED BY <3>1
  <2>3. files' \in Records
    BY <1>3 DEF TypeOK, Records
  <2> HIDE DEF u
  <2>4. SUFFICES ASSUME NEW s \in Requests, pc'[s] = "edit", req[s].ask.host # None,
                        NEW o \in Owners(files', req[s].ask.host)
                 PROVE  Own(s, o) \/ o.user \in behind'[s]
    BY <1>1 DEF ClaimsSeen, Own
  <2>5. pc[s] = "edit"
    BY <1>2, <2>2, <2>4
  <2> QED BY <2>1, <2>3, <2>4, <2>5, ClaimsRewritten DEF Typed
<1>5. CASE Quiet /\ \A s \in Requests \ {t} : behind'[s] = behind[s]
  <2>1. SUFFICES ASSUME NEW s \in Requests, pc'[s] = "edit", req[s].ask.host # None,
                        NEW o \in Owners(files, req[s].ask.host)
                 PROVE  Own(s, o) \/ o.user \in behind'[s]
    BY <1>1, <1>5 DEF ClaimsSeen, Own, Quiet
  <2>2. CASE s # t
    BY <1>2, <1>5, <2>1, <2>2 DEF ClaimsSeen
  <2>3. CASE s = t
    <3>1. OtherOwners(req[t].ask) = {} /\ behind'[t] = {v \in Users : users[v] # files[v]}
      BY <1>1, <2>1, <2>3 DEF Moved, LoginMoved, WorkMoved, Admitted
    <3>2. files \in Records /\ users \in Records
      BY DEF Typed, TypeOK, Records
    <3>3. o.user \in Users
      <4>1. o \in Target
        BY <2>1, <3>2, OwnersAreTargets
      <4> QED BY <4>1 DEF Target
    <3>4. CASE users[o.user] = files[o.user]
      <4>1. o \in Owners(users, req[s].ask.host)
        BY <2>1, <3>2, <3>4, OwnersLocal
      <4> QED BY <2>3, <3>1, <4>1 DEF OtherOwners, Own
    <3> QED BY <2>3, <3>1, <3>3, <3>4
  <2> QED BY <2>2, <2>3
<1> QED BY <1>4, <1>5, HandleWrites DEF Typed

LEMMA ClaimsAdmin ==
    ASSUME Typed, ClaimsSeen, NEW u \in Users, Admin(u)
    PROVE  ClaimsSeen'
<1>1. UNCHANGED <<pc, req>>
  BY AdminMoves DEF Typed
<1>2. Behind(u) /\ \A v \in Users \ {u} : files'[v] = files[v]
  BY AdminMoves DEF Typed, Written, Removed, TypeOK
<1>3. files' \in Records
  BY AdminType DEF Typed, TypeOK, Records
<1>4. SUFFICES ASSUME NEW t \in Requests, pc[t] = "edit", req[t].ask.host # None,
                      NEW o \in Owners(files', req[t].ask.host)
               PROVE  Own(t, o) \/ o.user \in behind'[t]
  BY <1>1 DEF ClaimsSeen, Own
<1> QED BY <1>2, <1>3, <1>4, ClaimsRewritten DEF Typed

(* A request takes a host that another service claims only if the snapshot *)
(* it checked did not have that service's file as it is now.               *)
THEOREM ClaimsAreChecked == Spec => ClaimsChecked
<1> DEFINE Checked ==
      \A t \in Requests :
        edited'[t] # edited[t] /\ req[t].ask.host # None =>
            \A o \in Owners(files, req[t].ask.host) :
                \/ o.user = req[t].ask.user /\ o.service.id = req[t].ask.id
                \/ o.user \in behind[t]
<1>1. Init => ClaimsSeen
  <2> SUFFICES ASSUME Init PROVE ClaimsSeen
    OBVIOUS
  <2>1. \A t \in Requests : pc[t] = "start"
    BY ScannerAssumption DEF Init, RegistryInit, Workers
  <2> QED BY <2>1 DEF ClaimsSeen
<1>2. ASSUME Typed, ClaimsSeen, [Next]_vars
      PROVE  ClaimsSeen' /\ Checked
  <2>1. ASSUME NEW t \in Requests, Begin(t)
        PROVE  ClaimsSeen' /\ Checked
    <3>1. /\ UNCHANGED <<files, behind, edited>>
          /\ \A s \in Requests : req'[s].ask = req[s].ask
          /\ \A s \in Requests : pc'[s] = pc[s] \/ pc'[s] = "stat"
      BY <1>2, <2>1 DEF Begin, Goto, history, Typed, TypeOK, Workers
    <3> QED BY <1>2, <3>1 DEF ClaimsSeen, Own
  <2>2. ASSUME NEW t \in Requests, Handle(t)
        PROVE  ClaimsSeen' /\ Checked
    <3>1. ClaimsSeen'
      BY <1>2, <2>2, ClaimsHandle
    <3>2. ASSUME Edit(t)
          PROVE  Checked
      <4>1. /\ pc[t] = "edit"
            /\ \A s \in Requests \ {t} : edited'[s] = edited[s]
        BY <1>2, <2>2, <3>2, EditMoves DEF Typed
      <4> QED BY <1>2, <4>1 DEF ClaimsSeen, Own
    <3>3. ASSUME Quiet
          PROVE  Checked
      BY <3>3 DEF Quiet
    <3>4. Edit(t) \/ Quiet
      BY <1>2, <2>2, HandleWrites DEF Typed
    <3> HIDE DEF Checked
    <3> QED BY <3>1, <3>2, <3>3, <3>4
  <2>3. CASE Scanning
    <3>1. UNCHANGED <<files, behind, edited, req>>
      BY <2>3 DEF Scanning, Quiet
    <3>2. \A t \in Requests : pc'[t] = "edit" => pc[t] = "edit"
      BY <1>2, <2>3 DEF Scanning, Typed, Returning, Returns
    <3> QED BY <1>2, <3>1, <3>2 DEF ClaimsSeen, Own
  <2>4. ASSUME NEW u \in Users, Admin(u)
        PROVE  ClaimsSeen' /\ Checked
    <3>1. ClaimsSeen'
      BY <1>2, <2>4, ClaimsAdmin
    <3>2. UNCHANGED edited
      BY <2>4 DEF Admin
    <3> QED BY <3>1, <3>2
  <2>5. TypeOK
    BY <1>2 DEF Typed
  <2> HIDE DEF Checked
  <2> QED BY <1>2, <2>1, <2>2, <2>3, <2>4, <2>5, NextKinds
<1>3. Typed /\ ClaimsSeen /\ [Next]_vars => [Checked]_vars
  BY <1>2
<1> QED BY <1>1, <1>2, <1>3, AlwaysTyped, PTL DEF Spec, ClaimsChecked

-----------------------------------------------------------------------------
(* What is in the login cache, or about to go there, under the mtime an    *)
(* account's file has is that file, if no two of its versions share one.   *)
Fits(u, mtime, cfg) ==
    /\ mtime <= last[u]
    /\ mtime = last[u] /\ files[u] # None => cfg = files[u]
Stamped == \A u \in Users : last[u] <= clock /\ (files[u] # None => files[u].mtime = last[u])
CacheFits == \A u \in Users \ reused : cache[u] # None => Fits(u, cache[u].mtime, cache[u].cfg)
KeyFits(t) ==
    /\ pc[t] = "parse" => key[t] <= last[req[t].ask.user]
    /\ pc[t] = "store" /\ req[t].ask.user \notin reused => Fits(req[t].ask.user, key[t], got[t])

(* The session of a revoked password: the account has a newer one, and so  *)
(* has every record requireSession may be given.                           *)
Refuted(t) ==
    pc[t] # "start" /\ ~req[t].current =>
        /\ req[t].session = 0
        /\ files[req[t].ask.user] # None => files[req[t].ask.user].password > 0
        /\ req[t].ask.user \notin reused =>
             /\ pc[t] = "store" \/ (pc[t] = "session" /\ got[t] # None) => got[t].password > 0
             /\ pc[t] \notin Admitted
RevokesInv == Stamped /\ CacheFits /\ \A t \in Requests : KeyFits(t) /\ Refuted(t)

LEMMA RevokesInit == Init => RevokesInv
<1> SUFFICES ASSUME Init PROVE RevokesInv
  OBVIOUS
<1>1. \A t \in Requests : pc[t] = "start"
  BY ScannerAssumption DEF Init, RegistryInit, Workers
<1>2. \A u \in Users : cache[u] = None
  BY DEF Init, RegistryInit, NoUsers
<1>3. Stamped
  <2>1. PICK scenario \in Scenarios :
          files = [u \in Users |->
                     IF scenario.start[u] = None THEN None
                     ELSE [ver |-> 0, mtime |-> 0, password |-> 0, services |-> scenario.start[u]]]
    BY DEF Init
  <2>2. last = [u \in Users |-> 0] /\ clock = 0
    BY DEF Init
  <2>3. \A u \in Users : files[u] # None => files[u].mtime = 0
    BY <2>1
  <2> QED BY <2>2, <2>3 DEF Stamped
<1> QED BY <1>1, <1>2, <1>3 DEF RevokesInv, CacheFits, KeyFits, Refuted

LEMMA RevokesBegin ==
    ASSUME Typed, RevokesInv, NEW t \in Requests, Begin(t)
    PROVE  RevokesInv'
<1> DEFINE u == req[t].ask.user
<1>1. /\ pc' = [pc EXCEPT ![t] = "stat"]
      /\ UNCHANGED <<files, cache, key, got, last, clock, reused>>
  BY DEF Begin, Goto, lookups, history
<1>2. PICK session \in {0} \cup {files[v].password : v \in {x \in {u} : files[x] # None}} :
        req' = [req EXCEPT ![t] =
                  [ask |-> req[t].ask, session |-> session,
                   current |-> files[u] # None /\ session = files[u].password]]
  BY DEF Begin
<1>3. /\ \A s \in Requests \ {t} : pc'[s] = pc[s] /\ req'[s] = req[s]
      /\ pc'[t] = "stat"
      /\ req'[t] = [ask |-> req[t].ask, session |-> session,
                    current |-> files[u] # None /\ session = files[u].password]
  BY <1>1, <1>2 DEF Typed, TypeOK, Workers
<1>4. files[u] # None => files[u].password \in Nat
  BY DEF Typed, TypeOK, Request, Ask, Config
<1>5. Refuted(t)'
  <2>1. req'[t].current = (files[u] # None /\ session = files[u].password)
    BY <1>3
  <2>2. req'[t].session = session /\ req'[t].ask.user = u
    BY <1>3
  <2>3. ~(files[u] # None /\ session = files[u].password)
        => session = 0 /\ (files[u] # None => files[u].password > 0)
    BY <1>2, <1>4
  <2> HIDE DEF u
  <2> QED BY <1>1, <1>3, <2>1, <2>2, <2>3 DEF Refuted, Admitted
<1>6. KeyFits(t)'
  BY <1>3 DEF KeyFits
<1>7. ASSUME NEW s \in Requests \ {t}
      PROVE  KeyFits(s)' /\ Refuted(s)'
  BY <1>1, <1>3, <1>7 DEF RevokesInv, KeyFits, Refuted, Fits
<1>8. Stamped' /\ CacheFits'
  BY <1>1 DEF RevokesInv, Stamped, CacheFits, Fits
<1> QED BY <1>5, <1>6, <1>7, <1>8 DEF RevokesInv

(* The handlers' own steps, while the files stay as they are.              *)
LEMMA RevokesMoved ==
    ASSUME Typed, RevokesInv, NEW t \in Requests, Moved(t, req[t].ask), UNCHANGED req, Quiet
    PROVE  RevokesInv'
<1> DEFINE u == req[t].ask.user
<1>1. u \in Users /\ UNCHANGED <<files, last, clock, reused>>
  BY DEF Typed, TypeOK, Request, Ask, Quiet
<1>2. ASSUME NEW s \in Requests \ {t}
      PROVE  KeyFits(s)' /\ Refuted(s)'
  <2>1. pc'[s] = pc[s] /\ got'[s] = got[s] /\ key'[s] = key[s]
    BY DEF Moved, Apart, Workers
  <2> QED BY <1>1, <2>1 DEF RevokesInv, KeyFits, Refuted, Fits
<1>3. CacheFits'
  <2>1. cache \in [Users -> [mtime : Nat, cfg : Config] \cup {None}]
    BY DEF Typed, TypeOK
  <2>2. CASE cache' = cache
    BY <1>1, <2>2 DEF RevokesInv, CacheFits, Fits
  <2>3. CASE cache' = [cache EXCEPT ![u] = None]
    BY <1>1, <2>1, <2>3 DEF RevokesInv, CacheFits, Fits
  <2>4. CASE pc[t] = "store" /\ cache' = [cache EXCEPT ![u] = [mtime |-> key[t], cfg |-> got[t]]]
    <3>1. /\ \A v \in Users \ {u} : cache'[v] = cache[v]
          /\ cache'[u] = [mtime |-> key[t], cfg |-> got[t]]
      BY <1>1, <2>1, <2>4
    <3>2. cache'[u].mtime = key[t] /\ cache'[u].cfg = got[t]
      BY <3>1
    <3>3. u \notin reused => Fits(u, key[t], got[t])
      BY <2>4 DEF RevokesInv, KeyFits
    <3> HIDE DEF u
    <3> QED BY <1>1, <3>1, <3>2, <3>3 DEF RevokesInv, CacheFits, Fits
  <2> QED BY <2>2, <2>3, <2>4 DEF Moved, Cached
<1>4. key[t] \in Nat /\ last[u] \in Nat
  BY <1>1 DEF Typed, TypeOK
<1>5. KeyFits(t)' /\ Refuted(t)'
  <2> HIDE DEF u
  <2>0. pc[t] # "start"
    BY DEF Moved
  <2>1. CASE pc'[t] = "done"
    BY <1>1, <2>0, <2>1 DEF RevokesInv, KeyFits, Refuted, Admitted
  <2>2. CASE LoginMoved(t, u)
    <3> USE <1>1, <1>4, <2>0 DEF KeyFits, Refuted, Admitted, u
    <3>1. CASE pc[t] \in {"stat", "parse"} /\ pc'[t] = "session" /\ got'[t] = None
      BY <3>1 DEF RevokesInv
    <3>2. CASE /\ pc[t] = "stat" /\ pc'[t] = "session"
               /\ files[u] # None /\ cache[u] # None /\ cache[u].mtime = files[u].mtime
               /\ got'[t] = cache[u].cfg
      <4>1. u \notin reused => got'[t] = files[u]
        BY <3>2 DEF RevokesInv, Stamped, CacheFits, Fits
      <4> QED BY <3>2, <4>1 DEF RevokesInv
    <3>3. CASE pc[t] = "stat" /\ pc'[t] = "parse" /\ files[u] # None /\ key'[t] = files[u].mtime
      BY <3>3 DEF RevokesInv, Stamped
    <3>4. CASE /\ pc[t] = "parse" /\ pc'[t] = "store"
               /\ files[u] # None /\ got'[t] = files[u] /\ key'[t] = key[t]
      BY <3>4 DEF RevokesInv, Fits
    <3>5. CASE pc[t] = "store" /\ pc'[t] = "session" /\ got'[t] = got[t]
      <4>1. got[t] # None
        BY <3>5 DEF Typed, Stored
      <4> QED BY <3>5, <4>1 DEF RevokesInv
    <3> QED BY <2>2, <3>1, <3>2, <3>3, <3>4, <3>5 DEF LoginMoved
  <2>3. CASE WorkMoved(t, req[t].ask)
    <3>1. Inside(t) /\ pc'[t] \in Admitted \cup {"missing"}
      BY <2>3 DEF WorkMoved, Admitted
    <3>2. ~req[t].current => u \in reused
      <4>1. CASE pc[t] \in Admitted
        BY <2>0, <4>1 DEF RevokesInv, Refuted, u
      <4>2. CASE pc[t] = "session" /\ SessionValid(t)
        BY <4>2 DEF RevokesInv, Refuted, SessionValid, u
      <4> QED BY <3>1, <4>1, <4>2 DEF Inside
    <3> QED BY <1>1, <2>0, <3>1, <3>2 DEF RevokesInv, KeyFits, Refuted, Admitted, u
  <2> QED BY <2>1, <2>2, <2>3 DEF Moved, u
<1>6. Stamped'
  BY <1>1 DEF RevokesInv, Stamped
<1> QED BY <1>2, <1>3, <1>5, <1>6 DEF RevokesInv

(* A new version has an mtime nobody has seen, or the account is reused.   *)
LEMMA FitsWritten ==
    ASSUME TypeOK, TypeOK', Stamped, NEW u \in Users, NEW password, Written(u, password),
           NEW v \in Users \ reused', NEW mtime \in Nat, NEW cfg, Fits(v, mtime, cfg)
    PROVE  /\ mtime <= last'[v]
           /\ mtime = last'[v] /\ files'[v] # None => cfg = files'[v]
<1>1. last[v] \in Nat /\ last'[v] \in Nat /\ clock \in Nat
  BY DEF TypeOK
<1>2. mtime <= last[v] /\ last[v] <= clock
  BY DEF Fits, Stamped
<1>3. CASE v = u
  <2>1. clock <= last'[v] /\ last'[v] # last[v]
    BY <1>3 DEF Written
  <2>2. mtime <= last'[v] /\ mtime # last'[v]
    BY <1>1, <1>2, <2>1
  <2> QED BY <2>2
<1>4. CASE v # u
  BY <1>4 DEF Written, Fits
<1> QED BY <1>3, <1>4

LEMMA RevokesWritten ==
    ASSUME Typed, Typed', RevokesInv, NEW u \in Users, NEW password \in Nat, Written(u, password),
           password > 0 \/ (files[u] # None /\ password = files[u].password),
           UNCHANGED <<req, cache>>
    PROVE  /\ Stamped' /\ CacheFits'
           /\ \A t \in Requests : pc'[t] = pc[t] /\ got'[t] = got[t] /\ key'[t] = key[t]
                                 => KeyFits(t)' /\ Refuted(t)'
<1>1. TypeOK /\ TypeOK'
  BY DEF Typed
<1>2. reused \subseteq reused' /\ \A v \in Users \ {u} : files'[v] = files[v] /\ last'[v] = last[v]
  BY DEF Written
<1>3. \A v \in Users : last[v] \in Nat /\ last'[v] \in Nat /\ clock \in Nat /\ clock' \in Nat
  BY <1>1 DEF TypeOK
<1>4. \A v \in Users : last[v] <= last'[v]
  BY <1>2, <1>3 DEF Written, RevokesInv, Stamped
<1>5. Stamped'
  <2>1. /\ clock <= last'[u] /\ clock' = last'[u]
        /\ files'[u].mtime = last'[u]
    BY DEF Written
  <2>2. \A v \in Users : last[v] <= clock /\ (files[v] # None => files[v].mtime = last[v])
    BY DEF RevokesInv, Stamped
  <2> QED BY <1>2, <1>3, <2>1, <2>2 DEF Stamped
<1>6. CacheFits'
  <2>1. SUFFICES ASSUME NEW v \in Users \ reused', cache[v] # None
                 PROVE  /\ cache[v].mtime <= last'[v]
                        /\ cache[v].mtime = last'[v] /\ files'[v] # None => cache[v].cfg = files'[v]
    BY DEF CacheFits, Fits
  <2>2. cache[v].mtime \in Nat
    BY <1>1, <2>1 DEF TypeOK
  <2>3. Stamped /\ Fits(v, cache[v].mtime, cache[v].cfg)
    BY <1>2, <2>1 DEF RevokesInv, CacheFits
  <2> QED BY <1>1, <2>1, <2>2, <2>3, FitsWritten
<1>7. ASSUME NEW t \in Requests, pc'[t] = pc[t], got'[t] = got[t], key'[t] = key[t]
      PROVE  KeyFits(t)' /\ Refuted(t)'
  <2> DEFINE v == req[t].ask.user
  <2>1. v \in Users /\ key[t] \in Nat
    BY <1>1 DEF TypeOK, Request, Ask
  <2>2. pc[t] = "parse" => key[t] <= last'[v]
    BY <1>3, <1>4, <2>1 DEF RevokesInv, KeyFits
  <2>3. ASSUME pc[t] = "store", v \notin reused'
        PROVE  /\ key[t] <= last'[v]
               /\ key[t] = last'[v] /\ files'[v] # None => got[t] = files'[v]
    <3>1. Stamped /\ Fits(v, key[t], got[t])
      BY <1>2, <2>3 DEF RevokesInv, KeyFits
    <3> HIDE DEF v
    <3> QED BY <1>1, <2>1, <2>3, <3>1, FitsWritten
  <2>4. KeyFits(t)'
    BY <1>7, <2>2, <2>3 DEF KeyFits, Fits
  <2>5. Refuted(t)'
    <3>1. SUFFICES ASSUME pc[t] # "start", ~req[t].current
                   PROVE  /\ req[t].session = 0
                          /\ files'[v] # None => files'[v].password > 0
                          /\ v \notin reused' =>
                               /\ pc[t] = "store" \/ (pc[t] = "session" /\ got[t] # None)
                                    => got[t].password > 0
                               /\ pc[t] \notin Admitted
      BY <1>7 DEF Refuted
    <3>2. /\ req[t].session = 0
          /\ files[v] # None => files[v].password > 0
          /\ v \notin reused =>
               /\ pc[t] = "store" \/ (pc[t] = "session" /\ got[t] # None) => got[t].password > 0
               /\ pc[t] \notin Admitted
      BY <3>1 DEF RevokesInv, Refuted
    <3>3. files'[v] # None => files'[v].password > 0
      <4> HIDE DEF v
      <4>1. CASE v = u
        BY <3>2, <4>1 DEF Written
      <4>2. CASE v # u
        BY <1>2, <2>1, <3>2, <4>2
      <4> QED BY <4>1, <4>2
    <3> QED BY <1>2, <3>2, <3>3
  <2> QED BY <2>4, <2>5
<1> QED BY <1>5, <1>6, <1>7

LEMMA RevokesHandle ==
    ASSUME Typed, Typed', RevokesInv, NEW t \in Requests, Handle(t)
    PROVE  RevokesInv'
<1>1. Moved(t, req[t].ask) /\ UNCHANGED req /\ (Edit(t) \/ Quiet)
  BY HandleMoves, HandleWrites DEF Typed
<1>2. CASE Edit(t)
  <2> DEFINE u == req[t].ask.user
  <2>1. /\ files[u] # None /\ Written(u, files[u].password)
        /\ u \in Users /\ files[u].password \in Nat
    BY <1>2, EditMoves DEF Typed, TypeOK, Request, Ask, Config
  <2>2. UNCHANGED cache /\ pc[t] = "edit" /\ pc' = [pc EXCEPT ![t] = "list"]
    BY <1>2 DEF Edit, Goto
  <2>3. \A s \in Requests \ {t} : pc'[s] = pc[s] /\ got'[s] = got[s] /\ key'[s] = key[s]
    BY <1>1 DEF Moved, Apart, Workers
  <2> HIDE DEF u
  <2>4. /\ Stamped' /\ CacheFits'
        /\ \A s \in Requests \ {t} : KeyFits(s)' /\ Refuted(s)'
    BY <1>1, <2>1, <2>2, <2>3, RevokesWritten
  <2>5. pc'[t] = "list"
    BY <2>2 DEF Typed, TypeOK, Workers
  <2>6. req[t].current \/ u \in reused
    BY <2>2 DEF RevokesInv, Refuted, Admitted, u
  <2>7. reused \subseteq reused'
    BY <2>1 DEF Written
  <2>8. KeyFits(t)'
    BY <2>5 DEF KeyFits
  <2>9. Refuted(t)'
    <3>1. CASE req[t].current
      BY <1>1, <3>1 DEF Refuted
    <3>2. CASE ~req[t].current
      <4>1. req[t].session = 0 /\ files[u].password > 0
        BY <2>1, <2>2, <3>2 DEF RevokesInv, Refuted, u
      <4>2. files'[u].password > 0
        BY <2>1, <4>1 DEF Written
      <4> QED BY <1>1, <2>6, <2>7, <3>2, <4>1, <4>2 DEF Refuted, u
    <3> QED BY <3>1, <3>2
  <2> QED BY <2>4, <2>8, <2>9 DEF RevokesInv
<1>3. CASE Quiet
  BY <1>1, <1>3, RevokesMoved
<1> QED BY <1>1, <1>2, <1>3

LEMMA RevokesAdmin ==
    ASSUME Typed, Typed', RevokesInv, NEW u \in Users, Admin(u)
    PROVE  RevokesInv'
<1>1. UNCHANGED <<pc, got, key, cache, req>>
  BY AdminMoves DEF Typed
<1>2. CASE Removed(u)
  <2>1. /\ UNCHANGED <<clock, last, reused>>
        /\ \A v \in Users : files'[v] = None \/ files'[v] = files[v]
    BY <1>2 DEF Removed, Typed, TypeOK
  <2>2. Stamped'
    BY <2>1 DEF RevokesInv, Stamped
  <2>3. CacheFits'
    BY <1>1, <2>1 DEF RevokesInv, CacheFits, Fits
  <2>4. ASSUME NEW t \in Requests
        PROVE  KeyFits(t)' /\ Refuted(t)'
    <3>1. req[t].ask.user \in Users
      BY DEF Typed, TypeOK, Request, Ask
    <3>2. KeyFits(t) /\ Refuted(t)
      BY DEF RevokesInv
    <3>3. KeyFits(t)'
      BY <1>1, <2>1, <3>1, <3>2 DEF KeyFits, Fits
    <3>4. Refuted(t)'
      BY <1>1, <2>1, <3>1, <3>2 DEF Refuted
    <3> QED BY <3>3, <3>4
  <2> QED BY <2>2, <2>3, <2>4 DEF RevokesInv
<1>3. CASE \E password \in Nat :
             /\ Written(u, password)
             /\ password > 0 \/ (files[u] # None /\ password = files[u].password)
  <2>1. PICK password \in Nat :
             /\ Written(u, password)
             /\ password > 0 \/ (files[u] # None /\ password = files[u].password)
    BY <1>3
  <2> QED BY <1>1, <2>1, RevokesWritten DEF RevokesInv
<1> QED BY <1>2, <1>3, AdminMoves DEF Typed

(* A session signed for a password that has been replaced when the request *)
(* begins is refused, whatever other requests put into the login cache in  *)
(* the meantime; only two writes of a file within one mtime can undo this. *)
THEOREM RevokedAreRefused == Spec => []RevokedRefused
<1>1. ASSUME Typed, Typed', RevokesInv, [Next]_vars
      PROVE  RevokesInv'
  <2>1. CASE Scanning
    <3>1. UNCHANGED <<files, last, clock, reused, req, got, key, cache>>
      BY <2>1 DEF Scanning, Quiet
    <3>2. Stamped' /\ CacheFits'
      BY <1>1, <3>1 DEF RevokesInv, Stamped, CacheFits, Fits
    <3>3. ASSUME NEW t \in Requests
          PROVE  KeyFits(t)' /\ Refuted(t)'
      <4>1. \/ pc'[t] = pc[t]
            \/ pc[t] \in {"list", "load"} /\ pc'[t] \in {"load", "sleep"} \cup Returns
        BY <1>1, <2>1 DEF Scanning, Typed, Returning
      <4>2. KeyFits(t) /\ Refuted(t)
        BY <1>1 DEF RevokesInv
      <4> QED BY <3>1, <4>1, <4>2 DEF KeyFits, Refuted, Admitted, Returns, Fits
    <3> QED BY <3>2, <3>3 DEF RevokesInv
  <2>2. TypeOK
    BY <1>1 DEF Typed
  <2> QED BY <1>1, <2>1, <2>2, NextKinds, RevokesBegin, RevokesHandle, RevokesAdmin
<1>2. RevokesInv => RevokedRefused
  BY DEF RevokesInv, Refuted, RevokedRefused, Admitted
<1> QED BY <1>1, <1>2, RevokesInit, AlwaysTyped, PTL DEF Spec

-----------------------------------------------------------------------------
(* What anybody comes to hold of an account is its file, or nothing.       *)
LEMMA ReloadCopies ==
    ASSUME Typed, NEW w \in Workers, Reload(w), ~failed', UNCHANGED req,
           NEW v \in Workers, NEW u \in Users, Holds(v, u)'
    PROVE  \/ InHand(v, u)' \in {None, files[u]}
           \/ Holds(v, u) /\ InHand(v, u)' = InHand(v, u)
<1>1. /\ pc \in [Workers -> Places] /\ todo \in [Workers -> SUBSET Users]
      /\ found \in [Workers -> [Users -> Config \cup {None}]]
  BY DEF Typed, TypeOK
<1> USE DEF Goto, Holds, InHand
<1>2. CASE ReadDir(w)
  BY <1>1, <1>2 DEF ReadDir, NoUsers, lookups
<1>3. CASE ReadDirFails(w)
  BY <1>3 DEF ReadDirFails, Fault
<1>4. CASE LoadNext(w)
  <2>1. PICK x \in todo[w] : /\ todo' = [todo EXCEPT ![w] = todo[w] \ {x}]
                             /\ found' = [found EXCEPT ![w][x] = files[x]] \/ Fault
    BY <1>4 DEF LoadNext
  <2>2. found' = [found EXCEPT ![w][x] = files[x]]
    BY <2>1 DEF Fault
  <2>3. pc' = pc /\ pc[w] = "load" /\ got' = got
    BY <1>1, <1>4 DEF LoadNext, lookups
  <2>4. CASE v # w \/ u # x
    BY <1>1, <2>1, <2>2, <2>3, <2>4
  <2>5. CASE v = w /\ u = x
    BY <1>1, <2>1, <2>2, <2>3, <2>5
  <2> QED BY <2>4, <2>5
<1>5. CASE Swap(w)
  <2>1. w \in Requests => back[w] # "insert"
    BY DEF Typed, Returning, Returns
  <2> QED BY <1>1, <1>5, <2>1 DEF Swap, NoUsers, lookups
<1> QED BY <1>2, <1>3, <1>4, <1>5 DEF Reload

LEMMA HandleCopies ==
    ASSUME TypeOK, NEW t \in Requests, Handle(t), ~failed',
           NEW v \in Workers, NEW u \in Users, Holds(v, u)'
    PROVE  \/ InHand(v, u)' \in {None, files[u]}
           \/ Holds(v, u) /\ InHand(v, u)' = InHand(v, u)
<1>1. /\ pc \in [Workers -> Places] /\ got \in [Requests -> Config \cup {None}] /\ t \in Workers
  BY DEF TypeOK, Workers
<1>2. UNCHANGED <<req, todo, found>>
  BY DEF Handle, GetUserConfigForLogin, StatLogin, ParseLogin, StoreLogin, Unauthorized, Refuse,
     FindUser, GetUser, EnsureFresh, Lookup, LoadUser, Insert, ValidateHostnames, Edit, scanning
<1>3. ASSUME v # t
      PROVE  Holds(v, u) /\ InHand(v, u)' = InHand(v, u)
  <2>1. pc'[v] = pc[v] /\ (v \in Requests => got'[v] = got[v])
    BY <1>3, HandleMoves DEF Moved, Apart
  <2> QED BY <1>2, <2>1 DEF Holds, InHand
<1>4. ASSUME v = t
      PROVE  InHand(v, u)' \in {None, files[u]}
  <2>1. pc'[t] \in {"load", "insert"}
    BY <1>4 DEF Holds
  <2>2. pc'[t] = "insert" /\ got'[t] = files[req[t].ask.user]
    <3> USE DEF Goto
    <3>1. CASE GetUserConfigForLogin(t, req[t].ask.user, "session")
      BY <1>1, <2>1, <3>1 DEF GetUserConfigForLogin, StatLogin, ParseLogin, StoreLogin
    <3>2. CASE Unauthorized(t) \/ Refuse(t)
      BY <1>1, <2>1, <3>2 DEF Unauthorized, Refuse
    <3>3. CASE FindUser(t)
      <4> DEFINE a == req[t].ask
                 next == IF a.kind = "list" THEN "done" ELSE IF a.host # None THEN "validate" ELSE "edit"
      <4>1. next \notin {"load", "insert", "lookup"}
        OBVIOUS
      <4>2. PICK from \in {"session", "answer"}, to \in {next, "done"}, missing \in {"missing", "done"} :
              GetUser(t, a.user, from, to, missing)
        BY <3>3, Zenon DEF FindUser
      <4> HIDE DEF next, a
      <4> QED BY <1>1, <2>1, <4>1, <4>2 DEF GetUser, EnsureFresh, Lookup, LoadUser, Insert, a
    <3>4. CASE ValidateHostnames(t)
      BY <1>1, <2>1, <3>4 DEF ValidateHostnames, EnsureFresh
    <3>5. CASE Edit(t)
      BY <1>1, <2>1, <3>5 DEF Edit
    <3> QED BY <3>1, <3>2, <3>3, <3>4, <3>5 DEF Handle
  <2> QED BY <1>2, <1>4, <2>2 DEF Holds, InHand
<1> QED BY <1>3, <1>4

LEMMA Copies ==
    ASSUME Typed, [Next]_vars, ~failed',
           NEW v \in Workers, NEW u \in Users, Holds(v, u)'
    PROVE  \/ InHand(v, u)' \in {None, files[u]}
           \/ Holds(v, u) /\ InHand(v, u)' = InHand(v, u)
<1>1. CASE \E t \in Requests : Begin(t)
  <2>1. PICK t \in Requests : Begin(t)
    BY <1>1
  <2>2. /\ pc' = [pc EXCEPT ![t] = "stat"] /\ UNCHANGED <<todo, found, got>>
        /\ \E x : req' = [req EXCEPT ![t] = x]
    BY <2>1 DEF Begin, Goto, scanning, lookups
  <2> QED BY <2>2 DEF Typed, TypeOK, Holds, InHand, Workers
<1>2. ASSUME NEW w \in Workers, Step(w)
      PROVE  \/ InHand(v, u)' \in {None, files[u]}
             \/ Holds(v, u) /\ InHand(v, u)' = InHand(v, u)
  <2>1. CASE w = Scanner /\ ScanTick /\ UNCHANGED req
    BY <2>1 DEF ScanTick, Goto, Typed, TypeOK, Holds, InHand, scanning, lookups
  <2> QED BY <1>2, <2>1, ReloadCopies, HandleCopies DEF Step, Typed
<1>3. CASE \/ Lapse /\ UNCHANGED req
           \/ \E x \in Managed : Admin(x)
           \/ UNCHANGED vars
  BY <1>3 DEF Lapse, Admin, vars, registryVars, Holds, InHand, scanning, lookups
<1> QED BY <1>1, <1>2, <1>3 DEF Next

(* Versions count up.                                                      *)
LEMMA Versions ==
    ASSUME TypeOK, [Next]_vars, NEW u \in Users
    PROVE  /\ writes' \in {writes, writes + 1}
           /\ \/ files'[u] \in {None, files[u]}
              \/ files'[u].ver = writes + 1
<1>1. ASSUME NEW v \in Users, NEW password, Written(v, password)
      PROVE  /\ writes' = writes + 1
             /\ files'[u] = files[u] \/ files'[u].ver = writes + 1
  BY <1>1 DEF Written
<1>2. ASSUME NEW v \in Users, Removed(v)
      PROVE  writes' = writes /\ files'[u] \in {None, files[u]}
  BY <1>2 DEF Removed, TypeOK
<1>3. ASSUME NEW t \in Requests, Handle(t)
      PROVE  \/ UNCHANGED <<files, writes>>
             \/ \E v \in Users : \E password : Written(v, password)
  <2>1. req[t].ask.user \in Users
    BY DEF TypeOK, Request, Ask
  <2> QED BY <1>3, <2>1, HandleWrites, EditMoves DEF Quiet
<1>4. ASSUME NEW t \in Requests, Begin(t) PROVE UNCHANGED <<files, writes>>
  BY <1>4 DEF Begin
<1>5. ASSUME Scanning PROVE UNCHANGED <<files, writes>>
  BY <1>5 DEF Scanning, Quiet
<1> QED BY <1>1, <1>2, <1>3, <1>4, <1>5, AdminMoves, NextKinds

(* Between its edit and its answer, a handler does what it does for that   *)
(* answer alone.                                                           *)
Newer(record, version) == record = None \/ record.ver >= version

Replying == {"list", "load", "answer", "lookup", "miss", "insert", "done"}

Replies(t) == pc[t] \in Replying /\ back[t] \in {"answer", "lookup", "done"}

(* It has reloaded the registry since.                                     *)
Reloaded(t) == pc[t] \notin {"list", "load"}

Answering(t, u) ==
    /\ Replies(t)' /\ edited'[t] = edited[t] /\ overlap'[t] = overlap[t]
    /\ \/ got'[t] \in {None, got[t], files[u]}
       \/ Reloaded(t) /\ got'[t] = users[u]
    /\ Reloaded(t)' =>
         \/ Reloaded(t)
         \/ Holds(t, u) /\ users'[u] = InHand(t, u)
         \/ failed'

LEMMA OwnAnswer ==
    ASSUME Typed, NEW t \in Requests, Handle(t), edited[t] # 0, Replies(t)
    PROVE  Answering(t, req[t].ask.user)
<1> DEFINE a == req[t].ask
           next == IF a.kind = "list" THEN "done" ELSE IF a.host # None THEN "validate" ELSE "edit"
<1>1. /\ pc \in [Workers -> Places] /\ got \in [Requests -> Config \cup {None}]
      /\ back \in [Workers -> Places] /\ t \in Workers
  BY DEF Typed, TypeOK, Workers
<1> USE DEF Goto, Replies, Replying
<1>2. ~GetUserConfigForLogin(t, a.user, "session") /\ ~Unauthorized(t) /\ ~Refuse(t)
      /\ ~ValidateHostnames(t) /\ ~Edit(t)
  BY DEF GetUserConfigForLogin, StatLogin, ParseLogin, StoreLogin, Unauthorized, Refuse,
         ValidateHostnames, EnsureFresh, Ready, Edit
<1>3. FindUser(t) /\ UNCHANGED <<edited, overlap>>
  BY <1>2 DEF Handle, history
<1>4. GetUser(t, a.user, "answer", "done", "done")
  BY <1>3, Zenon DEF FindUser
<1> USE <1>1, <1>3 DEF Answering, Reloaded, scanning, lookups, snapshot
<1>5. CASE EnsureFresh(t, "answer", "lookup")
  BY <1>5 DEF EnsureFresh
<1>6. CASE Lookup(t, a.user, "answer", "done")
  BY <1>6 DEF Lookup, Ready
<1>7. CASE LoadUser(t, a.user, "done")
  BY <1>7 DEF LoadUser
<1>8. CASE Insert(t, a.user, "done")
  BY <1>8 DEF Insert
<1> QED BY <1>4, <1>5, <1>6, <1>7, <1>8 DEF GetUser

LEMMA OwnReload ==
    ASSUME Typed, NEW t \in Requests, Reload(t), UNCHANGED <<edited, overlap>>, Replies(t),
           NEW u \in Users
    PROVE  Answering(t, u)
<1>1. /\ pc \in [Workers -> Places] /\ t \in Workers /\ UNCHANGED <<got, back>>
      /\ pc'[t] \in {"load", back[t]}
  BY ReloadMoves DEF Typed, TypeOK, Workers
<1> USE <1>1 DEF Goto, Answering, Reloaded, Replies, Replying
<1>2. CASE ReadDir(t) \/ LoadNext(t)
  BY <1>2 DEF ReadDir, LoadNext
<1>3. CASE ReadDirFails(t)
  BY <1>3 DEF ReadDirFails, Fault
<1>4. CASE Swap(t)
  BY <1>4 DEF Swap, Holds, InHand
<1> QED BY <1>2, <1>3, <1>4 DEF Reload

LEMMA AnswerMoves ==
    ASSUME Typed, [Next]_vars, NEW t \in Requests, edited[t] # 0, Replies(t)
    PROVE  Answering(t, req[t].ask.user)
<1> DEFINE u == req[t].ask.user
<1>0. TypeOK /\ u \in Users /\ t \in Workers
  BY DEF Typed, TypeOK, Request, Ask, Workers
<1>1. ASSUME pc'[t] = pc[t], got'[t] = got[t], back'[t] = back[t],
             edited'[t] = edited[t], overlap'[t] = overlap[t]
      PROVE  Answering(t, u)
  BY <1>1 DEF Answering, Replies, Reloaded
<1>2. ASSUME NEW s \in Requests, Begin(s) PROVE Answering(t, u)
  <2>1. /\ pc[s] = "start" /\ pc' = [pc EXCEPT ![s] = "stat"]
        /\ UNCHANGED <<got, back, edited, overlap>>
    BY <1>2, Zenon DEF Begin, Goto, history, lookups, scanning
  <2> QED BY <1>0, <1>1, <2>1 DEF Replies, Replying, TypeOK
<1>3. ASSUME NEW w \in Workers, Step(w) PROVE Answering(t, u)
  <2>1. CASE w = t /\ Handle(t)
    BY <2>1, OwnAnswer
  <2>2. CASE w # t /\ w \in Requests /\ Handle(w)
    <3>1. pc'[t] = pc[t] /\ got'[t] = got[t] /\ back'[t] = back[t]
      BY <1>0, <2>2, HandleMoves DEF Moved, Apart
    <3>2. edited'[t] = edited[t] /\ overlap'[t] = overlap[t]
      <4>1. CASE Edit(w)
        BY <1>0, <2>2, <4>1, EditMoves DEF Edit, TypeOK
      <4>2. CASE Quiet
        BY <4>2 DEF Quiet
      <4> QED BY <1>0, <2>2, <4>1, <4>2, HandleWrites
    <3> QED BY <1>1, <3>1, <3>2
  <2>3. CASE Reload(w) /\ UNCHANGED <<edited, overlap>>
    <3>1. CASE w = t
      BY <1>0, <2>3, <3>1, OwnReload
    <3>2. CASE w # t
      <4>1. pc'[t] = pc[t] /\ UNCHANGED <<got, back>>
        BY <1>0, <2>3, <3>2, ReloadMoves
      <4> QED BY <1>1, <2>3, <4>1
    <3> QED BY <3>1, <3>2
  <2>4. CASE ScanTick /\ UNCHANGED <<edited, overlap>>
    <3>1. pc'[t] = pc[t] /\ UNCHANGED <<got, back>>
      BY <1>0, <2>4, ScannerAssumption DEF ScanTick, Goto, TypeOK, lookups, scanning
    <3> QED BY <1>1, <2>4, <3>1
  <2> QED BY <1>3, <2>1, <2>2, <2>3, <2>4 DEF Step, history
<1>4. CASE \/ Lapse /\ UNCHANGED <<edited, overlap>>
           \/ \E x \in Managed : Admin(x)
           \/ UNCHANGED vars
  <2>1. UNCHANGED <<pc, got, back, edited, overlap>>
    BY <1>4 DEF Lapse, Admin, vars, registryVars, history, lookups, scanning
  <2> QED BY <1>1, <2>1
<1> QED BY <1>2, <1>3, <1>4 DEF Next, history

(* What the answer may be made of shows the edit, once it has been made:   *)
(* the file, what anybody holds of it, and the snapshot after the reload.  *)
Shows(t) ==
    LET u == req[t].ask.user IN
    /\ Newer(files[u], edited[t])
    /\ \A w \in Workers : Holds(w, u) => Newer(InHand(w, u), edited[t])
    /\ Reloaded(t) => Newer(users[u], edited[t])
    /\ Newer(got[t], edited[t])

ShowsInv ==
    \A t \in Requests :
      /\ edited[t] <= writes
      /\ edited[t] # 0 => Replies(t)
      /\ edited[t] # 0 /\ ~overlap[t] /\ ~failed => Shows(t)

LEMMA EditStarts ==
    ASSUME Typed, NEW t \in Requests, Edit(t), UNCHANGED req
    PROVE  /\ edited'[t] = writes + 1 /\ writes' = writes + 1
           /\ Replies(t)'
           /\ ~overlap'[t] => Shows(t)'
<1> DEFINE u == req[t].ask.user
<1>1. /\ u \in Users /\ t \in Workers /\ writes \in Nat
      /\ pc \in [Workers -> Places] /\ edited \in [Requests -> Nat]
      /\ got \in [Requests -> Config \cup {None}] /\ back \in [Workers -> Places]
      /\ overlap \in [Requests -> BOOLEAN]
  BY DEF Typed, TypeOK, Request, Ask, Workers
<1>2. /\ pc' = [pc EXCEPT ![t] = "list"] /\ back' = [back EXCEPT ![t] = Afterwards(req[t].ask)]
      /\ edited' = [edited EXCEPT ![t] = writes + 1] /\ got' = [got EXCEPT ![t] = None]
      /\ overlap' = [overlap EXCEPT ![t] = \E w \in Workers \ {t} : Holds(w, u)]
      /\ UNCHANGED <<todo, found>>
  BY Zenon DEF Edit, Goto
<1>3. files'[u].ver = writes + 1 /\ writes' = writes + 1
  BY <1>1, EditMoves DEF Typed, Written
<1>4. /\ pc'[t] = "list" /\ back'[t] = Afterwards(req[t].ask)
      /\ edited'[t] = writes + 1 /\ got'[t] = None
      /\ overlap'[t] = \E w \in Workers \ {t} : Holds(w, u)
  BY <1>1, <1>2, Zenon
<1>5. Replies(t)'
  BY <1>4 DEF Replies, Replying, Afterwards
<1>6. ASSUME NEW w \in Workers, Holds(w, u)'
      PROVE  overlap'[t]
  <2>1. w # t
    BY <1>4, <1>6 DEF Holds
  <2>2. Holds(w, u)
    BY <1>1, <1>2, <1>6, <2>1 DEF Holds
  <2> QED BY <1>4, <2>1, <2>2
<1>7. ~overlap'[t] => Shows(t)'
  BY <1>1, <1>3, <1>4, <1>6 DEF Shows, Newer, Reloaded
<1> QED BY <1>3, <1>4, <1>5, <1>7

(* Whatever else happens, its edit, its request and a failure stand.       *)
LEMMA Elsewhere ==
    ASSUME TypeOK, [Next]_vars, NEW t \in Requests, ~(Handle(t) /\ Edit(t))
    PROVE  edited'[t] = edited[t] /\ req'[t].ask = req[t].ask /\ (failed => failed')
<1>1. ASSUME NEW s \in Requests, Begin(s) PROVE edited' = edited /\ req'[t].ask = req[t].ask /\ failed' = failed
  <2>1. UNCHANGED <<edited, failed>>
    BY <1>1 DEF Begin, bounds
  <2>2. \E session, current : req' = [req EXCEPT ![s] = [ask |-> req[s].ask, session |-> session,
                                                        current |-> current]]
    BY <1>1, Zenon DEF Begin
  <2> QED BY <2>1, <2>2 DEF TypeOK
<1>2. ASSUME NEW s \in Requests, Handle(s)
      PROVE  edited'[t] = edited[t] /\ req' = req /\ (failed => failed')
  <2>1. req' = req /\ (failed => failed') /\ (Edit(s) \/ Quiet)
    BY <1>2, HandleWrites, HandleMoves DEF Moved, Apart
  <2> QED BY <1>2, <2>1, EditMoves DEF Quiet
<1>3. ASSUME Scanning PROVE edited' = edited /\ req' = req /\ (failed => failed')
  BY <1>3 DEF Scanning, Quiet
<1>4. ASSUME NEW u \in Users, Admin(u) PROVE edited' = edited /\ req' = req /\ failed' = failed
  BY <1>4, AdminMoves
<1> QED BY <1>1, <1>2, <1>3, <1>4, NextKinds

LEMMA ShowsKept ==
    ASSUME Typed, [Next]_vars, NEW t \in Requests, edited[t] # 0, edited[t] <= writes, Replies(t),
           req'[t].ask = req[t].ask, ~failed', Shows(t)
    PROVE  Shows(t)'
<1>0. PICK u \in Users, e \in Nat : req[t].ask.user = u /\ edited[t] = e
  BY DEF Typed, TypeOK, Request, Ask
<1>1. TypeOK /\ writes \in Nat /\ e <= writes
  BY <1>0 DEF Typed, TypeOK
<1>2. Answering(t, u)
  BY <1>0, AnswerMoves
<1>3. /\ Newer(files[u], e) /\ Newer(got[t], e)
      /\ \A w \in Workers : Holds(w, u) => Newer(InHand(w, u), e)
      /\ Reloaded(t) => Newer(users[u], e)
  BY <1>0 DEF Shows
<1>4. edited'[t] = e /\ req'[t].ask.user = u
  BY <1>0, <1>2 DEF Answering
<1>5. Newer(files'[u], e)
  <2>1. files'[u] \in {None, files[u]} \/ files'[u].ver = writes + 1
    BY <1>1, Versions
  <2>2. writes + 1 >= e
    BY <1>1
  <2> QED BY <1>3, <2>1, <2>2 DEF Newer
<1>6. ASSUME NEW w \in Workers, Holds(w, u)'
      PROVE  Newer(InHand(w, u)', e)
  <2>1. \/ InHand(w, u)' \in {None, files[u]}
        \/ Holds(w, u) /\ InHand(w, u)' = InHand(w, u)
    BY <1>1, <1>6, Copies
  <2> QED BY <1>3, <2>1 DEF Newer
<1>7. Reloaded(t)' => Newer(users'[u], e)
  <2>1. Reloaded(t)' => Newer(users[u], e) \/ Newer(users'[u], e)
    BY <1>2, <1>3 DEF Answering, Workers
  <2>2. \/ users'[u] = users[u]
        \/ \E w \in Workers : Holds(w, u) /\ users'[u] = InHand(w, u)
    BY <1>1, SnapshotFrom
  <2> QED BY <1>3, <2>1, <2>2
<1>8. Newer(got'[t], e)
  BY <1>2, <1>3 DEF Answering, Newer
<1> QED BY <1>4, <1>5, <1>6, <1>7, <1>8 DEF Shows

(* After an edit that nobody overlapped, the file, all copies under way    *)
(* and, once reloaded, the snapshot are that version or a later one, so    *)
(* the handler answers with no older one, whoever reloads, looks up or     *)
(* writes in between.                                                      *)
THEOREM AnswersShowEdits == Spec => []AnswerShowsEdit
<1>1. Init => ShowsInv
  BY DEF Init, ShowsInv
<1>2. ASSUME Typed, ShowsInv, [Next]_vars
      PROVE  ShowsInv'
  <2> SUFFICES ASSUME NEW t \in Requests
               PROVE  /\ edited'[t] <= writes'
                      /\ edited'[t] # 0 => Replies(t)'
                      /\ edited'[t] # 0 /\ ~overlap'[t] /\ ~failed' => Shows(t)'
    BY DEF ShowsInv
  <2>1. /\ TypeOK /\ edited[t] \in Nat /\ writes \in Nat /\ writes' \in {writes, writes + 1}
        /\ req[t].ask.user \in Users
    <3>1. TypeOK /\ req[t].ask.user \in Users
      BY <1>2 DEF Typed, TypeOK, Request, Ask
    <3> QED BY <1>2, <3>1, Versions DEF TypeOK
  <2>2. /\ edited[t] <= writes
        /\ edited[t] # 0 => Replies(t)
        /\ edited[t] # 0 /\ ~overlap[t] /\ ~failed => Shows(t)
    BY <1>2 DEF ShowsInv
  <2>3. CASE Handle(t) /\ Edit(t)
    <3>1. /\ edited'[t] = writes + 1 /\ writes' = writes + 1
          /\ Replies(t)'
          /\ ~overlap'[t] => Shows(t)'
      BY <1>2, <2>1, <2>3, HandleWrites, EditStarts
    <3> QED BY <2>1, <3>1
  <2>4. CASE ~(Handle(t) /\ Edit(t))
    <3>1. edited'[t] = edited[t] /\ req'[t].ask = req[t].ask /\ (failed => failed')
      BY <1>2, <2>1, <2>4, Elsewhere
    <3>2. CASE edited[t] = 0
      BY <2>1, <3>1, <3>2
    <3>3. CASE edited[t] # 0
      <4>1. Replies(t)' /\ overlap'[t] = overlap[t]
        BY <1>2, <2>2, <3>3, AnswerMoves DEF Answering
      <4>2. ~overlap'[t] /\ ~failed' => Shows(t)'
        BY <1>2, <2>2, <3>1, <3>3, <4>1, ShowsKept
      <4> QED BY <2>1, <2>2, <3>1, <4>1, <4>2
    <3> QED BY <3>2, <3>3
  <2> QED BY <2>3, <2>4
<1>3. TypeOK /\ ShowsInv => AnswerShowsEdit
  BY DEF ShowsInv, Shows, AnswerShowsEdit, Newer
<1> QED BY <1>1, <1>2, <1>3, AlwaysTyped, TypeCorrect, PTL DEF Spec
===============================================================================
