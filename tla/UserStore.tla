------------------------------ MODULE UserStore -------------------------------
(***************************************************************************)
(* The services of one user: AddService, UpdateService, RemoveService and  *)
(* UpdateServicesLayout of internal/config/user.go on users/<name>.yaml,   *)
(* as the dashboard API calls them, next to the command line, which        *)
(* creates and removes the account, and an operator who edits the file.    *)
(*                                                                         *)
(* An edit is one step: withConfigLock makes it atomic (ConfigLock         *)
(* implements AtomicEdits).  A rejected one changes nothing and is no      *)
(* step.  Dashboards may be out of date, so requests name any service.     *)
(*                                                                         *)
(* An ID is a slug and the numbers appended to make it unique: "web-2" is  *)
(* [name |-> "web", suffix |-> <<2>>].  A path is "/" or that of an ID.    *)
(* `ok` says whether LoadUserConfig accepts the path.  `born` numbers the  *)
(* services as they are added, which is how they follow one another in the *)
(* file.  An order is an int of the machine: MinOrder follows MaxOrder.    *)
(***************************************************************************)
EXTENDS Integers, Sequences, FiniteSets

CONSTANTS
    Slugs,        \* what names slugify to, as IDs ("web", "web-2")
    Customs,      \* paths a request may ask for, "/" included
    Root,         \* the path "/"
    Hosts,        \* virtual host names
    MinOrder,     \* the smallest and the largest int
    MaxOrder,
    MaxServices,  \* bound: services of the user
    MaxAdds,      \* bound: services added over time
    None          \* no file, no default service, a field not given

ASSUME BoundsAssumption == MaxServices \in Nat /\ MaxAdds \in Nat
ASSUME OrdersAssumption == MinOrder \in Int /\ MaxOrder \in Nat /\ MinOrder < 0

Orders == MinOrder..MaxOrder

IDs == [name : {s.name : s \in Slugs}, suffix : Seq(Nat)]
Paths == IDs \cup {Root}
Service == [id : IDs, path : Paths, hosts : SUBSET Hosts, order : Orders,
            ok : BOOLEAN, born : Nat]

ASSUME SlugsAssumption == Slugs \subseteq IDs
ASSUME CustomsAssumption == Customs \subseteq Paths
ASSUME NoneAssumption == None \notin Paths /\ None \notin Nat

VARIABLES
    doc,      \* the file: its services and default_service, or None
    added,    \* services added so far
    meant,    \* history: the service default_service was set for, or None
    dropped,  \* history: an edit wrote the file without a skipped service
    placed    \* history: services born before it stand where a layout, or
              \* an overflow, put them

vars == <<doc, added, meant, dropped, placed>>

IdsOf(services) == {s.id : s \in services}
PathsOf(services) == {s.path : s \in services}
HostsOf(services) == UNION {s.hosts : s \in services}

(* LoadUserConfig: services with an unusable path are skipped, and a       *)
(* default_service that names no remaining one is ignored.                 *)
Usable(services) == {s \in services : s.ok}
DefaultService == IF doc.default \in IdsOf(Usable(doc.services)) THEN doc.default ELSE None

(* The first of id, id-2, id-3, ... that is not taken.                     *)
Suffixed(id, n) == [id EXCEPT !.suffix = Append(id.suffix, n)]
Candidates(id, taken) == {n \in 2..(Cardinality(taken) + 2) : Suffixed(id, n) \notin taken}
Fresh(id, taken) ==
    IF id \notin taken THEN id
    ELSE Suffixed(id, CHOOSE n \in Candidates(id, taken) : \A m \in Candidates(id, taken) : n <= m)

(* Mutant: a new service's order is the number of services.                *)
NextOrder_Count(services) == Cardinality(services)

(* "Find next order": the greatest order, -1 if there is none, plus one.   *)
MaxOrderOf(services) ==
    LET orders == {-1} \cup {s.order : s \in services}
    IN  CHOOSE n \in orders : \A m \in orders : m <= n
Overflows(services) == MaxOrderOf(services) = MaxOrder
NextOrder(services) == IF Overflows(services) THEN MinOrder ELSE MaxOrderOf(services) + 1

Empty == [services |-> {}, default |-> None]

-----------------------------------------------------------------------------
Init ==
    /\ doc = None
    /\ added = 0
    /\ meant = None
    /\ dropped = FALSE
    /\ placed = 0

(* serializeServices, saveRawConfig: the services as loaded and edited,    *)
(* the rest of the raw document as it is.                                  *)
Save(services, default) ==
    /\ doc' = [services |-> services, default |-> default]
    /\ meant' = IF default = None THEN None ELSE meant
    /\ dropped' = (dropped \/ \E s \in doc.services : ~s.ok)

(* Mutant: a generated path is not checked, since the ID is unique.        *)
AddService_AutoPathUnchecked(name, path, hosts) ==
    LET loaded == Usable(doc.services)
        id == Fresh(name, IdsOf(loaded))
    IN  /\ doc # None
        /\ Cardinality(loaded) < MaxServices /\ added < MaxAdds
        /\ path \notin PathsOf(loaded)
        /\ hosts \cap HostsOf(loaded) = {}
        /\ Save(loaded \cup {[id |-> id, path |-> IF path = None THEN id ELSE path,
                              hosts |-> hosts, order |-> NextOrder(loaded),
                              ok |-> TRUE, born |-> added]},
                doc.default)
        /\ added' = added + 1
        /\ placed' = IF Overflows(loaded) THEN added + 1 ELSE placed

(* Mutant: a service asked for without a path is stored without one.       *)
AddService_NoAutoPath(name, path, hosts) ==
    LET loaded == Usable(doc.services)
        id == Fresh(name, IdsOf(loaded))
    IN  /\ doc # None
        /\ Cardinality(loaded) < MaxServices /\ added < MaxAdds
        /\ path \notin PathsOf(loaded)
        /\ hosts \cap HostsOf(loaded) = {}
        /\ Save(loaded \cup {[id |-> id, path |-> path, hosts |-> hosts,
                              order |-> NextOrder(loaded), ok |-> TRUE, born |-> added]},
                doc.default)
        /\ added' = added + 1
        /\ placed' = IF Overflows(loaded) THEN added + 1 ELSE placed

(* AddService: the ID is made unique, an empty path is generated from it   *)
(* and made unique too; a custom path or a host name must be free.         *)
AddService(name, path, hosts) ==
    LET loaded == Usable(doc.services)
        id == Fresh(name, IdsOf(loaded))
        at == IF path = None THEN Fresh(id, PathsOf(loaded)) ELSE path
    IN  /\ doc # None
        /\ Cardinality(loaded) < MaxServices /\ added < MaxAdds
        /\ path \notin PathsOf(loaded)
        /\ hosts \cap HostsOf(loaded) = {}
        /\ Save(loaded \cup {[id |-> id, path |-> at, hosts |-> hosts,
                              order |-> NextOrder(loaded), ok |-> TRUE, born |-> added]},
                doc.default)
        /\ added' = added + 1
        /\ placed' = IF Overflows(loaded) THEN added + 1 ELSE placed

(* Mutant: default_service is left to LoadUserConfig, which ignores it.    *)
RemoveService_KeepsDefault(id) ==
    /\ doc # None
    /\ id \in IdsOf(Usable(doc.services))
    /\ Save({s \in Usable(doc.services) : s.id # id}, doc.default)
    /\ UNCHANGED <<added, placed>>

(* RemoveService: a default_service left without its service goes too.     *)
RemoveService(id) ==
    LET left == {s \in Usable(doc.services) : s.id # id} IN
    /\ doc # None
    /\ id \in IdsOf(Usable(doc.services))
    /\ Save(left, IF doc.default \in IdsOf(left) THEN doc.default ELSE None)
    /\ UNCHANGED <<added, placed>>

(* UpdateService: path and host names, each only when given.  Whatever     *)
(* else a service has does not matter here.                                *)
UpdateService(id, path, hosts) ==
    LET loaded == Usable(doc.services) IN
    /\ doc # None
    /\ \E s \in loaded :
         /\ s.id = id
         /\ path \notin PathsOf(loaded \ {s})
         /\ hosts # None => hosts \cap HostsOf({t \in loaded : t.id # id}) = {}
         /\ Save((loaded \ {s}) \cup
                   {[s EXCEPT !.path = IF path = None THEN s.path ELSE path,
                              !.hosts = IF hosts = None THEN s.hosts ELSE hosts]},
                 doc.default)
    /\ UNCHANGED <<added, placed>>

(* Each service that an item names gets the item's order.                  *)
Reordered(services, items) ==
    {IF s.id \in DOMAIN items THEN [s EXCEPT !.order = items[s.id]] ELSE s : s \in services}

(* UpdateServicesLayout: as many items as services, none twice, all known. *)
(* An item gives an ID any order, ties and gaps included; as no ID may     *)
(* come twice, the items are a function from IDs to orders.                *)
UpdateServicesLayout(items) ==
    LET loaded == Usable(doc.services)
    IN  /\ doc # None
        /\ Cardinality(DOMAIN items) = Cardinality(loaded)
        /\ DOMAIN items \subseteq IdsOf(loaded)
        /\ Save(Reordered(loaded, items), doc.default)
        /\ placed' = added
        /\ UNCHANGED added

-----------------------------------------------------------------------------
(* `goprox user`: CreateUserConfig refuses an existing account.            *)
CreateUserConfig ==
    /\ doc = None
    /\ doc' = Empty
    /\ UNCHANGED <<added, meant, dropped, placed>>

(* `goprox del`: RemoveUserConfig.                                         *)
RemoveUserConfig ==
    /\ doc # None
    /\ doc' = None
    /\ meant' = None
    /\ UNCHANGED <<added, dropped, placed>>

(* The operator sets default_service to a service, or takes it out.        *)
SetDefault ==
    /\ doc # None
    /\ \/ \E s \in doc.services :
            /\ doc' = [doc EXCEPT !.default = s.id]
            /\ meant' = s.born
       \/ doc' = [doc EXCEPT !.default = None] /\ meant' = None
    /\ UNCHANGED <<added, dropped, placed>>

(* The operator makes a typing mistake in a path, or corrects it.          *)
EditPath ==
    /\ doc # None
    /\ \E s \in doc.services :
         doc' = [doc EXCEPT !.services = (doc.services \ {s}) \cup {[s EXCEPT !.ok = ~s.ok]}]
    /\ UNCHANGED <<added, meant, dropped, placed>>

Operator == SetDefault \/ EditPath

Next ==
    \/ \E name \in Slugs, path \in Customs \cup {None}, hosts \in SUBSET Hosts :
         AddService(name, path, hosts)
    \/ doc # None /\ \E id \in IdsOf(doc.services) :
         \/ RemoveService(id)
         \/ \E path \in Customs \cup {None}, hosts \in (SUBSET Hosts) \cup {None} :
              UpdateService(id, path, hosts)
    \/ doc # None /\ \E named \in SUBSET IdsOf(doc.services) :
         \E items \in [named -> Orders] : UpdateServicesLayout(items)
    \/ CreateUserConfig \/ RemoveUserConfig
    \/ Operator

Spec == Init /\ [][Next]_vars

-----------------------------------------------------------------------------
TypeOK ==
    /\ doc # None => /\ doc \in [services : SUBSET Service, default : IDs \cup {None}]
                     /\ IsFiniteSet(doc.services)
    /\ added \in Nat
    /\ meant \in Nat \cup {None}
    /\ dropped \in BOOLEAN
    /\ placed \in Nat

(* AddService "guarantees a unique ID and path", and ValidateHostnames-    *)
(* ForUser unique host names: no two services of the file, skipped ones    *)
(* included, ever answer to the same ID, path or host, through suffixed    *)
(* slugs that are other services' names, custom paths that are other       *)
(* services' IDs, updates, removals and re-additions.                      *)
NoCollisions ==
    doc # None => \A s, t \in doc.services :
        s # t => s.id # t.id /\ s.path # t.path /\ s.hosts \cap t.hosts = {}

(* "Find next order": a service added since the last layout is shown after *)
(* every one added before it, whatever orders that layout sent (ties,      *)
(* gaps, negative ones), and whatever was removed, edited or skipped since.*)
(* Services whose orders tie are shown as they follow in the file.         *)
AddedComeLast ==
    doc # None => \A s, t \in doc.services :
        t.born >= placed /\ s.born < t.born => s.order < t.order

(* A default_service in effect is the service it was set for, never a      *)
(* later one that got the same ID (RemoveService: "silently reactivates if *)
(* the same ID is re-added").  It holds unless an edit has dropped a       *)
(* service that was skipped, and with it the service of the reference.     *)
DefaultFollows ==
    ~dropped /\ doc # None /\ DefaultService # None =>
        \A s \in doc.services : s.id = DefaultService => s.born = meant

(* LoadUserConfig skips and reports a service with an unusable path "so    *)
(* the operator can fix the config": until the operator does, the service  *)
(* is still in the file.  (The comment's claim; the next edit of any other *)
(* service writes the file without it.)                                    *)
SkippedServicesKept ==
    [][doc # None /\ doc' # None =>
         \A s \in doc.services : ~s.ok => \E t \in doc'.services : t.born = s.born]_vars
===============================================================================
