------------------------------- MODULE Registry --------------------------------
(***************************************************************************)
(* internal/config/registry.go: the gateway's copies of users/<name>.yaml. *)
(*                                                                         *)
(*   users, hosts      the snapshot that Reload swaps in: one record per   *)
(*                     account and the index of virtual hosts; a lookup    *)
(*                     that misses an account loads it on its own          *)
(*   cache             loginConfigCache, one parsed file per account, good *)
(*                     as long as the file's mtime and size stay the same  *)
(*                                                                         *)
(* Reload, the lookups and the login cache read file by file and outside   *)
(* the registry's mutex.  Each read, and each section under the mutex, is  *)
(* a step of the worker that runs it, and all of them interleave with each *)
(* other and with the writers of the files.  The writers are in Dashboard. *)
(*                                                                         *)
(* All files are of one size: mtime alone tells versions apart.  `clock`   *)
(* is the time the file system stamps files with; writes may share a tick. *)
(***************************************************************************)
EXTENDS Integers, FiniteSets

CONSTANTS
    Users,        \* accounts, numbered in the order of the directory
    Hosts,        \* virtual host names
    ServiceIDs,   \* IDs of services
    Requests,     \* goroutines that serve a request
    Scanner,      \* the goroutine of ScanLoop
    None          \* no file, no record, no target

ASSUME UsersAssumption == Users \subseteq Nat /\ IsFiniteSet(Users)
ASSUME ScannerAssumption == Scanner \notin Requests

Workers == Requests \cup {Scanner}

Service == [id : ServiceIDs, hosts : SUBSET Hosts]
(* A version of an account's file: its number among all writes, its mtime, *)
(* the write that last set its password, its services.                     *)
Config == [ver : Nat, mtime : Nat, password : Nat, services : SUBSET Service]
Target == [user : Users, service : Service]

ASSUME NoneAssumption ==
    None \notin Config /\ None \notin Target /\ None \notin Hosts /\ None \notin ServiceIDs

VARIABLES
    files,     \* users/<name>.yaml of each account, or None
    users,     \* r.users
    hosts,     \* r.hosts
    fresh,     \* lastScan is less than scanEvery ago
    cache,     \* loginConfigCache: [mtime, cfg] of an account, or None
    pc,        \* where each worker is
    todo,      \* Reload: entries of the directory still to load
    found,     \* Reload: newUsers
    back,      \* Reload: where the worker goes on
    got,       \* the record a lookup has found, or None
    key,       \* GetUserConfigForLogin: the mtime it has seen
    faults,    \* bound: reads that may still fail
    lapses,    \* bound: how often the snapshot may still outlive scanEvery
    failed,    \* history: a read has failed
    ondemand   \* history: users inserted by loadUser since the last swap

snapshot == <<users, hosts, fresh, ondemand>>
scanning == <<todo, found, back>>
lookups == <<got, key>>
bounds == <<faults, lapses, failed>>
registryVars == <<files, snapshot, cache, pc, scanning, lookups, bounds>>

(* At w's pc `from`: go to `to`.                                           *)
Goto(w, from, to) == pc[w] = from /\ pc' = [pc EXCEPT ![w] = to]

NoUsers == [u \in Users |-> None]

(* A read fails: an I/O error, or a file that does not parse just now.     *)
Fault == faults > 0 /\ faults' = faults - 1 /\ failed' = TRUE /\ UNCHANGED lapses

-----------------------------------------------------------------------------
(* The services of a set of records that claim host h.                     *)
Owners(records, h) ==
    {o \in [user : Users, service : UNION {records[u].services : u \in {v \in Users : records[v] # None}}] :
        /\ records[o.user] # None
        /\ o.service \in records[o.user].services
        /\ h \in o.service.hosts}

(* Mutant: the first claim of a host wins.                                 *)
buildHostIndex_FirstWins(records) ==
    [h \in Hosts |-> IF Owners(records, h) # {} THEN CHOOSE o \in Owners(records, h) : TRUE
                     ELSE None]

(* buildHostIndex: a host is routed when a single service claims it.       *)
buildHostIndex(records) ==
    [h \in Hosts |-> IF \E o \in Owners(records, h) : Owners(records, h) = {o}
                     THEN CHOOSE o \in Owners(records, h) : TRUE
                     ELSE None]

(* ValidateHosts: no host has more than one claim.                         *)
ValidateHosts(records) == \A h \in Hosts : \A o, p \in Owners(records, h) : o = p

(* Mutant: the map is emptied and then filled.                             *)
ReadDir_Clears(w) ==
    /\ Goto(w, "list", "load")
    /\ todo' = [todo EXCEPT ![w] = {u \in Users : files[u] # None}]
    /\ found' = [found EXCEPT ![w] = NoUsers]
    /\ users' = NoUsers
    /\ UNCHANGED <<files, hosts, fresh, ondemand, cache, back, lookups, bounds>>

(* Reload: os.ReadDir.                                                     *)
ReadDir(w) ==
    /\ Goto(w, "list", "load")
    /\ todo' = [todo EXCEPT ![w] = {u \in Users : files[u] # None}]
    /\ found' = [found EXCEPT ![w] = NoUsers]
    /\ UNCHANGED <<files, snapshot, cache, back, lookups, bounds>>

(* Reload: without a directory to list, the snapshot stays, and counts as  *)
(* scanned all the same.                                                   *)
ReadDirFails(w) ==
    /\ Goto(w, "list", back[w])
    /\ Fault
    /\ fresh' = TRUE
    /\ UNCHANGED <<files, users, hosts, ondemand, cache, scanning, lookups>>

(* Reload: LoadUserConfig of the next entry; an account that cannot be     *)
(* read, or is gone by now, is skipped.                                    *)
LoadNext(w) ==
    /\ Goto(w, "load", "load")
    /\ \E u \in todo[w] :
         /\ \A v \in todo[w] : u <= v
         /\ todo' = [todo EXCEPT ![w] = todo[w] \ {u}]
         /\ \/ found' = [found EXCEPT ![w][u] = files[u]] /\ UNCHANGED bounds
            \/ Fault /\ UNCHANGED found
    /\ UNCHANGED <<files, snapshot, cache, back, lookups>>

(* Mutant: accounts are added and replaced, never dropped.                 *)
Swap_Merges(w) ==
    /\ todo[w] = {}
    /\ Goto(w, "load", back[w])
    /\ users' = [u \in Users |-> IF found[w][u] # None THEN found[w][u] ELSE users[u]]
    /\ hosts' = buildHostIndex(users')
    /\ fresh' = TRUE
    /\ ondemand' = {}
    /\ found' = [found EXCEPT ![w] = NoUsers]
    /\ UNCHANGED <<files, cache, todo, back, lookups, bounds>>

(* Reload: the new maps replace the old ones in one critical section.      *)
Swap(w) ==
    /\ todo[w] = {}
    /\ Goto(w, "load", back[w])
    /\ users' = found[w]
    /\ hosts' = buildHostIndex(found[w])
    /\ fresh' = TRUE
    /\ ondemand' = {}
    /\ found' = [found EXCEPT ![w] = NoUsers]
    /\ UNCHANGED <<files, cache, todo, back, lookups, bounds>>

Reload(w) == ReadDir(w) \/ ReadDirFails(w) \/ LoadNext(w) \/ Swap(w)

(* scanEvery passes.                                                       *)
Lapse ==
    /\ fresh /\ lapses > 0
    /\ fresh' = FALSE
    /\ lapses' = lapses - 1
    /\ UNCHANGED <<files, users, hosts, ondemand, cache, pc, scanning, lookups, faults, failed>>

(* EnsureFresh, at pc `from`, has to reload before the worker reads the    *)
(* snapshot at `to`; when it has not, the read follows at once.            *)
EnsureFresh(w, from, to) ==
    /\ ~fresh
    /\ Goto(w, from, "list")
    /\ back' = [back EXCEPT ![w] = to]
    /\ UNCHANGED <<files, snapshot, cache, todo, found, lookups, bounds>>

Ready(w, from, to) == pc[w] = to \/ (pc[w] = from /\ fresh)

-----------------------------------------------------------------------------
(* GetUser of account u, called at pc `from`; it returns to pc `to`, or to *)
(* `missing` when there is none.  First the map, under RLock.              *)
Lookup(t, u, from, to) ==
    /\ Ready(t, from, "lookup")
    /\ pc' = [pc EXCEPT ![t] = IF users[u] # None THEN to ELSE "miss"]
    /\ got' = [got EXCEPT ![t] = users[u]]
    /\ UNCHANGED <<files, snapshot, cache, scanning, key, bounds>>

(* loadUser: Stat and LoadUserConfig.                                      *)
LoadUser(t, u, missing) ==
    /\ \/ Goto(t, "miss", missing) /\ files[u] = None /\ UNCHANGED <<got, bounds>>
       \/ Goto(t, "miss", missing) /\ Fault /\ UNCHANGED got
       \/ /\ files[u] # None
          /\ Goto(t, "miss", "insert")
          /\ got' = [got EXCEPT ![t] = files[u]]
          /\ UNCHANGED bounds
    /\ UNCHANGED <<files, snapshot, cache, scanning, key>>

(* loadUser: the record goes into whatever map is current by now.          *)
Insert(t, u, to) ==
    /\ Goto(t, "insert", to)
    /\ users' = [users EXCEPT ![u] = got[t]]
    /\ ondemand' = ondemand \cup {u}
    /\ UNCHANGED <<files, hosts, fresh, cache, scanning, lookups, bounds>>

(* Mutant: a miss is the end of it.                                        *)
GetUser_NoLoad(t, u, from, to, missing) ==
    \/ EnsureFresh(t, from, "lookup")
    \/ /\ Ready(t, from, "lookup")
       /\ pc' = [pc EXCEPT ![t] = IF users[u] # None THEN to ELSE missing]
       /\ got' = [got EXCEPT ![t] = users[u]]
       /\ UNCHANGED <<files, snapshot, cache, scanning, key, bounds>>

GetUser(t, u, from, to, missing) ==
    \/ EnsureFresh(t, from, "lookup")
    \/ Lookup(t, u, from, to)
    \/ LoadUser(t, u, missing)
    \/ Insert(t, u, to)

-----------------------------------------------------------------------------
(* Mutant: that there is no such account is remembered too.                *)
StatLogin_CachesAbsence(t, u, to) ==
    /\ Goto(t, "stat", to)
    /\ files[u] = None
    /\ cache' = [cache EXCEPT ![u] = [mtime |-> 0, cfg |-> None]]
    /\ got' = [got EXCEPT ![t] = None]
    /\ UNCHANGED <<files, snapshot, scanning, key, bounds>>

(* GetUserConfigForLogin: Stat, and the cache if the file looks the same.  *)
StatLogin(t, u, to) ==
    /\ \/ /\ files[u] = None
          /\ Goto(t, "stat", to)
          /\ cache' = [cache EXCEPT ![u] = None]
          /\ got' = [got EXCEPT ![t] = None]
          /\ UNCHANGED key
       \/ /\ files[u] # None /\ cache[u] # None /\ cache[u].mtime = files[u].mtime
          /\ Goto(t, "stat", to)
          /\ got' = [got EXCEPT ![t] = cache[u].cfg]
          /\ UNCHANGED <<cache, key>>
       \/ /\ files[u] # None
          /\ cache[u] # None => cache[u].mtime # files[u].mtime
          /\ Goto(t, "stat", "parse")
          /\ key' = [key EXCEPT ![t] = files[u].mtime]
          /\ UNCHANGED <<cache, got>>
    /\ UNCHANGED <<files, snapshot, scanning, bounds>>

(* GetUserConfigForLogin: LoadUserConfig.                                  *)
ParseLogin(t, u, to) ==
    /\ \/ /\ Goto(t, "parse", to)
          /\ \/ files[u] = None /\ UNCHANGED bounds
             \/ Fault
          /\ got' = [got EXCEPT ![t] = None]
          /\ key' = [key EXCEPT ![t] = 0]
       \/ /\ files[u] # None
          /\ Goto(t, "parse", "store")
          /\ got' = [got EXCEPT ![t] = files[u]]
          /\ UNCHANGED <<key, bounds>>
    /\ UNCHANGED <<files, snapshot, cache, scanning>>

(* Mutant: the entry gets the mtime the file has when it is stored.        *)
StoreLogin_StatAgain(t, u, to) ==
    /\ Goto(t, "store", to)
    /\ cache' = [cache EXCEPT ![u] = [mtime |-> IF files[u] = None THEN key[t] ELSE files[u].mtime,
                                      cfg |-> got[t]]]
    /\ key' = [key EXCEPT ![t] = 0]
    /\ UNCHANGED <<files, snapshot, scanning, got, bounds>>

(* GetUserConfigForLogin: Store, under the mtime seen before the load.     *)
StoreLogin(t, u, to) ==
    /\ Goto(t, "store", to)
    /\ cache' = [cache EXCEPT ![u] = [mtime |-> key[t], cfg |-> got[t]]]
    /\ key' = [key EXCEPT ![t] = 0]
    /\ UNCHANGED <<files, snapshot, scanning, got, bounds>>

GetUserConfigForLogin(t, u, to) ==
    StatLogin(t, u, to) \/ ParseLogin(t, u, to) \/ StoreLogin(t, u, to)

-----------------------------------------------------------------------------
(* Server.New: the first Reload, of files that nobody is writing yet.      *)
RegistryInit ==
    /\ users = files
    /\ hosts = buildHostIndex(files)
    /\ fresh = TRUE
    /\ cache = NoUsers
    /\ pc = [w \in Workers |-> IF w = Scanner THEN "sleep" ELSE "start"]
    /\ todo = [w \in Workers |-> {}]
    /\ found = [w \in Workers |-> NoUsers]
    /\ back = [w \in Workers |-> "sleep"]
    /\ got = [t \in Requests |-> None]
    /\ key = [t \in Requests |-> 0]
    /\ failed = FALSE
    /\ ondemand = {}

(* ScanLoop: a tick.  The two ListUsers around the Reload may reload too,  *)
(* which is no different from another round.                               *)
ScanTick ==
    /\ Goto(Scanner, "sleep", "list")
    /\ UNCHANGED <<files, snapshot, cache, scanning, lookups, bounds>>
===============================================================================
