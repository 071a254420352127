------------------------------ MODULE ConfigLock ------------------------------
(***************************************************************************)
(* One locked edit of a configuration file: withConfigLock of              *)
(* internal/config/user.go, the lock-file protocol of filelock.go, and the *)
(* read-modify-write that the edit functions run inside it.                *)
(*                                                                         *)
(* A process (the gateway, or a `goprox passwd` / `user` / `sso` command)  *)
(* runs one or more threads; each thread performs one edit of the same     *)
(* file and returns.  Threads of one process are serialised by a mutex,    *)
(* processes by a lock file created with O_EXCL.  Every read, stat, create *)
(* and unlink of the lock file is a step of its own, so all of them        *)
(* interleave; a process may crash between any two of them.                *)
(*                                                                         *)
(* Time is abstract: AgeLock lets the lock file's mtime pass               *)
(* lockStaleAfter; a waiter that polls again and again times out at some   *)
(* poll (its deadline is fixed before the loop).                           *)
(***************************************************************************)
EXTENDS Integers, FiniteSets

CONSTANTS
    Threads,    \* edits of the file, one per thread
    Procs,      \* operating-system processes
    ProcOf,     \* the process a thread runs in
    HostOf,     \* the host a process runs on (NFS: more than one)
    Kind,       \* "services": AddService & co; "auth": passwd, TOTP
    Inodes,     \* inode numbers the file system hands out, reused freely
    Crashable,  \* processes that may crash
    Lasting,    \* threads whose lock file may grow older than lockStaleAfter
    None        \* no lock file / no mutex holder

Sections == {"services", "auth"}

ASSUME ProcOfAssumption == ProcOf \in [Threads -> Procs]
ASSUME KindAssumption == Kind \in [Threads -> Sections]
ASSUME InodesAssumption == Inodes # {} /\ IsFiniteSet(Inodes)
ASSUME CrashableAssumption == Crashable \subseteq Procs
ASSUME LastingAssumption == Lasting \subseteq Threads

(* The lock file.  `by` is the thread that created it; the text            *)
(* "host pid time", which tells readers ProcOf[by], is only there once the *)
(* creator has written it (`stamped`).                                     *)
LockFile == [ino : Inodes, by : Threads, stamped : BOOLEAN, old : BOOLEAN]

ASSUME NoneAssumption == None \notin LockFile /\ None \notin Threads

VARIABLES
    pc,        \* where each thread is
    result,    \* what its edit will return
    mutex,     \* configLocks: the thread holding the process's mutex
    alive,     \* processes that have not crashed
    lock,      \* the lock file at the path, or None
    info,      \* the inode of the lock file each thread created (f.Stat)
    file,      \* the config file: per section, the edits it holds
    view,      \* what a thread last loaded of the services and the raw file
    removals,  \* history: how many lock files stale-reclaim has removed
    slow,      \* history: the threads whose lock grew stale while they lived
    stray      \* history: a lock file went, or came, unseen by its owner

vars == <<pc, result, mutex, alive, lock, info, file, view, removals, slow, stray>>

history == <<removals, slow, stray>>
content == <<file, view>>

Steps == {"start", "open", "stamp", "read", "stat", "wait", "reclaim", "load",
          "raw", "save", "release", "unlink", "done"}

Contents == [Sections -> SUBSET Threads]
Empty == [s \in Sections |-> {}]
Unread == [services |-> {}, raw |-> Empty]

Alive(t) == ProcOf[t] \in alive

(* The pcs of a thread that has created the lock file and not let it go.   *)
Owning == {"stamp", "load", "raw", "save", "release", "unlink"}
(* The pcs between LoadUserConfig and the rename that publishes the edit.  *)
Critical == {"load", "raw", "save"}

(* At t's pc `from`: go to `to`.                                           *)
Goto(t, from, to) == Alive(t) /\ pc[t] = from /\ pc' = [pc EXCEPT ![t] = to]

-----------------------------------------------------------------------------
Init ==
    /\ pc = [t \in Threads |-> "start"]
    /\ result = [t \in Threads |-> "none"]
    /\ mutex = [p \in Procs |-> None]
    /\ alive = Procs
    /\ lock = None
    /\ info = [t \in Threads |-> CHOOSE i \in Inodes : TRUE]
    /\ file = Empty
    /\ view = [t \in Threads |-> Unread]
    /\ removals = 0
    /\ slow = {}
    /\ stray = FALSE

(* configLocks: one mutex per path and process.                            *)
LockMutex(t) ==
    /\ Goto(t, "start", "open")
    /\ mutex[ProcOf[t]] = None
    /\ mutex' = [mutex EXCEPT ![ProcOf[t]] = t]
    /\ UNCHANGED <<result, alive, lock, info, content, history>>

UnlockMutex(t) == mutex' = [mutex EXCEPT ![ProcOf[t]] = None]

(* History: t's new file has the inode of the lock another living thread   *)
(* created, lost, and will look for.                                       *)
Reused(t, i) ==
    \E u \in Threads \ {t} : Alive(u) /\ pc[u] \in Owning /\ info[u] = i

(* os.OpenFile(O_CREATE|O_EXCL): creates an empty file, or reports EEXIST. *)
(* A number is free once its file is unlinked and no descriptor holds it.  *)
Open(t) ==
    \/ /\ lock = None
       /\ Goto(t, "open", "stamp")
       /\ \E i \in Inodes \ {info[u] : u \in {v \in Threads : pc[v] = "stamp" /\ Alive(v)}} :
            /\ lock' = [ino |-> i, by |-> t, stamped |-> FALSE, old |-> FALSE]
            /\ info' = [info EXCEPT ![t] = i]
            /\ stray' = (stray \/ Reused(t, i))
       /\ UNCHANGED <<result, mutex, alive, content, removals, slow>>
    \/ /\ lock # None
       /\ Goto(t, "open", "read")
       /\ UNCHANGED <<result, mutex, alive, lock, info, content, history>>

(* The directory or the lock file cannot be created: the edit fails.       *)
OpenFails(t) ==
    /\ Goto(t, "open", "done")
    /\ result' = [result EXCEPT ![t] = "error"]
    /\ UnlockMutex(t)
    /\ UNCHANGED <<alive, lock, info, content, history>>

(* The creator writes "host pid time" through its descriptor: when the     *)
(* path was replaced meanwhile, the text goes to the unlinked file.        *)
Stamp(t) ==
    /\ Goto(t, "stamp", "load")
    /\ lock' = IF lock # None /\ lock.by = t
               THEN [lock EXCEPT !.stamped = TRUE] ELSE lock
    /\ UNCHANGED <<result, mutex, alive, info, content, history>>

(* f.Stat failed: whatever is at the path is removed, the edit fails.      *)
StampFails(t) ==
    /\ Goto(t, "stamp", "done")
    /\ lock' = None
    /\ stray' = (stray \/ (lock # None /\ lock.by # t))
    /\ result' = [result EXCEPT ![t] = "error"]
    /\ UnlockMutex(t)
    /\ UNCHANGED <<alive, info, content, removals, slow>>

(* Mutant: the recorded PID is probed without comparing host names.        *)
NamesDeadNeighbour_AnyHost(t) ==
    /\ lock # None
    /\ lock.stamped
    /\ \/ ProcOf[lock.by] \notin alive
       \/ HostOf[ProcOf[lock.by]] # HostOf[ProcOf[t]]

(* Mutant: only the mtime rule is left.                                    *)
NamesDeadNeighbour_Never(t) == FALSE

(* staleLock, first half: the text names a dead process of my own host.    *)
NamesDeadNeighbour(t) ==
    /\ lock # None
    /\ lock.stamped
    /\ HostOf[ProcOf[lock.by]] = HostOf[ProcOf[t]]
    /\ ProcOf[lock.by] \notin alive

ReadOwner(t) ==
    /\ Goto(t, "read", IF NamesDeadNeighbour(t) THEN "reclaim" ELSE "stat")
    /\ UNCHANGED <<result, mutex, alive, lock, info, content, history>>

(* staleLock, second half: the mtime is older than lockStaleAfter.         *)
StatAge(t) ==
    /\ Goto(t, "stat", IF lock # None /\ lock.old THEN "reclaim" ELSE "wait")
    /\ UNCHANGED <<result, mutex, alive, lock, info, content, history>>

(* History: the file Reclaim removes is neither old nor a dead owner's, or *)
(* its owner has looked for it in unlock() and is about to remove it.      *)
InUse == lock # None /\ Alive(lock.by) /\ (lock.old => pc[lock.by] = "unlink")

(* os.Remove(path) on a stale lock: it removes the file that is there NOW. *)
Reclaim(t) ==
    /\ Goto(t, "reclaim", "open")
    /\ lock' = None
    /\ removals' = IF lock = None THEN removals ELSE removals + 1
    /\ stray' = (stray \/ InUse)
    /\ UNCHANGED <<result, mutex, alive, info, content, slow>>

(* Sleep and retry while the deadline has not passed, then give up.        *)
Retry(t) ==
    /\ Goto(t, "wait", "open")
    /\ UNCHANGED <<result, mutex, alive, lock, info, content, history>>

(* Mutant: the error path returns without the deferred m.Unlock().         *)
TimeOut_KeepsMutex(t) ==
    /\ Goto(t, "wait", "done")
    /\ result' = [result EXCEPT ![t] = "error"]
    /\ UNCHANGED <<mutex, alive, lock, info, content, history>>

TimeOut(t) ==
    /\ Goto(t, "wait", "done")
    /\ result' = [result EXCEPT ![t] = "error"]
    /\ UnlockMutex(t)
    /\ UNCHANGED <<alive, lock, info, content, history>>

-----------------------------------------------------------------------------
(* Inside the lock.  A services edit parses the services                   *)
(* (LoadUserConfig), then loads the raw document again and replaces its    *)
(* services; an auth edit only loads the raw document.                     *)
LoadServices(t) ==
    /\ Kind[t] = "services"
    /\ Goto(t, "load", "raw")
    /\ view' = [view EXCEPT ![t].services = file["services"]]
    /\ UNCHANGED <<result, mutex, alive, lock, info, file, history>>

(* Mutant: a services edit rewrites the document without reloading it.     *)
LoadRaw_Stale(t) ==
    /\ \/ Kind[t] = "auth" /\ Goto(t, "load", "save")
       \/ Kind[t] = "services" /\ Goto(t, "raw", "save")
    /\ view' = IF Kind[t] = "auth" THEN [view EXCEPT ![t].raw = file] ELSE view
    /\ UNCHANGED <<result, mutex, alive, lock, info, file, history>>

LoadRaw(t) ==
    /\ \/ Kind[t] = "auth" /\ Goto(t, "load", "save")
       \/ Kind[t] = "services" /\ Goto(t, "raw", "save")
    /\ view' = [view EXCEPT ![t].raw = file]
    /\ UNCHANGED <<result, mutex, alive, lock, info, file, history>>

(* Mutant: the document is rebuilt from the one section that changed.      *)
Edited_Rebuilt(t) ==
    IF Kind[t] = "services"
    THEN [Empty EXCEPT !["services"] = view[t].services \cup {t}]
    ELSE [view[t].raw EXCEPT !["auth"] = view[t].raw["auth"] \cup {t}]

(* Mutant: the section is written back as the whole document.              *)
Edited_SectionOnly(t) == [s \in {Kind[t]} |-> view[t].raw[s] \cup {t}]

(* The document an edit writes back.                                       *)
Edited(t) ==
    IF Kind[t] = "services"
    THEN [view[t].raw EXCEPT !["services"] = view[t].services \cup {t}]
    ELSE [view[t].raw EXCEPT !["auth"] = view[t].raw["auth"] \cup {t}]

(* writeFileAtomic: the whole document appears with the rename.            *)
Save(t) ==
    /\ Goto(t, "save", "release")
    /\ file' = Edited(t)
    /\ view' = [view EXCEPT ![t] = Unread]
    /\ result' = [result EXCEPT ![t] = "ok"]
    /\ UNCHANGED <<mutex, alive, lock, info, history>>

(* A load, a validation or the write fails (AddService panics on a failing *)
(* second load, with the same effect): nothing is written.                 *)
EditFails(t) ==
    /\ \/ Goto(t, "load", "release")
       \/ Goto(t, "raw", "release")
       \/ Goto(t, "save", "release")
    /\ view' = [view EXCEPT ![t] = Unread]
    /\ result' = [result EXCEPT ![t] = "error"]
    /\ UNCHANGED <<mutex, alive, lock, info, file, history>>

-----------------------------------------------------------------------------
(* os.Stat(path) finds a file and os.SameFile holds.                       *)
SameFile(t) == lock # None /\ lock.ino = info[t]

(* Mutant: unlock() removes whatever file is at the path.                  *)
ReleaseStat_Unchecked(t) ==
    /\ Goto(t, "release", "unlink")
    /\ UNCHANGED <<result, mutex, alive, lock, info, content, history>>

(* unlock(): stat the path, and remove it only if it has my inode.         *)
ReleaseStat(t) ==
    \/ /\ SameFile(t)
       /\ Goto(t, "release", "unlink")
       /\ UNCHANGED <<result, mutex, alive, lock, info, content, history>>
    \/ /\ ~SameFile(t)
       /\ Goto(t, "release", "done")
       /\ UnlockMutex(t)
       /\ UNCHANGED <<result, alive, lock, info, content, history>>

(* The deferred os.Remove(path), then the deferred m.Unlock(); no other    *)
(* thread of the process can act on the path between the two.              *)
ReleaseUnlink(t) ==
    /\ Goto(t, "unlink", "done")
    /\ lock' = None
    /\ UnlockMutex(t)
    /\ UNCHANGED <<result, alive, info, content, history>>

-----------------------------------------------------------------------------
(* The environment: crashes and the passing of time.                       *)
Crash(p) ==
    /\ p \in Crashable \cap alive
    /\ alive' = alive \ {p}
    /\ UNCHANGED <<pc, result, mutex, lock, info, content, history>>

AgeLock ==
    /\ lock # None /\ lock.by \in Lasting /\ ~lock.old
    /\ lock' = [lock EXCEPT !.old = TRUE]
    /\ slow' = IF Alive(lock.by) THEN slow \cup {lock.by} ELSE slow
    /\ UNCHANGED <<pc, result, mutex, alive, info, content, removals, stray>>

Returned(t) == pc[t] = "done" \/ ~Alive(t)

(* Every edit has returned or died; only time still passes.                *)
AllReturned ==
    /\ \A t \in Threads : Returned(t)
    /\ UNCHANGED vars

Acquire(t) ==
    \/ LockMutex(t) \/ Open(t) \/ OpenFails(t) \/ Stamp(t) \/ StampFails(t)
    \/ ReadOwner(t) \/ StatAge(t) \/ Reclaim(t) \/ Retry(t) \/ TimeOut(t)

Edit(t) == LoadServices(t) \/ LoadRaw(t) \/ Save(t) \/ EditFails(t)

Release(t) == ReleaseStat(t) \/ ReleaseUnlink(t)

ThreadStep(t) == Acquire(t) \/ Edit(t) \/ Release(t)

Next ==
    \/ \E t \in Threads : ThreadStep(t)
    \/ \E p \in Procs : Crash(p)
    \/ AgeLock
    \/ AllReturned

(* Threads are scheduled, files age, and no one polls for ever: a thread   *)
(* that keeps coming back to "wait" times out.  Crashes are owed to no one.*)
Fairness ==
    /\ \A t \in Threads : WF_vars(ThreadStep(t)) /\ SF_vars(TimeOut(t))
    /\ WF_vars(AgeLock)

Spec == Init /\ [][Next]_vars
FairSpec == Spec /\ Fairness

-----------------------------------------------------------------------------
TypeOK ==
    /\ pc \in [Threads -> Steps]
    /\ result \in [Threads -> {"none", "ok", "error"}]
    /\ mutex \in [Procs -> Threads \cup {None}]
    /\ alive \subseteq Procs
    /\ lock \in LockFile \cup {None}
    /\ info \in [Threads -> Inodes]
    /\ file \in Contents
    /\ view \in [Threads -> [services : SUBSET Threads, raw : Contents]]
    /\ removals \in Nat
    /\ slow \subseteq Threads
    /\ stray \in BOOLEAN

InCritical(t) == Alive(t) /\ pc[t] \in Critical

(* What the protocol relies on: at most one stale lock has been removed,   *)
(* and no living process has kept its lock beyond lockStaleAfter.          *)
Unraced == removals <= 1 /\ slow = {}

(* lockConfigFile "takes an exclusive lock": two living threads are never  *)
(* both between loading the file and replacing it.  (What the comment of   *)
(* filelock.go promises; the code does not keep it once two processes      *)
(* reclaim the same stale lock.)                                           *)
ExclusiveLock == \A t, u \in Threads : InCritical(t) /\ InCritical(u) => t = u

(* Exclusion does hold, across crashes, empty lock files, reused inodes,   *)
(* failed stamps and time-outs, until a second stale lock is removed or a  *)
(* living owner outstays lockStaleAfter.                                   *)
ExclusiveUntilRaced == Unraced => ExclusiveLock

(* Until then no edit that reported success is missing from the file,      *)
(* whichever of the two halves of the document it changed and whoever      *)
(* wrote after it (withConfigLock: no lost update).                        *)
AckedEditsKept ==
    Unraced => \A t \in Threads : result[t] = "ok" => t \in file[Kind[t]]

(* An owner that outstays lockStaleAfter can lose its lock to a waiter and *)
(* then overlap with it, but it costs no one else: its unlock() leaves its *)
(* successor's file alone ("only remove the file we created"), so two      *)
(* edits overlap only if one of them is such an owner's.  Any number of    *)
(* locks may grow old and be removed; what os.SameFile cannot see (stray:  *)
(* a reused inode, the gap between stat and remove, a removal of a lock    *)
(* still in use) is excepted.                                              *)
OnlySlowOverlap ==
    ~stray => \A t, u \in Threads :
        InCritical(t) /\ InCritical(u) => t = u \/ t \in slow \/ u \in slow

(* The contract of withConfigLock: until raced, edits of the file are      *)
(* atomic, one after the other.                                            *)
Atomic == INSTANCE AtomicEdits WITH
    doc <- file, outcome <- result, raced <- ~Unraced
ImplementsAtomicEdits == Atomic!Spec

(* Every edit returns, with success or an error, unless its process dies:  *)
(* no lock file, crashed owner or held mutex blocks a caller for ever.     *)
EditsReturn == \A t \in Threads : <>Returned(t)

(* A crashed process's lock "is reclaimed immediately" on the same host:   *)
(* once a neighbour's open has failed on it, that very file goes away,     *)
(* even when the neighbour's own deadline is over (staleLock runs first).  *)
LeftBy(u) == lock # None /\ lock.by = u /\ lock.stamped /\ ~Alive(u)
Meets(t) == Alive(t) /\ pc[t] = "read"
DeadOwnersLockReclaimed ==
    \A u \in {v \in Threads : ProcOf[v] \in Crashable} :
        (LeftBy(u) /\ \E t \in Threads : Meets(t) /\ HostOf[ProcOf[t]] = HostOf[ProcOf[u]])
            ~> ~LeftBy(u)
===============================================================================
