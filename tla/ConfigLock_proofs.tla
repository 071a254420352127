-------------------------- MODULE ConfigLock_proofs ---------------------------
(***************************************************************************)
(* Proofs about ConfigLock, for any processes, threads, hosts and crashes. *)
(*                                                                         *)
(* Exclusion is not inductive: that a living owner still has its lock file *)
(* rests on what a thread about to os.Remove a stale lock has seen         *)
(* (JudgedDead, AgedDead), and that edits are kept rests on the fact that  *)
(* what an owner has loaded is still the file's content (ViewFresh).       *)
(* What a slow owner's unlock() spares rests on the inode it looks for     *)
(* being no one else's (SuccessorDiffers).                                 *)
(***************************************************************************)
EXTENDS ConfigLock, TLAPS

(* A living thread that created the lock file and has not let it go has it *)
(* at the path.                                                            *)
OwnerHasLock ==
    \A t \in Threads : Alive(t) /\ pc[t] \in Owning => lock # None /\ lock.by = t

(* Before the first removal, a lock about to be removed is a dead one's.   *)
JudgedDead ==
    removals = 0 => \A t \in Threads : Alive(t) /\ pc[t] = "reclaim" =>
                        lock # None /\ ProcOf[lock.by] \notin alive

AgedDead == lock # None /\ lock.old => ProcOf[lock.by] \notin alive

(* What an owner has loaded is still what the file holds.                  *)
ViewFresh ==
    \A t \in Threads : Alive(t) =>
        /\ pc[t] = "raw" => Kind[t] = "services" /\ view[t].services = file["services"]
        /\ pc[t] = "save" =>
             /\ view[t].raw = file
             /\ Kind[t] = "services" => view[t].services = file["services"]

AckedKept == \A t \in Threads : result[t] = "ok" => t \in file[Kind[t]]

(* An edit has no outcome before it is saved or has failed.                *)
Pending ==
    \A t \in Threads : pc[t] \notin {"release", "unlink", "done"} => result[t] = "none"

LockInv == OwnerHasLock /\ JudgedDead /\ AgedDead /\ ViewFresh /\ AckedKept

IInv == TypeOK /\ Pending /\ (Unraced => LockInv)

USE ProcOfAssumption, KindAssumption, InodesAssumption, CrashableAssumption,
    LastingAssumption, NoneAssumption

(***************************************************************************)
(* Types.                                                                  *)
(***************************************************************************)
LEMMA InitTyped == Init => TypeOK
<1> DEFINE first == CHOOSE i \in Inodes : TRUE
<1>1. first \in Inodes
  <2>1. \E i \in Inodes : TRUE
    BY InodesAssumption
  <2> QED
    BY <2>1, Zenon
<1>2. Unread \in [services : SUBSET Threads, raw : Contents]
  BY DEF Unread, Empty, Contents, Sections
<1>3. Empty \in Contents
  BY DEF Empty, Contents
<1> SUFFICES ASSUME Init PROVE TypeOK
  OBVIOUS
<1>4. info = [t \in Threads |-> first]
  BY DEF Init
<1> HIDE DEF first
<1> QED
  BY <1>1, <1>2, <1>3, <1>4 DEF Init, TypeOK, Steps

LEMMA NextTyped == TypeOK /\ [Next]_vars => TypeOK'
<1> SUFFICES ASSUME TypeOK, [Next]_vars PROVE TypeOK'
  OBVIOUS
<1> USE DEF TypeOK, Goto, UnlockMutex, content, history, LockFile
<1>1. ASSUME NEW t \in Threads, Acquire(t) PROVE TypeOK'
  <2>1. CASE LockMutex(t)
    BY <2>1 DEF LockMutex, Steps
  <2>2. CASE Open(t)
    <3>1. CASE lock = None /\ Goto(t, "open", "stamp")
      <4>1. PICK i \in Inodes :
              /\ lock' = [ino |-> i, by |-> t, stamped |-> FALSE, old |-> FALSE]
              /\ info' = [info EXCEPT ![t] = i]
              /\ stray' = (stray \/ Reused(t, i))
              /\ UNCHANGED <<result, mutex, alive, content, removals, slow>>
        BY <2>2, <3>1 DEF Open
      <4>2. stray' \in BOOLEAN
        BY <4>1 DEF Reused
      <4> QED
        BY <3>1, <4>1, <4>2 DEF Steps
    <3>2. CASE lock # None /\ Goto(t, "open", "read")
      BY <2>2, <3>2 DEF Open, Steps
    <3> QED
      BY <2>2, <3>1, <3>2 DEF Open
  <2>3. CASE OpenFails(t)
    BY <2>3 DEF OpenFails, Steps
  <2>4. CASE Stamp(t)
    <3>1. lock # None => [lock EXCEPT !.stamped = TRUE] \in LockFile
      OBVIOUS
    <3> QED
      BY <2>4, <3>1 DEF Stamp, Steps
  <2>5. CASE StampFails(t)
    BY <2>5 DEF StampFails, Steps
  <2>6. CASE ReadOwner(t)
    BY <2>6 DEF ReadOwner, Steps
  <2>7. CASE StatAge(t)
    BY <2>7 DEF StatAge, Steps
  <2>8. CASE Reclaim(t)
    BY <2>8 DEF Reclaim, InUse, Steps
  <2>9. CASE Retry(t)
    BY <2>9 DEF Retry, Steps
  <2>10. CASE TimeOut(t)
    BY <2>10 DEF TimeOut, Steps
  <2> QED
    BY <1>1, <2>1, <2>2, <2>3, <2>4, <2>5, <2>6, <2>7, <2>8, <2>9, <2>10 DEF Acquire
<1>2. ASSUME NEW t \in Threads, Edit(t) PROVE TypeOK'
  <2>1. CASE LoadServices(t)
    BY <2>1 DEF LoadServices, Steps, Contents, Sections
  <2>2. CASE LoadRaw(t)
    <3>1. [view EXCEPT ![t].raw = file] \in [Threads -> [services : SUBSET Threads, raw : Contents]]
      OBVIOUS
    <3> QED
      BY <2>2, <3>1 DEF LoadRaw, Steps
  <2>3. CASE Save(t)
    <3>1. Edited(t) \in Contents
      BY DEF Edited, Contents, Sections
    <3>2. Unread \in [services : SUBSET Threads, raw : Contents]
      BY DEF Unread, Empty, Contents, Sections
    <3> QED
      BY <2>3, <3>1, <3>2 DEF Save, Steps
  <2>4. CASE EditFails(t)
    <3>1. Unread \in [services : SUBSET Threads, raw : Contents]
      BY DEF Unread, Empty, Contents, Sections
    <3> QED
      BY <2>4, <3>1 DEF EditFails, Steps
  <2> QED
    BY <1>2, <2>1, <2>2, <2>3, <2>4 DEF Edit
<1>3. ASSUME NEW t \in Threads, Release(t) PROVE TypeOK'
  BY <1>3 DEF Release, ReleaseStat, ReleaseUnlink, Steps
<1>4. ASSUME NEW p \in Procs, Crash(p) PROVE TypeOK'
  BY <1>4 DEF Crash
<1>5. CASE AgeLock
  <2>1. [lock EXCEPT !.old = TRUE] \in LockFile /\ lock.by \in Threads
    BY <1>5 DEF AgeLock
  <2> QED
    BY <1>5, <2>1 DEF AgeLock
<1>6. CASE AllReturned \/ UNCHANGED vars
  BY <1>6 DEF AllReturned, vars
<1> QED
  BY <1>1, <1>2, <1>3, <1>4, <1>5, <1>6 DEF Next, ThreadStep

(* Every variable keeps its type: in particular the lock file always names *)
(* a thread and an inode, through any crash or race (filelock.go).         *)
THEOREM TypeCorrect == Spec => []TypeOK
  BY InitTyped, NextTyped, PTL DEF Spec

(***************************************************************************)
(* The inductive invariant.                                                *)
(***************************************************************************)
LEMMA InitInv == Init => IInv
  BY InitTyped DEF Init, IInv, Pending, LockInv, OwnerHasLock, JudgedDead, AgedDead,
                   ViewFresh, AckedKept, Owning

(* An edit without an outcome stays so until it is saved or fails.         *)
LEMMA PendingStep == TypeOK /\ Pending /\ [Next]_vars => Pending'
<1> SUFFICES ASSUME TypeOK, Pending, [Next]_vars PROVE Pending'
  OBVIOUS
<1> USE DEF TypeOK, Pending, Goto, content, history
<1>1. ASSUME NEW t \in Threads, Acquire(t) PROVE Pending'
  BY <1>1 DEF Acquire, LockMutex, Open, OpenFails, Stamp, StampFails, ReadOwner,
              StatAge, Reclaim, Retry, TimeOut
<1>2. ASSUME NEW t \in Threads, Edit(t) PROVE Pending'
  BY <1>2 DEF Edit, LoadServices, LoadRaw, Save, EditFails
<1>3. ASSUME NEW t \in Threads, Release(t) PROVE Pending'
  BY <1>3 DEF Release, ReleaseStat, ReleaseUnlink
<1>4. CASE (\E p \in Procs : Crash(p)) \/ AgeLock \/ AllReturned \/ UNCHANGED vars
  BY <1>4 DEF Crash, AgeLock, AllReturned, vars
<1> QED
  BY <1>1, <1>2, <1>3, <1>4 DEF Next, ThreadStep

(* Once raced, always raced.                                               *)
LEMMA RacedStays == TypeOK /\ [Next]_vars /\ Unraced' => Unraced
<1> SUFFICES ASSUME TypeOK, [Next]_vars, Unraced' PROVE Unraced
  OBVIOUS
<1>1. removals' >= removals /\ slow \subseteq slow'
  BY DEF TypeOK, Next, ThreadStep, Acquire, LockMutex, Open, OpenFails, Stamp, StampFails,
         ReadOwner, StatAge, Reclaim, Retry, TimeOut, Edit, LoadServices, LoadRaw, Save,
         EditFails, Release, ReleaseStat, ReleaseUnlink, Crash, AgeLock, AllReturned,
         vars, content, history
<1> QED
  BY <1>1, NextTyped DEF Unraced, TypeOK

LEMMA LockInvStep == IInv /\ [Next]_vars /\ Unraced' => LockInv'
<1> SUFFICES ASSUME IInv, [Next]_vars, Unraced' PROVE LockInv'
  OBVIOUS
<1>a. TypeOK /\ Pending /\ LockInv /\ Unraced
  BY RacedStays DEF IInv
<1> USE <1>a DEF TypeOK, LockInv, OwnerHasLock, JudgedDead, AgedDead, ViewFresh, AckedKept,
                 Goto, Alive, Owning, content, history, LockFile
<1>1. ASSUME NEW t \in Threads, Acquire(t) PROVE LockInv'
  <2>1. CASE LockMutex(t)
    BY <2>1 DEF LockMutex
  <2>2. CASE Open(t)
    <3>1. CASE lock = None /\ Goto(t, "open", "stamp")
      <4>1. PICK i \in Inodes :
              /\ lock' = [ino |-> i, by |-> t, stamped |-> FALSE, old |-> FALSE]
              /\ UNCHANGED <<result, mutex, alive, content, removals, slow>>
        BY <2>2, <3>1 DEF Open
      <4>2. OwnerHasLock'
        <5>a. lock' \in LockFile
          BY <4>1
        <5>b. lock'.by = t
          BY <4>1
        <5>1. lock' # None /\ lock'.by = t
          BY <5>a, <5>b, NoneAssumption
        <5>2. \A u \in Threads : ~(Alive(u) /\ pc[u] \in Owning)
          BY <3>1
        <5> QED
          BY <3>1, <4>1, <5>1, <5>2
      <4>3. JudgedDead'
        BY <3>1, <4>1
      <4>4. AgedDead' /\ ViewFresh' /\ AckedKept'
        BY <3>1, <4>1
      <4> QED
        BY <4>2, <4>3, <4>4
    <3>2. CASE lock # None /\ Goto(t, "open", "read")
      BY <2>2, <3>2 DEF Open
    <3> QED
      BY <2>2, <3>1, <3>2 DEF Open
  <2>3. CASE OpenFails(t)
    BY <2>3 DEF OpenFails
  <2>4. CASE Stamp(t)
    <3>1. lock # None /\ lock.by = t /\ lock' = [lock EXCEPT !.stamped = TRUE]
      BY <2>4 DEF Stamp
    <3>2. lock' # None /\ lock'.by = lock.by /\ lock'.old = lock.old
      BY <3>1
    <3> QED
      BY <2>4, <3>1, <3>2 DEF Stamp
  <2>5. CASE StampFails(t)
    <3>1. lock # None /\ lock.by = t
      BY <2>5 DEF StampFails
    <3> QED
      BY <2>5, <3>1 DEF StampFails
  <2>6. CASE ReadOwner(t)
    <3>1. pc'[t] = "reclaim" => lock # None /\ ProcOf[lock.by] \notin alive
      BY <2>6 DEF ReadOwner, NamesDeadNeighbour
    <3> QED
      BY <2>6, <3>1 DEF ReadOwner
  <2>7. CASE StatAge(t)
    <3>1. pc'[t] = "reclaim" => lock # None /\ ProcOf[lock.by] \notin alive
      BY <2>7 DEF StatAge
    <3> QED
      BY <2>7, <3>1 DEF StatAge
  <2>8. CASE Reclaim(t)
    <3>1. removals = 0 => lock # None /\ ProcOf[lock.by] \notin alive
      BY <2>8 DEF Reclaim
    <3>2. removals' \in {0, 1}
      BY <2>8 DEF Reclaim, Unraced
    <3>3. removals = 1 => lock = None
      BY <2>8, <3>2 DEF Reclaim
    <3>4. \A u \in Threads : ~(Alive(u) /\ pc[u] \in Owning)
      BY <3>1, <3>2, <3>3, <2>8 DEF Reclaim
    <3>5. removals' # 0
      BY <3>1, <3>2, <2>8 DEF Reclaim
    <3> QED
      BY <2>8, <3>4, <3>5 DEF Reclaim
  <2>9. CASE Retry(t)
    BY <2>9 DEF Retry
  <2>10. CASE TimeOut(t)
    BY <2>10 DEF TimeOut
  <2> QED
    BY <1>1, <2>1, <2>2, <2>3, <2>4, <2>5, <2>6, <2>7, <2>8, <2>9, <2>10 DEF Acquire
<1>2. ASSUME NEW t \in Threads, Edit(t) PROVE LockInv'
  <2>1. CASE LoadServices(t)
    BY <2>1 DEF LoadServices, Contents, Sections
  <2>2. CASE LoadRaw(t)
    BY <2>2 DEF LoadRaw, Contents, Sections
  <2>3. CASE Save(t)
    <3>1. lock # None /\ lock.by = t
      BY <2>3 DEF Save
    <3>2. \A u \in Threads \ {t} : ~(Alive(u) /\ pc[u] \in Owning)
      BY <3>1
    <3>3. file' = [file EXCEPT ![Kind[t]] = file[Kind[t]] \cup {t}]
      BY <2>3 DEF Save, Edited, Contents, Sections
    <3>4. AckedKept'
      BY <2>3, <3>3 DEF Save, Contents
    <3>5. OwnerHasLock' /\ JudgedDead' /\ AgedDead' /\ ViewFresh'
      BY <2>3, <3>2 DEF Save
    <3> QED
      BY <3>4, <3>5
  <2>4. CASE EditFails(t)
    <3>1. Alive(t) /\ pc[t] \in Owning /\ pc' = [pc EXCEPT ![t] = "release"]
      BY <2>4 DEF EditFails
    <3> QED
      BY <2>4, <3>1 DEF EditFails
  <2> QED
    BY <1>2, <2>1, <2>2, <2>3, <2>4 DEF Edit
<1>3. ASSUME NEW t \in Threads, Release(t) PROVE LockInv'
  <2>1. CASE ReleaseStat(t)
    BY <2>1 DEF ReleaseStat
  <2>2. CASE ReleaseUnlink(t)
    <3>1. lock # None /\ lock.by = t
      BY <2>2 DEF ReleaseUnlink
    <3>2. \A u \in Threads \ {t} : ~(Alive(u) /\ pc[u] \in Owning)
      BY <3>1
    <3> QED
      BY <2>2, <3>1, <3>2 DEF ReleaseUnlink
  <2> QED
    BY <1>3, <2>1, <2>2 DEF Release
<1>4. ASSUME NEW p \in Procs, Crash(p) PROVE LockInv'
  BY <1>4 DEF Crash
<1>5. CASE AgeLock
  <2>1. lock' # None /\ lock'.by = lock.by
    BY <1>5 DEF AgeLock
  <2>2. ProcOf[lock.by] \notin alive
    BY <1>5 DEF AgeLock, Unraced
  <2> QED
    BY <1>5, <2>1, <2>2 DEF AgeLock
<1>6. CASE AllReturned \/ UNCHANGED vars
  BY <1>6 DEF AllReturned, vars
<1> QED
  BY <1>1, <1>2, <1>3, <1>4, <1>5, <1>6 DEF Next, ThreadStep

LEMMA NextInv == IInv /\ [Next]_vars => IInv'
  BY NextTyped, PendingStep, LockInvStep DEF IInv

LEMMA Invariance == Spec => []IInv
  BY InitInv, NextInv, PTL DEF Spec

(***************************************************************************)
(* What follows from it.                                                   *)
(***************************************************************************)
(* withConfigLock excludes every other editor of the file, in this process *)
(* or another, on this host or another, whatever crashes, until a second   *)
(* stale lock is removed or a living owner outstays lockStaleAfter.        *)
THEOREM Exclusion == Spec => []ExclusiveUntilRaced
<1>1. IInv => ExclusiveUntilRaced
  BY DEF IInv, ExclusiveUntilRaced, ExclusiveLock, InCritical, LockInv, OwnerHasLock,
         Critical, Owning
<1> QED
  BY <1>1, Invariance, PTL

(* No edit whose function returned without error is ever missing from the  *)
(* file while the lock is unraced (user.go: UpdatePasswordHash, AddService *)
(* and the others).                                                        *)
THEOREM NoLostEdit == Spec => []AckedEditsKept
<1>1. IInv => AckedEditsKept
  BY DEF IInv, AckedEditsKept, LockInv, AckedKept
<1> QED
  BY <1>1, Invariance, PTL

(***************************************************************************)
(* Slow owners, with any number of stale locks removed.                    *)
(***************************************************************************)
(* A living owner that was not slow still has its lock file.               *)
PromptHasLock ==
    \A t \in Threads \ slow : Alive(t) /\ pc[t] \in Owning => lock # None /\ lock.by = t

(* Only a slow or a dead owner's lock is ever old.                         *)
OldIsSlow == lock # None /\ lock.old => lock.by \in slow \/ ~Alive(lock.by)

(* An owner about to remove the lock file is about to remove its own.      *)
AtUnlinkOwn == \A t \in Threads : Alive(t) /\ pc[t] = "unlink" => lock # None /\ lock.by = t

(* A successor's file has another inode than the one its owner looks for.  *)
SuccessorDiffers ==
    \A t \in Threads : Alive(t) /\ pc[t] \in Owning /\ lock # None /\ lock.by # t
                        => lock.ino # info[t]

SlowInv == ~stray => PromptHasLock /\ AtUnlinkOwn /\ SuccessorDiffers

LEMMA OldStep == TypeOK /\ OldIsSlow /\ [Next]_vars => OldIsSlow'
<1> SUFFICES ASSUME TypeOK, OldIsSlow, [Next]_vars PROVE OldIsSlow'
  OBVIOUS
<1> USE DEF TypeOK, OldIsSlow, Goto, Alive, content, history, LockFile
<1>1. ASSUME NEW t \in Threads, Open(t) PROVE OldIsSlow'
  <2>1. (lock' # None /\ lock'.old => lock' = lock) /\ UNCHANGED <<alive, slow>>
    BY <1>1 DEF Open
  <2> QED
    BY <2>1
<1>2. ASSUME NEW t \in Threads, Stamp(t) PROVE OldIsSlow'
  <2>1. lock' # None => lock # None /\ lock'.by = lock.by /\ lock'.old = lock.old
    BY <1>2 DEF Stamp
  <2> QED
    BY <1>2, <2>1 DEF Stamp
<1>3. ASSUME NEW t \in Threads, StampFails(t) \/ Reclaim(t) \/ ReleaseUnlink(t) PROVE OldIsSlow'
  BY <1>3 DEF StampFails, Reclaim, ReleaseUnlink
<1>4. ASSUME NEW t \in Threads,
             \/ LockMutex(t) \/ OpenFails(t) \/ ReadOwner(t) \/ StatAge(t) \/ Retry(t)
             \/ TimeOut(t) \/ Edit(t) \/ ReleaseStat(t)
      PROVE  UNCHANGED <<lock, alive, slow>>
  BY <1>4 DEF LockMutex, OpenFails, ReadOwner, StatAge, Retry, TimeOut, Edit, LoadServices,
              LoadRaw, Save, EditFails, ReleaseStat
<1>5. ASSUME NEW p \in Procs, Crash(p) PROVE OldIsSlow'
  BY <1>5 DEF Crash
<1>6. CASE AgeLock
  <2>1. lock'.by = lock.by /\ lock.by \in Threads
    BY <1>6 DEF AgeLock
  <2> QED
    BY <1>6, <2>1 DEF AgeLock
<1>7. CASE AllReturned \/ UNCHANGED vars
  BY <1>7 DEF AllReturned, vars
<1> QED
  BY <1>1, <1>2, <1>3, <1>4, <1>5, <1>6, <1>7 DEF Next, ThreadStep, Acquire, Release

LEMMA SlowInvStep == TypeOK /\ OldIsSlow /\ SlowInv /\ [Next]_vars => SlowInv'
<1> SUFFICES ASSUME TypeOK, OldIsSlow, SlowInv, [Next]_vars, ~stray'
             PROVE  (PromptHasLock /\ AtUnlinkOwn /\ SuccessorDiffers)'
  BY DEF SlowInv
<1>a. ~stray
  BY DEF TypeOK, Next, ThreadStep, Acquire, LockMutex, Open, OpenFails, Stamp, StampFails,
         ReadOwner, StatAge, Reclaim, Retry, TimeOut, Edit, LoadServices, LoadRaw, Save,
         EditFails, Release, ReleaseStat, ReleaseUnlink, Crash, AgeLock, AllReturned,
         vars, content, history
<1>b. PromptHasLock /\ AtUnlinkOwn /\ SuccessorDiffers
  BY <1>a DEF SlowInv
<1> USE <1>b DEF TypeOK, PromptHasLock, AtUnlinkOwn, SuccessorDiffers, Goto, Alive, Owning,
                 content, history, LockFile
<1> DEFINE Kept == (PromptHasLock /\ AtUnlinkOwn /\ SuccessorDiffers)'
<1>1. ASSUME NEW t \in Threads, Open(t) PROVE Kept
  <2>1. CASE lock = None /\ Goto(t, "open", "stamp")
    <3>1. PICK i \in Inodes :
            /\ lock' = [ino |-> i, by |-> t, stamped |-> FALSE, old |-> FALSE]
            /\ info' = [info EXCEPT ![t] = i]
            /\ stray' = (stray \/ Reused(t, i))
            /\ UNCHANGED <<alive, slow>>
      BY <1>1, <2>1 DEF Open
    <3>2. lock' # None /\ lock'.by = t /\ lock'.ino = i
      <4>1. lock' \in LockFile
        BY <3>1
      <4> QED
        BY <3>1, <4>1, NoneAssumption
    <3>3. ~Reused(t, i)
      BY <3>1
    <3>4. \A u \in Threads \ slow : ~(Alive(u) /\ pc[u] \in Owning)
      BY <2>1
    <3>5. \A u \in Threads \ {t} : Alive(u) /\ pc[u] \in Owning => info'[u] # i
      BY <3>1, <3>3 DEF Reused
    <3>6. PromptHasLock'
      BY <2>1, <3>1, <3>2, <3>4
    <3>7. AtUnlinkOwn'
      BY <2>1, <3>1, <3>2
    <3>8. SuccessorDiffers'
      BY <2>1, <3>1, <3>2, <3>5
    <3> QED
      BY <3>6, <3>7, <3>8
  <2>2. CASE lock # None /\ Goto(t, "open", "read")
    BY <1>1, <2>2 DEF Open
  <2> QED
    BY <1>1, <2>1, <2>2 DEF Open
<1>2. ASSUME NEW t \in Threads, Stamp(t) PROVE Kept
  <2>1. /\ lock # None => lock' # None /\ lock'.by = lock.by /\ lock'.ino = lock.ino
        /\ lock = None => lock' = None
    <3>1. lock # None => [lock EXCEPT !.stamped = TRUE] \in LockFile
      OBVIOUS
    <3> QED
      BY <1>2, <3>1, NoneAssumption DEF Stamp
  <2> QED
    BY <1>2, <2>1 DEF Stamp
<1>3. ASSUME NEW t \in Threads, StampFails(t) PROVE Kept
  <2>1. lock = None \/ lock.by = t
    BY <1>3 DEF StampFails
  <2>2. \A u \in Threads \ ({t} \cup slow) : ~(Alive(u) /\ pc[u] \in Owning)
    BY <2>1
  <2>3. \A u \in Threads \ {t} : ~(Alive(u) /\ pc[u] = "unlink")
    BY <2>1
  <2> QED
    BY <1>3, <2>2, <2>3 DEF StampFails
<1>4. ASSUME NEW t \in Threads, Reclaim(t) PROVE Kept
  <2>1. ~InUse
    BY <1>4 DEF Reclaim
  <2>2. lock # None /\ Alive(lock.by) => lock.by \in slow /\ pc[lock.by] # "unlink"
    BY <2>1 DEF InUse, OldIsSlow
  <2>3. \A u \in Threads \ slow : ~(Alive(u) /\ pc[u] \in Owning)
    BY <2>2
  <2>4. \A u \in Threads : ~(Alive(u) /\ pc[u] = "unlink")
    BY <2>2
  <2> QED
    BY <1>4, <2>3, <2>4 DEF Reclaim
<1>5. ASSUME NEW t \in Threads, ReleaseStat(t) PROVE Kept
  <2>1. pc'[t] = "unlink" => lock # None /\ lock.by = t
    BY <1>5 DEF ReleaseStat, SameFile
  <2> QED
    BY <1>5, <2>1 DEF ReleaseStat
<1>6. ASSUME NEW t \in Threads, ReleaseUnlink(t) PROVE Kept
  <2>1. lock # None /\ lock.by = t
    BY <1>6 DEF ReleaseUnlink
  <2>2. \A u \in Threads \ ({t} \cup slow) : ~(Alive(u) /\ pc[u] \in Owning)
    BY <2>1
  <2>3. \A u \in Threads \ {t} : ~(Alive(u) /\ pc[u] = "unlink")
    BY <2>1
  <2> QED
    BY <1>6, <2>2, <2>3 DEF ReleaseUnlink
<1>7. ASSUME NEW t \in Threads,
             \/ LockMutex(t) \/ OpenFails(t) \/ ReadOwner(t) \/ StatAge(t) \/ Retry(t) \/ TimeOut(t)
      PROVE  Kept
  BY <1>7 DEF LockMutex, OpenFails, ReadOwner, StatAge, Retry, TimeOut
<1>8. ASSUME NEW t \in Threads, Edit(t) PROVE Kept
  <2>1. /\ UNCHANGED <<lock, alive, slow, info>>
        /\ \A u \in Threads : /\ pc'[u] \in Owning <=> pc[u] \in Owning
                              /\ pc'[u] = "unlink" <=> pc[u] = "unlink"
    BY <1>8 DEF Edit, LoadServices, LoadRaw, Save, EditFails
  <2> QED
    BY <2>1
<1>9. ASSUME NEW p \in Procs, Crash(p) PROVE Kept
  BY <1>9 DEF Crash
<1>10. ASSUME AgeLock PROVE Kept
  <2>1. /\ lock # None /\ lock' # None /\ lock'.by = lock.by /\ lock'.ino = lock.ino
        /\ slow \subseteq slow'
    <3>1. [lock EXCEPT !.old = TRUE] \in LockFile
      BY <1>10 DEF AgeLock
    <3> QED
      BY <1>10, <3>1, NoneAssumption DEF AgeLock
  <2> QED
    BY <1>10, <2>1 DEF AgeLock
<1>11. ASSUME AllReturned \/ UNCHANGED vars PROVE Kept
  BY <1>11 DEF AllReturned, vars
<1> HIDE DEF Kept
<1>12. ASSUME NEW t \in Threads, ThreadStep(t) PROVE Kept
  BY <1>1, <1>2, <1>3, <1>4, <1>5, <1>6, <1>7, <1>8, <1>12, Zenon
     DEF ThreadStep, Acquire, Release
<1>13. Kept
  BY <1>9, <1>10, <1>11, <1>12, Zenon DEF Next
<1> QED
  BY <1>13 DEF Kept

(* With any number of crashes, stale locks and slow owners, two edits      *)
(* overlap only if one of them outstayed lockStaleAfter: the lock of a     *)
(* prompt owner is taken away by no one, the unlock() of a slow one        *)
(* included (filelock.go:43), as long as what os.SameFile cannot see has   *)
(* not happened.                                                           *)
THEOREM SlowOwnersAlone == Spec => []OnlySlowOverlap
<1> DEFINE I == TypeOK /\ OldIsSlow /\ SlowInv
<1>1. Init => I
  BY InitTyped DEF Init, OldIsSlow, SlowInv, PromptHasLock, AtUnlinkOwn, SuccessorDiffers, Owning
<1>2. I /\ [Next]_vars => I'
  BY NextTyped, OldStep, SlowInvStep
<1>3. I => OnlySlowOverlap
  BY DEF SlowInv, PromptHasLock, OnlySlowOverlap, InCritical, Critical, Owning
<1> QED
  BY <1>1, <1>2, <1>3, PTL DEF Spec

(***************************************************************************)
(* The refinement.                                                         *)
(***************************************************************************)
LEMMA InitRefines == Init => Atomic!Init
  BY DEF Init, Atomic!Init, Empty, Sections, Atomic!Sections, Unraced

(* While the lock is unraced, only Save touches the file, and it adds one  *)
(* edit to what the file holds; the failing steps leave it alone.          *)
LEMMA UnracedStep ==
    ASSUME IInv, [Next]_vars, Unraced, Unraced'
    PROVE  \/ \E t \in Threads : Atomic!Apply(t) \/ Atomic!Reject(t)
           \/ UNCHANGED <<file, result>>
<1> USE DEF Goto, content, history
<1>a. TypeOK /\ Pending /\ ViewFresh
  BY DEF IInv, LockInv
<1>1. ASSUME NEW t \in Threads, Save(t) PROVE Atomic!Apply(t)
  <2>1. view[t].raw = file /\ (Kind[t] = "services" => view[t].services = file["services"])
    BY <1>a, <1>1 DEF Save, ViewFresh, Alive
  <2>2. file' = [file EXCEPT ![Kind[t]] = file[Kind[t]] \cup {t}]
    BY <1>a, <1>1, <2>1 DEF Save, Edited, TypeOK, Contents, Sections
  <2>3. result[t] = "none"
    BY <1>a, <1>1 DEF Save, Pending
  <2> QED
    BY <1>1, <2>2, <2>3 DEF Save, Atomic!Apply
<1>2. ASSUME NEW t \in Threads,
             EditFails(t) \/ OpenFails(t) \/ StampFails(t) \/ TimeOut(t)
      PROVE  Atomic!Reject(t)
  <2>1. result[t] = "none"
    BY <1>a, <1>2 DEF Pending, EditFails, OpenFails, StampFails, TimeOut
  <2> QED
    BY <1>2, <2>1 DEF Atomic!Reject, EditFails, OpenFails, StampFails, TimeOut
<1>3. ASSUME NEW t \in Threads,
             \/ LockMutex(t) \/ Open(t) \/ Stamp(t) \/ ReadOwner(t) \/ StatAge(t)
             \/ Reclaim(t) \/ Retry(t) \/ LoadServices(t) \/ LoadRaw(t) \/ Release(t)
      PROVE  UNCHANGED <<file, result>>
  BY <1>3 DEF LockMutex, Open, Stamp, ReadOwner, StatAge, Reclaim, Retry, LoadServices,
              LoadRaw, Release, ReleaseStat, ReleaseUnlink
<1>4. ASSUME (\E p \in Procs : Crash(p)) \/ AgeLock \/ AllReturned \/ UNCHANGED vars
      PROVE  UNCHANGED <<file, result>>
  BY <1>4 DEF Crash, AgeLock, AllReturned, vars
<1> QED
  BY <1>1, <1>2, <1>3, <1>4 DEF Next, ThreadStep, Acquire, Edit

(* The step that races the lock writes nothing itself.                     *)
LEMMA RacingStep ==
    ASSUME TypeOK, [Next]_vars, Unraced, ~Unraced'
    PROVE  UNCHANGED <<file, result>>
<1>1. removals' # removals \/ slow' # slow
  BY DEF Unraced
<1>2. (\E t \in Threads : Reclaim(t)) \/ AgeLock
  BY <1>1 DEF Next, ThreadStep, Acquire, LockMutex, Open, OpenFails, Stamp, StampFails,
         ReadOwner, StatAge, Retry, TimeOut, Edit, LoadServices, LoadRaw, Save,
         EditFails, Release, ReleaseStat, ReleaseUnlink, Crash, AllReturned, vars,
         content, history
<1> QED
  BY <1>2 DEF Reclaim, AgeLock, content

(* The lock-file protocol implements atomic edits: each step of it is one  *)
(* edit applied to the current document, one edit rejected, or no change   *)
(* of the document, up to the moment the lock is raced.                    *)
THEOREM Refinement == Spec => ImplementsAtomicEdits
<1>1. Init => Atomic!Init
  BY InitRefines
<1>2. IInv /\ [Next]_vars => [Atomic!Next]_(Atomic!avars)
  <2> SUFFICES ASSUME IInv, [Next]_vars PROVE [Atomic!Next]_(Atomic!avars)
    OBVIOUS
  <2>1. CASE Unraced /\ Unraced'
    BY <2>1, UnracedStep DEF Atomic!Next, Atomic!avars
  <2>2. CASE Unraced /\ ~Unraced'
    BY <2>2, RacingStep DEF IInv, Atomic!Next, Atomic!LoseLock
  <2>3. CASE ~Unraced
    BY <2>3, RacedStays DEF IInv, Atomic!Next, Atomic!Unprotected
  <2> QED
    BY <2>1, <2>2, <2>3
<1> QED
  BY <1>1, <1>2, Invariance, PTL DEF Spec, ImplementsAtomicEdits, Atomic!Spec
===============================================================================
