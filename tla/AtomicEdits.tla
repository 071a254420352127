------------------------------ MODULE AtomicEdits -----------------------------
(***************************************************************************)
(* What withConfigLock (internal/config/user.go) promises its callers:     *)
(* edits of one document take effect one at a time, each adding itself to  *)
(* its own section and disturbing nothing else, or fail without a trace.   *)
(* The promise is void once the lock has been raced (`raced`).             *)
(***************************************************************************)
CONSTANTS Threads, Kind

Sections == {"services", "auth"}

VARIABLES doc, outcome, raced

avars == <<doc, outcome, raced>>

Init ==
    /\ doc = [s \in Sections |-> {}]
    /\ outcome = [t \in Threads |-> "none"]
    /\ raced = FALSE

(* The edit of t is published.                                             *)
Apply(t) ==
    /\ ~raced
    /\ outcome[t] = "none"
    /\ outcome' = [outcome EXCEPT ![t] = "ok"]
    /\ doc' = [doc EXCEPT ![Kind[t]] = doc[Kind[t]] \cup {t}]
    /\ UNCHANGED raced

(* The edit of t fails: lock time-out, validation or I/O error.            *)
Reject(t) ==
    /\ ~raced
    /\ outcome[t] = "none"
    /\ outcome' = [outcome EXCEPT ![t] = "error"]
    /\ UNCHANGED <<doc, raced>>

LoseLock == raced' = TRUE /\ UNCHANGED <<doc, outcome>>

Unprotected == raced /\ raced' = TRUE

Next == (\E t \in Threads : Apply(t) \/ Reject(t)) \/ LoseLock \/ Unprotected

Spec == Init /\ [][Next]_avars
===============================================================================
