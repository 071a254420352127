----------------------------- MODULE LoginThrottle ----------------------------
(***************************************************************************)
(* handleLogin of internal/server/server.go as a client of the limiter     *)
(* (handleTwoFAPost uses totpLimiter in the same way): ask IsBlocked,      *)
(* verify the password, then RecordFailure or Reset.  The limiter's mutex  *)
(* covers each call, not the three of them, and bcrypt runs in between:    *)
(* any number of requests for one key may be past the check at once.       *)
(***************************************************************************)
EXTENDS RateLimiter

CONSTANTS Handlers,  \* concurrent login requests
          NoKey

ASSUME HandlersAssumption == IsFiniteSet(Handlers) /\ Handlers # {}
ASSUME NoKeyAssumption == NoKey \notin Keys

VARIABLES
    failures,  \* the limiter's table
    pc,        \* "idle", "check" (before IsBlocked), "verify" (after it)
    rateKey    \* the key of the request a handler is serving

vars == <<failures, pc, rateKey>>

Init ==
    /\ failures = NoFailures
    /\ pc = [h \in Handlers |-> "idle"]
    /\ rateKey = [h \in Handlers |-> NoKey]

(* The handler answers and is free again.                                  *)
Answer(h) ==
    /\ pc' = [pc EXCEPT ![h] = "idle"]
    /\ rateKey' = [rateKey EXCEPT ![h] = NoKey]

Arrive(h, k) ==
    /\ pc[h] = "idle"
    /\ pc' = [pc EXCEPT ![h] = "check"]
    /\ rateKey' = [rateKey EXCEPT ![h] = k]
    /\ UNCHANGED failures

(* Mutant: an off-by-one in the comparison with maxFailures.               *)
Check_OffByOne(h) ==
    /\ pc[h] = "check"
    /\ failures' \in AfterIsBlocked(failures, rateKey[h])
    /\ IF Len(failures'[rateKey[h]]) > MaxFailures
       THEN Answer(h)
       ELSE pc' = [pc EXCEPT ![h] = "verify"] /\ UNCHANGED rateKey

(* Mutant: a request that is turned away counts as one more failure.       *)
Check_Counts(h) ==
    /\ pc[h] = "check"
    /\ IF Blocked(failures, rateKey[h])
       THEN failures' = [failures EXCEPT ![rateKey[h]] = Append(Tail(@), 0)] /\ Answer(h)
       ELSE /\ failures' \in AfterIsBlocked(failures, rateKey[h])
            /\ pc' = [pc EXCEPT ![h] = "verify"] /\ UNCHANGED rateKey

(* IsBlocked: 429 for a blocked key, else on to the password.              *)
Check(h) ==
    /\ pc[h] = "check"
    /\ failures' \in AfterIsBlocked(failures, rateKey[h])
    /\ IF Len(failures'[rateKey[h]]) >= MaxFailures
       THEN Answer(h)
       ELSE pc' = [pc EXCEPT ![h] = "verify"] /\ UNCHANGED rateKey

(* Wrong password, unknown user, malformed name or empty password.         *)
Fail(h) ==
    /\ pc[h] = "verify"
    /\ failures' \in AfterRecordFailure(failures, rateKey[h])
    /\ Answer(h)

(* The password matches.                                                   *)
Succeed(h) ==
    /\ pc[h] = "verify"
    /\ failures' = AfterReset(failures, rateKey[h])
    /\ Answer(h)

Tick ==
    /\ failures' = [k \in Keys |-> Older(failures[k])]
    /\ UNCHANGED <<pc, rateKey>>

Next ==
    \/ \E h \in Handlers :
          (\E k \in Keys : Arrive(h, k)) \/ Check(h) \/ Fail(h) \/ Succeed(h)
    \/ Tick

(* Time passes; every request that was let in is answered.                 *)
Fairness == WF_vars(Tick) /\ \A h \in Handlers : WF_vars(Fail(h) \/ Succeed(h))

Spec == Init /\ [][Next]_vars
FairSpec == Spec /\ Fairness

-----------------------------------------------------------------------------
TypeOK ==
    /\ failures \in [Keys -> Seq(Ages)]
    /\ \A k \in Keys : \A i, j \in DOMAIN failures[k] : i < j => failures[k][i] >= failures[k][j]
    /\ pc \in [Handlers -> {"idle", "check", "verify"}]
    /\ rateKey \in [Handlers -> Keys \cup {NoKey}]
    /\ \A h \in Handlers : rateKey[h] = NoKey <=> pc[h] = "idle"

(* rate.go "caps the failure map": no operation leaves more keys in the    *)
(* table than its capacity, however many distinct keys are tried.          *)
TableBounded == Cardinality(Stored(failures)) <= Capacity

(* Requests past the check of the same key.                                *)
Verifying(k) == {h \in Handlers : pc[h] = "verify" /\ rateKey[h] = k}

(* Check and record are separate calls, so a key can collect more than     *)
(* maxFailures wrong passwords in a window (handleLogin): at most one per  *)
(* concurrent request beyond the threshold, counting those still running.  *)
OvershootBounded ==
    \A k \in Keys :
        Len(failures[k]) + Cardinality(Verifying(k)) <= MaxFailures - 1 + Cardinality(Handlers)

(* "An attacker flooding cheap distinct keys must not reset the limit of   *)
(* the key being attacked" (rate.go): a blocked key is only let off by the *)
(* clock, by a successful login with that key, or, in a table full of      *)
(* blocked keys, to make room for a new one.                               *)
BlockHolds ==
    [][\A k \in Keys :
        Blocked(failures, k) /\ ~Blocked(failures', k) =>
            \/ Tick
            \/ \E h \in Handlers : Succeed(h) /\ rateKey[h] = k
            \/ \A j \in Stored(failures) : Live(failures[j]) # <<>> => Blocked(failures, j)]_vars

(* "Dropping the incoming key would prevent it from ever accumulating      *)
(* failures" (rate.go): a recorded failure counts, even in a full table.   *)
FailuresAccumulate ==
    [][\A h \in Handlers : Fail(h) =>
            \/ Succeed(h)
            \/ Len(failures'[rateKey[h]]) = Len(Live(failures[rateKey[h]])) + 1]_vars

(* A block ends ("try again in 15 minutes", handleLogin): being turned     *)
(* away does not prolong it, whatever the client keeps sending.            *)
BlockEnds == \A k \in Keys : Blocked(failures, k) ~> ~Blocked(failures, k)
===============================================================================
