------------------------- MODULE LoginThrottle_proofs -------------------------
(***************************************************************************)
(* Proofs about the limiter and its use by handleLogin, for any number of  *)
(* keys, requests and failures, any capacity and any window.               *)
(***************************************************************************)
EXTENDS LoginThrottle, FiniteSetTheorems, TLAPS

USE KeysAssumption, MaxFailuresAssumption, CapacityAssumption, WindowAssumption,
    HandlersAssumption, NoKeyAssumption

Tables == [Keys -> Seq(Ages)]

(***************************************************************************)
(* The operations of the limiter.                                          *)
(***************************************************************************)
(* Pruning keeps a suffix.                                                 *)
LEMMA LiveShorter ==
    ASSUME NEW s \in Seq(Ages)
    PROVE  Live(s) \in Seq(Ages) /\ Len(Live(s)) <= Len(s)
<1> DEFINE expired == {i \in 1..Len(s) : s[i] >= Window}
<1>1. Len(s) \in Nat
  OBVIOUS
<1>2. IsFiniteSet(1..Len(s)) /\ Cardinality(1..Len(s)) = Len(s)
  BY <1>1, FS_Interval
<1>3. IsFiniteSet(expired) /\ Cardinality(expired) <= Len(s)
  BY <1>2, FS_Subset
<1>4. Cardinality(expired) \in Nat
  BY <1>3, FS_CardinalityType
<1> HIDE DEF expired
<1>5. SubSeq(s, 1 + Cardinality(expired), Len(s)) \in Seq(Ages)
  BY <1>1, <1>3, <1>4
<1>6. Len(SubSeq(s, 1 + Cardinality(expired), Len(s))) <= Len(s)
  BY <1>1, <1>3, <1>4
<1> QED
  BY <1>5, <1>6 DEF Live, expired

LEMMA StoredFinite == ASSUME NEW f PROVE IsFiniteSet(Stored(f)) /\ Cardinality(Stored(f)) \in Nat
<1>1. Stored(f) \in SUBSET Keys
  BY DEF Stored
<1> QED
  BY <1>1, FS_Subset, FS_CardinalityType

(* A sweep records nothing: it can only shorten what a key has.            *)
LEMMA SweepShorter ==
    ASSUME NEW f \in Tables, NEW p, NEW g \in sweepIfLarge(f, p)
    PROVE  g \in Tables /\ \A k \in Keys : Len(g[k]) <= Len(f[k])
<1>1. CASE g = f
  BY <1>1 DEF Tables
<1>2. ASSUME NEW V, g = Evict(PruneAll(f), V)
      PROVE  g \in Tables /\ \A k \in Keys : Len(g[k]) <= Len(f[k])
  <2>1. \A k \in Keys : f[k] \in Seq(Ages)
    BY DEF Tables
  <2>2. \A k \in Keys : Live(f[k]) \in Seq(Ages) /\ Len(Live(f[k])) <= Len(f[k])
    BY <2>1, LiveShorter
  <2>3. g = [k \in Keys |-> IF k \in V THEN <<>> ELSE Live(f[k])]
    BY <1>2 DEF Evict, PruneAll
  <2>4. \A k \in Keys : Len(f[k]) \in Nat
    BY <2>1
  <2>5. g \in Tables
    BY <2>2, <2>3 DEF Tables
  <2>6. ASSUME NEW k \in Keys PROVE Len(g[k]) <= Len(f[k])
    BY <2>2, <2>3, <2>4
  <2> QED
    BY <2>5, <2>6
<1> QED
  BY <1>1, <1>2 DEF sweepIfLarge

(* A sweep leaves at most Capacity keys.                                   *)
LEMMA SweepBounds ==
    ASSUME NEW f, NEW p, NEW g \in sweepIfLarge(f, p)
    PROVE  Cardinality(Stored(g)) <= Capacity
<1>1. CASE Cardinality(Stored(f)) <= Capacity
  BY <1>1 DEF sweepIfLarge
<1>2. CASE ~(Cardinality(Stored(f)) <= Capacity)
  <2> DEFINE h == PruneAll(f)
  <2>1. PICK V \in Victims(h, p) : g = Evict(h, V)
    BY <1>2 DEF sweepIfLarge
  <2>2. V \subseteq Stored(h) /\ Cardinality(V) =
          IF Cardinality(Stored(h)) > Capacity THEN Cardinality(Stored(h)) - Capacity ELSE 0
    BY <2>1 DEF Victims
  <2> HIDE DEF h
  <2>3. Stored(g) = Stored(h) \ V
    BY <2>1, <2>2 DEF Stored, Evict
  <2>4. IsFiniteSet(Stored(h)) /\ Cardinality(Stored(h)) \in Nat
    BY StoredFinite
  <2>5. Cardinality(Stored(h) \ V) = Cardinality(Stored(h)) - Cardinality(V)
    <3>1. Stored(h) \cap V = V
      BY <2>2
    <3> QED
      BY <2>4, <3>1, FS_Difference
  <2> QED
    BY <2>2, <2>3, <2>4, <2>5
<1> QED
  BY <1>1, <1>2

(***************************************************************************)
(* Types and the cap.                                                      *)
(***************************************************************************)
Typed ==
    /\ failures \in Tables
    /\ pc \in [Handlers -> {"idle", "check", "verify"}]
    /\ rateKey \in [Handlers -> Keys \cup {NoKey}]
    /\ \A h \in Handlers : pc[h] # "idle" => rateKey[h] \in Keys

(* What the three methods of the limiter do to the table.                  *)
LEMMA IsBlockedTable ==
    ASSUME failures \in Tables, NEW k \in Keys, NEW g \in AfterIsBlocked(failures, k)
    PROVE  g \in Tables /\ \A j \in Keys : Len(g[j]) <= Len(failures[j])
<1>1. failures[k] \in Seq(Ages)
  BY DEF Tables
<1>2. prune(failures, k) \in Tables
  BY <1>1, LiveShorter DEF prune, Tables
<1>3. \A j \in Keys : Len(prune(failures, k)[j]) <= Len(failures[j])
  BY <1>1, LiveShorter DEF prune, Tables
<1>4. \A j \in Keys : /\ Len(failures[j]) \in Nat
                     /\ Len(prune(failures, k)[j]) \in Nat
                     /\ g \in Tables => Len(g[j]) \in Nat
  BY <1>2 DEF Tables
<1> QED
  BY <1>2, <1>3, <1>4, SweepShorter DEF AfterIsBlocked

LEMMA RecordFailureTable ==
    ASSUME failures \in Tables, NEW k \in Keys, NEW g \in AfterRecordFailure(failures, k)
    PROVE  /\ g \in Tables
           /\ Len(g[k]) <= Len(failures[k]) + 1
           /\ \A j \in Keys \ {k} : Len(g[j]) <= Len(failures[j])
<1> DEFINE f == [failures EXCEPT ![k] = Append(Live(failures[k]), 0)]
<1>1. /\ Live(failures[k]) \in Seq(Ages)
      /\ Len(Live(failures[k])) <= Len(failures[k])
  BY LiveShorter DEF Tables
<1>2. 0 \in Ages
  BY DEF Ages
<1>3. /\ Append(Live(failures[k]), 0) \in Seq(Ages)
      /\ Len(Append(Live(failures[k]), 0)) = Len(Live(failures[k])) + 1
  BY <1>1, <1>2
<1>4. f \in Tables
  BY <1>3 DEF Tables
<1>5. \A j \in Keys : Len(failures[j]) \in Nat
  BY DEF Tables
<1>6. Len(Live(failures[k])) \in Nat
  BY <1>1
<1>7. /\ Len(f[k]) <= Len(failures[k]) + 1
      /\ \A j \in Keys \ {k} : f[j] = failures[j]
  BY <1>1, <1>3, <1>5, <1>6 DEF Tables
<1> HIDE DEF f
<1>8. g \in Tables /\ \A j \in Keys : Len(g[j]) <= Len(f[j])
  <2>1. g \in sweepIfLarge(f, k)
    BY DEF AfterRecordFailure, f
  <2> QED
    BY <1>4, <2>1, SweepShorter
<1>9. \A j \in Keys : Len(f[j]) \in Nat /\ Len(g[j]) \in Nat
  BY <1>4, <1>8 DEF Tables
<1>10. Len(g[k]) <= Len(failures[k]) + 1
  <2>1. Len(g[k]) <= Len(f[k])
    BY <1>8
  <2>2. Len(g[k]) \in Nat /\ Len(f[k]) \in Nat /\ Len(failures[k]) \in Nat
    BY <1>5, <1>9
  <2> QED
    BY <1>7, <2>1, <2>2
<1>11. ASSUME NEW j \in Keys \ {k} PROVE Len(g[j]) <= Len(failures[j])
  BY <1>7, <1>8
<1> QED
  BY <1>8, <1>10, <1>11

LEMMA OlderTable ==
    ASSUME failures \in Tables
    PROVE  /\ [k \in Keys |-> Older(failures[k])] \in Tables
           /\ \A k \in Keys : Len(Older(failures[k])) = Len(failures[k])
           /\ \A k \in Keys : Older(failures[k]) = <<>> <=> failures[k] = <<>>
<1>1. ASSUME NEW s \in Seq(Ages)
      PROVE  /\ Older(s) \in Seq(Ages)
             /\ Len(Older(s)) = Len(s)
             /\ Older(s) = <<>> <=> s = <<>>
  <2>1. Older(s) \in [1..Len(s) -> Ages]
    BY DEF Older, Ages
  <2>2. Older(s) \in Seq(Ages) /\ Len(Older(s)) = Len(s)
    BY <2>1
  <2>3. Older(s) = <<>> <=> Len(Older(s)) = 0
    BY <2>2
  <2>4. s = <<>> <=> Len(s) = 0
    OBVIOUS
  <2> QED
    BY <2>2, <2>3, <2>4
<1> QED
  BY <1>1 DEF Tables

LEMMA InitTyped == Init => Typed
  BY DEF Init, Typed, Tables, NoFailures

LEMMA NextTyped == Typed /\ [Next]_vars => Typed'
<1> SUFFICES ASSUME Typed, [Next]_vars PROVE Typed'
  OBVIOUS
<1> USE DEF Typed, Answer
<1>1. ASSUME NEW h \in Handlers, NEW k \in Keys, Arrive(h, k) PROVE Typed'
  BY <1>1 DEF Arrive
<1>2. ASSUME NEW h \in Handlers, Check(h) PROVE Typed'
  <2>1. failures' \in Tables
    BY <1>2, IsBlockedTable DEF Check
  <2> QED
    BY <1>2, <2>1 DEF Check
<1>3. ASSUME NEW h \in Handlers, Fail(h) PROVE Typed'
  <2>1. failures' \in Tables
    BY <1>3, RecordFailureTable DEF Fail
  <2> QED
    BY <1>3, <2>1 DEF Fail
<1>4. ASSUME NEW h \in Handlers, Succeed(h) PROVE Typed'
  BY <1>4 DEF Succeed, AfterReset, Tables
<1>5. CASE Tick
  BY <1>5, OlderTable DEF Tick
<1>6. CASE UNCHANGED vars
  BY <1>6 DEF vars
<1> QED
  BY <1>1, <1>2, <1>3, <1>4, <1>5, <1>6 DEF Next

LEMMA CapStep == Typed /\ TableBounded /\ [Next]_vars => TableBounded'
<1> SUFFICES ASSUME Typed, TableBounded, [Next]_vars PROVE TableBounded'
  OBVIOUS
<1> USE DEF TableBounded
<1>1. ASSUME NEW h \in Handlers, Check(h) \/ Fail(h) PROVE TableBounded'
  BY <1>1, SweepBounds DEF Check, Fail, AfterIsBlocked, AfterRecordFailure
<1>2. ASSUME NEW h \in Handlers, Succeed(h) PROVE TableBounded'
  <2>1. Stored(failures') \subseteq Stored(failures)
    BY <1>2 DEF Succeed, AfterReset, Stored, Typed, Tables
  <2>2. Cardinality(Stored(failures')) <= Cardinality(Stored(failures))
    BY <2>1, StoredFinite, FS_Subset
  <2> QED
    BY <2>2, StoredFinite
<1>3. CASE Tick
  <2>1. Stored(failures') = Stored(failures)
    BY <1>3, OlderTable DEF Tick, Stored, Typed
  <2> QED
    BY <2>1
<1>4. ASSUME NEW h \in Handlers, NEW k \in Keys, Arrive(h, k) PROVE TableBounded'
  BY <1>4 DEF Arrive
<1>5. CASE UNCHANGED vars
  BY <1>5 DEF vars
<1> QED
  BY <1>1, <1>2, <1>3, <1>4, <1>5 DEF Next

(* The failure table never holds more than `capacity` keys once an         *)
(* operation has returned, whichever keys clients invent (rate.go).        *)
THEOREM Bounded == Spec => []TableBounded
<1>1. Init => TableBounded
  <2> SUFFICES ASSUME Init PROVE TableBounded
    OBVIOUS
  <2>1. Stored(failures) = {}
    BY DEF Init, NoFailures, Stored
  <2> QED
    BY <2>1, FS_EmptySet DEF TableBounded
<1> QED
  BY <1>1, InitTyped, NextTyped, CapStep, PTL DEF Spec

(***************************************************************************)
(* The overshoot.                                                          *)
(***************************************************************************)
LEMMA VerifyingFinite ==
    ASSUME NEW k PROVE  /\ IsFiniteSet(Verifying(k))
                        /\ Cardinality(Verifying(k)) \in Nat
                        /\ Cardinality(Verifying(k)) <= Cardinality(Handlers)
<1>1. Verifying(k) \in SUBSET Handlers
  BY DEF Verifying
<1> QED
  BY <1>1, FS_Subset, FS_CardinalityType

LEMMA VerifyingFinite2 ==
    ASSUME NEW k PROVE  /\ IsFiniteSet(Verifying(k)')
                        /\ Cardinality(Verifying(k)') \in Nat
                        /\ Cardinality(Verifying(k)') <= Cardinality(Handlers)
<1>1. Verifying(k)' \in SUBSET Handlers
  BY DEF Verifying
<1> QED
  BY <1>1, FS_Subset, FS_CardinalityType

LEMMA HandlersCount == Cardinality(Handlers) \in Nat /\ Cardinality(Handlers) >= 1
<1>1. Cardinality(Handlers) \in Nat /\ (Cardinality(Handlers) = 0 <=> Handlers = {})
  BY FS_CardinalityType, FS_EmptySet
<1> QED
  BY <1>1

LEMMA OvershootStep == Typed /\ OvershootBounded /\ [Next]_vars => OvershootBounded'
<1> SUFFICES ASSUME Typed, OvershootBounded, [Next]_vars, NEW k \in Keys
             PROVE  Len(failures'[k]) + Cardinality(Verifying(k)')
                        <= MaxFailures - 1 + Cardinality(Handlers)
  BY DEF OvershootBounded
<1>a. Len(failures[k]) + Cardinality(Verifying(k)) <= MaxFailures - 1 + Cardinality(Handlers)
  BY DEF OvershootBounded
<1>b. Len(failures[k]) \in Nat /\ Len(failures'[k]) \in Nat
  BY NextTyped DEF Typed, Tables
<1>c. /\ Cardinality(Verifying(k)) \in Nat /\ Cardinality(Verifying(k)') \in Nat
      /\ Cardinality(Handlers) \in Nat
      /\ Cardinality(Verifying(k)') <= Cardinality(Handlers)
  BY VerifyingFinite, VerifyingFinite2, HandlersCount
<1> USE DEF Answer
<1>1. ASSUME NEW h \in Handlers, NEW j \in Keys, Arrive(h, j)
      PROVE  Len(failures'[k]) + Cardinality(Verifying(k)') <= MaxFailures - 1 + Cardinality(Handlers)
  <2>1. Verifying(k)' = Verifying(k)
    BY <1>1 DEF Arrive, Verifying, Typed
  <2> QED
    BY <1>1, <1>a, <2>1 DEF Arrive
<1>2. ASSUME NEW h \in Handlers, Check(h)
      PROVE  Len(failures'[k]) + Cardinality(Verifying(k)') <= MaxFailures - 1 + Cardinality(Handlers)
  <2>1. Len(failures'[k]) <= Len(failures[k])
    BY <1>2, IsBlockedTable DEF Check, Typed
  <2>2. CASE rateKey[h] = k /\ pc'[h] = "verify"
    <3>1. Len(failures'[k]) < MaxFailures
      BY <1>2, <1>b, <2>2 DEF Check, Typed
    <3> QED
      BY <1>b, <1>c, <3>1
  <2>3. CASE ~(rateKey[h] = k /\ pc'[h] = "verify")
    <3>1. Verifying(k)' = Verifying(k)
      BY <1>2, <2>3 DEF Check, Verifying, Typed
    <3> QED
      BY <1>a, <1>b, <1>c, <2>1, <3>1
  <2> QED
    BY <2>2, <2>3
<1>3. ASSUME NEW h \in Handlers, Fail(h)
      PROVE  Len(failures'[k]) + Cardinality(Verifying(k)') <= MaxFailures - 1 + Cardinality(Handlers)
  <2>1. /\ rateKey[h] = k => Len(failures'[k]) <= Len(failures[k]) + 1
        /\ rateKey[h] # k => Len(failures'[k]) <= Len(failures[k])
    <3>1. rateKey[h] \in Keys /\ failures \in Tables
      BY <1>3 DEF Fail, Typed
    <3>2. failures' \in AfterRecordFailure(failures, rateKey[h])
      BY <1>3 DEF Fail
    <3>3. /\ Len(failures'[rateKey[h]]) <= Len(failures[rateKey[h]]) + 1
          /\ \A j \in Keys \ {rateKey[h]} : Len(failures'[j]) <= Len(failures[j])
      BY <3>1, <3>2, RecordFailureTable
    <3> QED
      BY <3>3
  <2>2. Verifying(k)' = Verifying(k) \ {h}
    BY <1>3 DEF Fail, Verifying, Typed
  <2>3. CASE rateKey[h] = k
    <3>1. h \in Verifying(k)
      BY <1>3, <2>3 DEF Fail, Verifying
    <3>2. Cardinality(Verifying(k)') = Cardinality(Verifying(k)) - 1
      BY <2>2, <3>1, VerifyingFinite, FS_RemoveElement
    <3> QED
      BY <1>a, <1>b, <1>c, <2>1, <2>3, <3>2
  <2>4. CASE rateKey[h] # k
    <3>1. Verifying(k)' = Verifying(k)
      BY <2>2, <2>4 DEF Verifying
    <3> QED
      BY <1>a, <1>b, <1>c, <2>1, <2>4, <3>1
  <2> QED
    BY <2>3, <2>4
<1>4. ASSUME NEW h \in Handlers, Succeed(h)
      PROVE  Len(failures'[k]) + Cardinality(Verifying(k)') <= MaxFailures - 1 + Cardinality(Handlers)
  <2>1. Len(failures'[k]) <= Len(failures[k])
    BY <1>4, <1>b DEF Succeed, AfterReset, Typed, Tables
  <2>2. Verifying(k)' \in SUBSET Verifying(k)
    BY <1>4 DEF Succeed, Verifying, Typed
  <2>3. Cardinality(Verifying(k)') <= Cardinality(Verifying(k))
    BY <2>2, VerifyingFinite, FS_Subset
  <2> QED
    BY <1>a, <1>b, <1>c, <2>1, <2>3
<1>5. CASE Tick
  <2>1. Len(failures'[k]) = Len(failures[k]) /\ Verifying(k)' = Verifying(k)
    BY <1>5, OlderTable DEF Tick, Typed, Verifying
  <2> QED
    BY <1>a, <2>1
<1>6. CASE UNCHANGED vars
  BY <1>6, <1>a DEF vars, Verifying
<1> QED
  BY <1>1, <1>2, <1>3, <1>4, <1>5, <1>6 DEF Next

(* However the requests for one key interleave with IsBlocked, bcrypt,     *)
(* RecordFailure and the clock (handleLogin), a key collects at most       *)
(* maxFailures - 1 failures plus one per concurrent request.               *)
THEOREM Overshoot == Spec => []OvershootBounded
<1>1. Init => OvershootBounded
  <2> SUFFICES ASSUME Init, NEW k \in Keys
               PROVE  Len(failures[k]) + Cardinality(Verifying(k))
                          <= MaxFailures - 1 + Cardinality(Handlers)
    BY DEF OvershootBounded
  <2>1. Verifying(k) = {} /\ Len(failures[k]) = 0
    BY DEF Init, Verifying, NoFailures
  <2> QED
    BY <2>1, FS_EmptySet, HandlersCount
<1> QED
  BY <1>1, InitTyped, NextTyped, OvershootStep, PTL DEF Spec

(***************************************************************************)
(* The order of the failures, on which pruning a prefix relies.            *)
(***************************************************************************)
Ordered(s) == \A i, j \in DOMAIN s : i < j => s[i] >= s[j]
AllOrdered(f) == \A k \in Keys : Ordered(f[k])

LEMMA LiveOrdered ==
    ASSUME NEW s \in Seq(Ages), Ordered(s)
    PROVE  Ordered(Live(s))
<1> DEFINE expired == {i \in 1..Len(s) : s[i] >= Window}
           c == Cardinality(expired)
<1>1. c \in Nat /\ c <= Len(s)
  <2>1. Len(s) \in Nat
    OBVIOUS
  <2>2. IsFiniteSet(1..Len(s)) /\ Cardinality(1..Len(s)) = Len(s)
    BY <2>1, FS_Interval
  <2>3. IsFiniteSet(expired) /\ c <= Len(s)
    BY <2>2, FS_Subset
  <2> QED
    BY <2>3, FS_CardinalityType
<1>2. Live(s) = SubSeq(s, 1 + c, Len(s))
  BY DEF Live
<1> HIDE DEF c, expired
<1>3. /\ DOMAIN Live(s) = 1..(Len(s) - c)
      /\ \A i \in 1..(Len(s) - c) : Live(s)[i] = s[c + i] /\ c + i \in DOMAIN s
  BY <1>1, <1>2
<1> QED
  BY <1>1, <1>3 DEF Ordered

LEMMA SweepOrdered ==
    ASSUME NEW f \in Tables, AllOrdered(f), NEW p, NEW g \in sweepIfLarge(f, p)
    PROVE  AllOrdered(g)
<1>1. CASE g = f
  BY <1>1
<1>2. ASSUME NEW V, g = Evict(PruneAll(f), V)
      PROVE  AllOrdered(g)
  <2>1. g = [k \in Keys |-> IF k \in V THEN <<>> ELSE Live(f[k])]
    BY <1>2 DEF Evict, PruneAll
  <2>2. \A k \in Keys : Ordered(Live(f[k]))
    BY LiveOrdered DEF Tables, AllOrdered
  <2>3. Ordered(<<>>)
    BY DEF Ordered
  <2> QED
    BY <2>1, <2>2, <2>3 DEF AllOrdered
<1> QED
  BY <1>1, <1>2 DEF sweepIfLarge

LEMMA RecordedOrdered ==
    ASSUME NEW s \in Seq(Ages), Ordered(s)
    PROVE  Ordered(Append(s, 0))
<1>1. /\ DOMAIN Append(s, 0) = 1..(Len(s) + 1)
      /\ \A i \in 1..Len(s) : Append(s, 0)[i] = s[i] /\ s[i] \in Nat
      /\ Append(s, 0)[Len(s) + 1] = 0
  BY DEF Ages
<1>2. Len(s) \in Nat /\ DOMAIN s = 1..Len(s)
  OBVIOUS
<1> QED
  BY <1>1, <1>2 DEF Ordered

LEMMA OlderOrdered ==
    ASSUME NEW s \in Seq(Ages), Ordered(s)
    PROVE  Ordered(Older(s))
<1>1. \A i \in DOMAIN s : s[i] \in 0..Window
  BY DEF Ages
<1> QED
  BY <1>1 DEF Ordered, Older

LEMMA OrderedStep ==
    ASSUME Typed, AllOrdered(failures), [Next]_vars
    PROVE  AllOrdered(failures')
<1>0. failures \in Tables /\ \A k \in Keys : failures[k] \in Seq(Ages) /\ Ordered(failures[k])
  BY DEF Typed, Tables, AllOrdered
<1>1. ASSUME NEW h \in Handlers, Check(h)
      PROVE  AllOrdered(failures')
  <2> DEFINE k == rateKey[h]
             f == prune(failures, k)
  <2>1. k \in Keys /\ failures' \in sweepIfLarge(f, k)
    BY <1>1 DEF Check, AfterIsBlocked, Typed
  <2>2. f \in Tables /\ AllOrdered(f)
    BY <1>0, <2>1, LiveShorter, LiveOrdered DEF prune, Tables, AllOrdered
  <2> HIDE DEF k, f
  <2> QED
    BY <2>1, <2>2, SweepOrdered
<1>2. ASSUME NEW h \in Handlers, Fail(h)
      PROVE  AllOrdered(failures')
  <2> DEFINE k == rateKey[h]
             s == Append(Live(failures[k]), 0)
             f == [failures EXCEPT ![k] = s]
  <2>1. k \in Keys /\ failures' \in sweepIfLarge(f, k)
    BY <1>2 DEF Fail, AfterRecordFailure, Typed
  <2>2. Live(failures[k]) \in Seq(Ages) /\ Ordered(Live(failures[k])) /\ 0 \in Ages
    BY <1>0, <2>1, LiveShorter, LiveOrdered DEF Ages
  <2>3. s \in Seq(Ages) /\ Ordered(s)
    BY <2>2, RecordedOrdered
  <2> HIDE DEF k, s
  <2>4. f \in Tables /\ AllOrdered(f)
    BY <1>0, <2>1, <2>3 DEF Tables, AllOrdered
  <2> HIDE DEF f
  <2> QED
    BY <2>1, <2>4, SweepOrdered
<1>3. ASSUME NEW h \in Handlers, Succeed(h)
      PROVE  AllOrdered(failures')
  <2>1. Ordered(<<>>)
    BY DEF Ordered
  <2>2. \A k \in Keys : failures'[k] = failures[k] \/ failures'[k] = <<>>
    BY <1>0, <1>3 DEF Succeed, AfterReset, Tables
  <2> QED
    BY <1>0, <2>1, <2>2 DEF AllOrdered
<1>4. CASE Tick
  BY <1>0, <1>4, OlderOrdered DEF Tick, AllOrdered
<1>5. CASE UNCHANGED failures
  BY <1>0, <1>5 DEF AllOrdered
<1> QED
  BY <1>1, <1>2, <1>3, <1>4, <1>5 DEF Next, Arrive, vars

(* A handler has a key exactly while it serves a request.                  *)
Keyed == \A h \in Handlers : rateKey[h] = NoKey <=> pc[h] = "idle"

LEMMA KeyedStep ==
    ASSUME Typed, Keyed, [Next]_vars
    PROVE  Keyed'
<1>1. ASSUME NEW h \in Handlers, NEW k \in Keys, Arrive(h, k) PROVE Keyed'
  BY <1>1 DEF Arrive, Keyed, Typed
<1>2. ASSUME NEW h \in Handlers, Answer(h) PROVE Keyed'
  BY <1>2 DEF Answer, Keyed, Typed
<1>3. ASSUME NEW h \in Handlers, pc[h] = "check", pc' = [pc EXCEPT ![h] = "verify"],
             UNCHANGED rateKey
      PROVE  Keyed'
  BY <1>3 DEF Keyed, Typed
<1>4. CASE UNCHANGED <<pc, rateKey>>
  BY <1>4 DEF Keyed
<1> QED
  BY <1>1, <1>2, <1>3, <1>4 DEF Next, Check, Fail, Succeed, Tick, vars

(* Types, and what prune relies on (rate.go): the failures of a key stand  *)
(* in the order of time whatever was evicted, pruned or reset.             *)
THEOREM TypeCorrect == Spec => []TypeOK
<1>1. Init => AllOrdered(failures) /\ Keyed
  BY DEF Init, NoFailures, AllOrdered, Ordered, Keyed
<1>2. Typed /\ (AllOrdered(failures) /\ Keyed) /\ [Next]_vars => (AllOrdered(failures) /\ Keyed)'
  BY OrderedStep, KeyedStep
<1>3. Typed /\ AllOrdered(failures) /\ Keyed => TypeOK
  BY DEF Typed, Tables, AllOrdered, Ordered, Keyed, TypeOK
<1> QED
  BY <1>1, <1>2, <1>3, InitTyped, NextTyped, PTL DEF Spec

(***************************************************************************)
(* What eviction spares.                                                   *)
(***************************************************************************)
(* In an ordered sequence the expired failures are a prefix.               *)
LEMMA LiveFresh ==
    ASSUME NEW s \in Seq(Ages), Ordered(s)
    PROVE  \A i \in DOMAIN Live(s) : Live(s)[i] < Window
<1> DEFINE expired == {i \in 1..Len(s) : s[i] >= Window}
           c == Cardinality(expired)
<1>0. Len(s) \in Nat /\ DOMAIN s = 1..Len(s) /\ \A i \in 1..Len(s) : s[i] \in Nat
  BY DEF Ages
<1>1. IsFiniteSet(expired) /\ c \in Nat /\ c <= Len(s)
  <2>1. IsFiniteSet(1..Len(s)) /\ Cardinality(1..Len(s)) = Len(s)
    BY <1>0, FS_Interval
  <2>2. IsFiniteSet(expired) /\ c <= Len(s)
    BY <2>1, FS_Subset
  <2> QED
    BY <2>2, FS_CardinalityType
<1>2. Live(s) = SubSeq(s, 1 + c, Len(s))
  BY DEF Live
<1>3. ASSUME NEW i \in 1..Len(s), i > c
      PROVE  s[i] < Window
  <2> SUFFICES ASSUME s[i] >= Window PROVE FALSE
    BY <1>0
  <2>1. 1..i \subseteq expired
    <3> SUFFICES ASSUME NEW j \in 1..i PROVE j \in 1..Len(s) /\ s[j] >= Window
      OBVIOUS
    <3>1. j \in 1..Len(s) /\ (j < i \/ j = i)
      BY <1>0, <1>3
    <3>2. j < i => s[j] >= s[i]
      BY <1>0, <1>3, <3>1 DEF Ordered
    <3>3. s[j] \in Nat /\ s[i] \in Nat /\ Window \in Nat
      BY <1>0, <1>3, <3>1, WindowAssumption
    <3> QED
      BY <3>1, <3>2, <3>3
  <2> HIDE DEF expired
  <2>2. Cardinality(1..i) = i
    BY <1>3, FS_Interval
  <2>3. i <= c
    BY <1>1, <2>1, <2>2, FS_Subset
  <2> QED
    BY <1>0, <1>1, <1>3, <2>3
<1> HIDE DEF c, expired
<1>4. /\ DOMAIN Live(s) = 1..(Len(s) - c)
      /\ \A i \in 1..(Len(s) - c) : Live(s)[i] = s[c + i]
  BY <1>0, <1>1, <1>2
<1>5. \A i \in 1..(Len(s) - c) : c + i \in 1..Len(s) /\ c + i > c
  BY <1>0, <1>1
<1> QED
  BY <1>3, <1>4, <1>5

LEMMA FreshLive ==
    ASSUME NEW s \in Seq(Ages), \A i \in DOMAIN s : s[i] < Window
    PROVE  Len(Live(s)) = Len(s)
<1>1. {i \in 1..Len(s) : s[i] >= Window} = {}
  BY DEF Ages
<1>2. Live(s) = SubSeq(s, 1 + 0, Len(s))
  BY <1>1, FS_EmptySet DEF Live
<1> QED
  BY <1>2

LEMMA LiveTwice ==
    ASSUME NEW s \in Seq(Ages), Ordered(s)
    PROVE  Len(Live(Live(s))) = Len(Live(s))
  BY LiveShorter, LiveFresh, FreshLive

LEMMA LiveRecorded ==
    ASSUME NEW s \in Seq(Ages), Ordered(s)
    PROVE  /\ Append(Live(s), 0) \in Seq(Ages) /\ Ordered(Append(Live(s), 0))
           /\ Len(Append(Live(s), 0)) = Len(Live(s)) + 1
           /\ Len(Live(Append(Live(s), 0))) = Len(Live(s)) + 1
<1>1. Live(s) \in Seq(Ages) /\ Ordered(Live(s)) /\ 0 \in Ages
  BY LiveShorter, LiveOrdered DEF Ages
<1>2. Append(Live(s), 0) \in Seq(Ages) /\ Len(Append(Live(s), 0)) = Len(Live(s)) + 1
  BY <1>1
<1>3. \A i \in DOMAIN Append(Live(s), 0) : Append(Live(s), 0)[i] < Window
  BY <1>1, LiveFresh, WindowAssumption
<1> QED
  BY <1>1, <1>2, <1>3, FreshLive, RecordedOrdered

(* The protected key stays, if it has a failure that counts.               *)
LEMMA ProtectedStays ==
    ASSUME NEW f \in Tables, NEW k \in Keys, NEW g \in sweepIfLarge(f, k), Len(Live(f[k])) > 0
    PROVE  g[k] = f[k] \/ g[k] = Live(f[k])
<1>1. CASE g = f
  BY <1>1
<1>2. ASSUME NEW V \in Victims(PruneAll(f), k), g = Evict(PruneAll(f), V)
      PROVE  g[k] = Live(f[k])
  <2> DEFINE P == PruneAll(f)
  <2>1. P[k] = Live(f[k]) /\ Live(f[k]) \in Seq(Ages)
    BY LiveShorter DEF PruneAll, Tables
  <2>2. /\ V \subseteq Stored(P) /\ (k \in V => V = Stored(P))
        /\ Cardinality(V) = IF Cardinality(Stored(P)) > Capacity
                            THEN Cardinality(Stored(P)) - Capacity ELSE 0
    BY <1>2 DEF Victims
  <2> HIDE DEF P
  <2>3. IsFiniteSet(Stored(P)) /\ Cardinality(Stored(P)) \in Nat
    BY StoredFinite
  <2>4. k \notin V
    <3> SUFFICES ASSUME k \in V PROVE FALSE
      OBVIOUS
    <3>1. V = Stored(P) /\ Stored(P) # {}
      BY <2>2
    <3>2. Cardinality(Stored(P)) # 0
      BY <2>3, <3>1, FS_EmptySet
    <3> QED
      BY <2>2, <2>3, <3>1, <3>2, CapacityAssumption
  <2> QED
    BY <1>2, <2>1, <2>4 DEF Evict, P
<1> QED
  BY <1>1, <1>2 DEF sweepIfLarge

(* A failure that has been recorded counts, whatever the table had to give *)
(* up for it: the newcomer's key is not the one that goes (rate.go).       *)
THEOREM Accumulate == Spec => FailuresAccumulate
<1>1. ASSUME Typed, AllOrdered(failures), NEW h \in Handlers, Fail(h)
      PROVE  Len(failures'[rateKey[h]]) = Len(Live(failures[rateKey[h]])) + 1
  <2> DEFINE k == rateKey[h]
             s == Append(Live(failures[k]), 0)
             f == [failures EXCEPT ![k] = s]
  <2>1. /\ k \in Keys /\ failures \in Tables /\ failures[k] \in Seq(Ages) /\ Ordered(failures[k])
        /\ failures' \in sweepIfLarge(f, k)
    BY <1>1 DEF Fail, AfterRecordFailure, Typed, Tables, AllOrdered
  <2>2. /\ s \in Seq(Ages) /\ Len(s) = Len(Live(failures[k])) + 1
        /\ Len(Live(s)) = Len(Live(failures[k])) + 1
        /\ Len(Live(failures[k])) \in Nat
    BY <2>1, LiveRecorded, LiveShorter
  <2> HIDE DEF k, s
  <2>3. f \in Tables /\ f[k] = s
    BY <2>1, <2>2 DEF Tables
  <2> HIDE DEF f
  <2>4. failures'[k] = s \/ failures'[k] = Live(s)
    BY <2>1, <2>2, <2>3, ProtectedStays
  <2> QED
    BY <2>2, <2>4 DEF k
<1>2. Init => AllOrdered(failures)
  BY DEF Init, NoFailures, AllOrdered, Ordered
<1>3. Typed /\ AllOrdered(failures) /\ [Next]_vars
        => [\A h \in Handlers : Fail(h) =>
              \/ Succeed(h)
              \/ Len(failures'[rateKey[h]]) = Len(Live(failures[rateKey[h]])) + 1]_vars
  BY <1>1
<1>4. Typed /\ AllOrdered(failures) /\ [Next]_vars => AllOrdered(failures)'
  BY OrderedStep
<1> QED
  BY <1>2, <1>3, <1>4, InitTyped, NextTyped, PTL DEF Spec, FailuresAccumulate

(* A blocked key goes only when no cheaper one is left.  A new key brings  *)
(* the table to one above its capacity, so one key has to go at most.      *)
LEMMA OnlyBlockedLeft ==
    ASSUME failures \in Tables, AllOrdered(failures), TableBounded,
           NEW j \in Keys, NEW f \in Tables, AllOrdered(f),
           \A i \in Keys \ {j} : f[i] = failures[i],
           Cardinality(Stored(f)) > Capacity,
           NEW V \in Victims(PruneAll(f), j),
           NEW k \in V, Len(Live(f[k])) >= MaxFailures,
           NEW i \in Stored(failures), Live(failures[i]) # <<>>
    PROVE  Blocked(failures, i)
<1> DEFINE P == PruneAll(f)
           cheap == {x \in Stored(P) \ {j} : Len(P[x]) < MaxFailures}
<1>1. /\ \A x \in Keys : P[x] = Live(f[x]) /\ Live(f[x]) \in Seq(Ages)
      /\ \A x \in Keys : Len(P[x]) \in Nat /\ (P[x] # <<>> => f[x] # <<>>)
  <2>1. \A x \in Keys : f[x] \in Seq(Ages)
    BY DEF Tables
  <2>2. \A x \in Keys : P[x] = Live(f[x]) /\ Live(f[x]) \in Seq(Ages) /\ Len(Live(f[x])) <= Len(f[x])
    BY <2>1, LiveShorter DEF PruneAll
  <2>3. ASSUME NEW x \in Keys, f[x] = <<>>
        PROVE  Live(f[x]) = <<>>
    <3>1. Len(Live(f[x])) <= 0 /\ Live(f[x]) \in Seq(Ages)
      BY <2>2, <2>3
    <3> QED
      BY <3>1
  <2> QED
    BY <2>2, <2>3
<1>2. /\ V \subseteq Stored(P) /\ (V \subseteq cheap \/ cheap \subseteq V) /\ (j \in V => V = Stored(P))
      /\ Cardinality(V) = IF Cardinality(Stored(P)) > Capacity
                          THEN Cardinality(Stored(P)) - Capacity ELSE 0
  BY DEF Victims
<1> HIDE DEF P
<1>3. /\ \A g : IsFiniteSet(Stored(g)) /\ Cardinality(Stored(g)) \in Nat
      /\ Capacity \in Nat \ {0} /\ MaxFailures \in Nat
  BY StoredFinite, CapacityAssumption, MaxFailuresAssumption
<1>4. k \in Stored(P) /\ k \in Keys /\ ~(V \subseteq cheap)
  BY <1>1, <1>2, <1>3 DEF Stored
<1>5. Stored(P) \subseteq Stored(f) /\ Stored(f) \subseteq Stored(failures) \cup {j}
  BY <1>1 DEF Stored
<1>6. /\ Cardinality(Stored(P)) <= Cardinality(Stored(f))
      /\ Cardinality(Stored(f)) <= Capacity + 1
      /\ j \notin Stored(failures)
  <2>1. Cardinality(Stored(P)) <= Cardinality(Stored(f))
    BY <1>3, <1>5, FS_Subset
  <2>2. /\ IsFiniteSet(Stored(failures) \cup {j})
        /\ Cardinality(Stored(failures) \cup {j})
             = IF j \in Stored(failures) THEN Cardinality(Stored(failures))
               ELSE Cardinality(Stored(failures)) + 1
    BY <1>3, FS_AddElement
  <2>3. Cardinality(Stored(f)) <= Cardinality(Stored(failures) \cup {j})
    BY <1>5, <2>2, FS_Subset
  <2>4. Cardinality(Stored(failures)) <= Capacity
    BY DEF TableBounded
  <2>5. /\ Cardinality(Stored(failures)) \in Nat /\ Cardinality(Stored(f)) \in Nat
        /\ Cardinality(Stored(f)) > Capacity
    BY <1>3
  <2> QED
    BY <1>3, <2>1, <2>2, <2>3, <2>4, <2>5
<1>7. IsFiniteSet(V) /\ Cardinality(V) = 1
  <2>1. IsFiniteSet(V) /\ Cardinality(V) \in Nat
    BY <1>2, <1>3, FS_Subset, FS_CardinalityType
  <2>2. Cardinality(V) # 0
    BY <2>1, FS_EmptySet
  <2>3. Cardinality(Stored(P)) \in Nat /\ Cardinality(Stored(f)) \in Nat
    BY <1>3
  <2> QED
    BY <1>2, <1>3, <1>6, <2>1, <2>2, <2>3
<1>8. V = {k}
  BY <1>7, FS_Singleton
<1>9. k # j
  <2> SUFFICES ASSUME k = j PROVE FALSE
    OBVIOUS
  <2>1. V = Stored(P)
    BY <1>2, <1>8
  <2>2. Cardinality(Stored(P)) = 1
    BY <1>7, <2>1
  <2> QED
    BY <1>2, <1>3, <1>7, <2>2
<1>10. cheap = {}
  <2>1. cheap \subseteq {k} /\ k \notin cheap
    BY <1>1, <1>2, <1>3, <1>4, <1>8
  <2> QED
    BY <2>1
<1>11. i \in Keys /\ i # j /\ P[i] = Live(failures[i]) /\ i \in Stored(P) \ {j}
  BY <1>1, <1>6 DEF Stored
<1> QED
  BY <1>1, <1>3, <1>10, <1>11 DEF Blocked

(* Whoever has been blocked stays so until time passes or the password is  *)
(* given, however many other keys are tried, as long as the table holds a  *)
(* key that is not blocked itself (rate.go).                               *)
THEOREM BlocksHold == Spec => BlockHolds
<1> DEFINE Holds ==
      \A k \in Keys :
        Blocked(failures, k) /\ ~Blocked(failures', k) =>
            \/ Tick
            \/ \E h \in Handlers : Succeed(h) /\ rateKey[h] = k
            \/ \A j \in Stored(failures) : Live(failures[j]) # <<>> => Blocked(failures, j)
<1>1. ASSUME Typed, AllOrdered(failures), TableBounded, Next
      PROVE  Holds
  <2> SUFFICES ASSUME NEW k \in Keys, Blocked(failures, k), ~Blocked(failures', k), ~Tick,
                      ~\E h \in Handlers : Succeed(h) /\ rateKey[h] = k
               PROVE  \A j \in Stored(failures) : Live(failures[j]) # <<>> => Blocked(failures, j)
    OBVIOUS
  <2>0. /\ failures \in Tables /\ \A j \in Keys : failures[j] \in Seq(Ages) /\ Ordered(failures[j])
        /\ MaxFailures \in Nat /\ Len(Live(failures[k])) >= MaxFailures
        /\ ~(Len(Live(failures'[k])) >= MaxFailures)
    BY <1>1, MaxFailuresAssumption DEF Typed, Tables, AllOrdered, Blocked
  <2>1. ASSUME NEW h \in Handlers, NEW j \in Keys, Arrive(h, j) PROVE FALSE
    BY <2>0, <2>1 DEF Arrive
  <2>2. ASSUME NEW h \in Handlers, Succeed(h) PROVE FALSE
    <3>1. failures'[k] = failures[k]
      BY <2>0, <2>2 DEF Succeed, AfterReset, Tables
    <3> QED
      BY <2>0, <3>1
  <2>3. ASSUME NEW h \in Handlers, Check(h) PROVE FALSE
    <3> DEFINE j == rateKey[h]
               f == prune(failures, j)
    <3>1. j \in Keys /\ failures' \in sweepIfLarge(f, j)
      BY <1>1, <2>3 DEF Check, AfterIsBlocked, Typed
    <3>2. \A x \in Keys : f[x] = failures[x] \/ f[x] = Live(failures[x])
      BY <2>0 DEF prune, Tables
    <3>3. ASSUME NEW x \in Keys, failures[x] = <<>>
          PROVE  Live(failures[x]) = <<>>
      <4>1. Live(failures[x]) \in Seq(Ages) /\ Len(Live(failures[x])) <= 0
        BY <2>0, <3>3, LiveShorter
      <4> QED
        BY <4>1
    <3>4. Stored(f) \subseteq Stored(failures)
      BY <3>2, <3>3 DEF Stored
    <3> HIDE DEF j, f
    <3>5. Cardinality(Stored(f)) <= Capacity
      <4>1. Cardinality(Stored(f)) <= Cardinality(Stored(failures))
        BY <3>4, StoredFinite, FS_Subset
      <4>2. Cardinality(Stored(f)) \in Nat /\ Cardinality(Stored(failures)) \in Nat
        BY StoredFinite
      <4> QED
        BY <1>1, <4>1, <4>2, CapacityAssumption DEF TableBounded
    <3>6. failures' = f
      BY <3>1, <3>5 DEF sweepIfLarge
    <3> QED
      BY <2>0, <3>2, <3>6, LiveTwice
  <2>4. ASSUME NEW h \in Handlers, Fail(h)
        PROVE  \A i \in Stored(failures) : Live(failures[i]) # <<>> => Blocked(failures, i)
    <3> DEFINE j == rateKey[h]
               s == Append(Live(failures[j]), 0)
               f == [failures EXCEPT ![j] = s]
    <3>1. j \in Keys /\ failures' \in sweepIfLarge(f, j)
      BY <1>1, <2>4 DEF Fail, AfterRecordFailure, Typed
    <3>2. /\ s \in Seq(Ages) /\ Ordered(s) /\ Len(Live(s)) = Len(Live(failures[j])) + 1
          /\ Len(Live(failures[j])) \in Nat
      BY <2>0, <3>1, LiveRecorded, LiveShorter
    <3> HIDE DEF j, s
    <3>3. /\ f \in Tables /\ AllOrdered(f)
          /\ f[j] = s /\ \A x \in Keys \ {j} : f[x] = failures[x]
      BY <2>0, <3>1, <3>2 DEF Tables, AllOrdered
    <3> HIDE DEF f
    <3>4. Len(Live(f[k])) >= MaxFailures
      BY <2>0, <3>2, <3>3
    <3>5. failures' # f
      BY <2>0, <3>4
    <3>6. /\ ~(Cardinality(Stored(f)) <= Capacity)
          /\ \E V \in Victims(PruneAll(f), j) : failures' = Evict(PruneAll(f), V)
      BY <3>1, <3>5 DEF sweepIfLarge
    <3>7. PICK V \in Victims(PruneAll(f), j) : failures' = Evict(PruneAll(f), V)
      BY <3>6
    <3>8. k \in V
      <4> SUFFICES ASSUME k \notin V PROVE FALSE
        OBVIOUS
      <4>1. failures'[k] = Live(f[k])
        BY <3>7 DEF Evict, PruneAll
      <4>2. Len(Live(Live(f[k]))) = Len(Live(f[k]))
        BY <3>3, LiveTwice DEF Tables, AllOrdered
      <4> QED
        BY <2>0, <3>4, <4>1, <4>2
    <3>9. Cardinality(Stored(f)) > Capacity
      <4>1. Cardinality(Stored(f)) \in Nat
        BY StoredFinite
      <4> QED
        BY <3>6, <4>1, CapacityAssumption
    <3> QED
      BY <1>1, <2>0, <3>1, <3>3, <3>4, <3>7, <3>8, <3>9, OnlyBlockedLeft
  <2> QED
    BY <1>1, <2>1, <2>2, <2>3, <2>4 DEF Next
<1>2. Init => AllOrdered(failures) /\ TableBounded
  <2> SUFFICES ASSUME Init PROVE AllOrdered(failures) /\ TableBounded
    OBVIOUS
  <2>1. Stored(failures) = {} /\ AllOrdered(failures)
    BY DEF Init, NoFailures, Stored, AllOrdered, Ordered
  <2> QED
    BY <2>1, FS_EmptySet DEF TableBounded
<1>3. Typed /\ AllOrdered(failures) /\ TableBounded /\ [Next]_vars => [Holds]_vars
  <2> HIDE DEF Holds
  <2> QED
    BY <1>1
<1>4. Typed /\ AllOrdered(failures) /\ TableBounded /\ [Next]_vars
        => AllOrdered(failures)' /\ TableBounded'
  BY OrderedStep, CapStep
<1> QED
  BY <1>2, <1>3, <1>4, InitTyped, NextTyped, PTL DEF Spec, BlockHolds
===============================================================================
