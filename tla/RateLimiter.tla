----------------------------- MODULE RateLimiter ------------------------------
(***************************************************************************)
(* The failure table of internal/rate/rate.go and what each operation of   *)
(* Limiter makes of it.  A table gives every key the ages, oldest first,   *)
(* of its recorded failures; a key without failures is not in Go's map.    *)
(* Ages are whole ticks and stop at Window: a failure that old is expired  *)
(* but stays in the table until its key is pruned or the table is swept.   *)
(*                                                                         *)
(* Go iterates over the map in any order, so an operation that evicts has  *)
(* a set of possible results.                                              *)
(***************************************************************************)
EXTENDS Integers, Sequences, FiniteSets

CONSTANTS Keys,         \* rate keys: "ip|username"
          MaxFailures,  \* failures that block a key
          Capacity,     \* hard cap on the number of keys
          Window        \* ticks after which a failure no longer counts

ASSUME KeysAssumption == IsFiniteSet(Keys)
ASSUME MaxFailuresAssumption == MaxFailures \in Nat \ {0}
ASSUME CapacityAssumption == Capacity \in Nat \ {0}
ASSUME WindowAssumption == Window \in Nat \ {0}

Ages == 0..Window

NoFailures == [k \in Keys |-> <<>>]

(* The failures of s after the cutoff.  They are recorded in the order of  *)
(* time, so the expired ones are a prefix and the filter keeps a suffix.   *)
Live(s) == SubSeq(s, 1 + Cardinality({i \in 1..Len(s) : s[i] >= Window}), Len(s))

prune(f, k) == [f EXCEPT ![k] = Live(f[k])]
PruneAll(f) == [k \in Keys |-> Live(f[k])]

(* The keys in Go's map.                                                   *)
Stored(f) == {k \in Keys : f[k] # <<>>}

Blocked(f, k) == Len(Live(f[k])) >= MaxFailures

(* The sets of keys the three eviction loops may delete: just enough to    *)
(* get back to Capacity, blocked keys only after every unblocked one, the  *)
(* protected key only after all the others.                                *)
Victims(f, protect) ==
    LET cheap == {k \in Stored(f) \ {protect} : Len(f[k]) < MaxFailures}
    IN  {V \in SUBSET Stored(f) :
            /\ Cardinality(V) = IF Cardinality(Stored(f)) > Capacity
                                THEN Cardinality(Stored(f)) - Capacity ELSE 0
            /\ V \subseteq cheap \/ cheap \subseteq V
            /\ protect \in V => V = Stored(f)}

Evict(f, V) == [k \in Keys |-> IF k \in V THEN <<>> ELSE f[k]]

(* Mutant: eviction takes any keys, whether blocked or not.                *)
sweepIfLarge_AnyVictims(f, protect) ==
    IF Cardinality(Stored(f)) <= Capacity
    THEN {f}
    ELSE {Evict(PruneAll(f), V) : V \in {W \in SUBSET Stored(PruneAll(f)) :
            Cardinality(W) = IF Cardinality(Stored(PruneAll(f))) > Capacity
                             THEN Cardinality(Stored(PruneAll(f))) - Capacity ELSE 0}}

(* Mutant: a full sweep only drops expired failures, there is no hard cap. *)
sweepIfLarge_NoCap(f, protect) ==
    IF Cardinality(Stored(f)) <= Capacity THEN {f} ELSE {PruneAll(f)}

(* Mutant: nobody is protected, the newcomer is the cheapest victim.       *)
sweepIfLarge_DropsNewcomer(f, protect) ==
    IF Cardinality(Stored(f)) <= Capacity
    THEN {f} ELSE {Evict(PruneAll(f), {protect})}

sweepIfLarge(f, protect) ==
    IF Cardinality(Stored(f)) <= Capacity
    THEN {f}
    ELSE {Evict(PruneAll(f), V) : V \in Victims(PruneAll(f), protect)}

(* The tables each method may leave behind.                                *)
AfterIsBlocked(f, k) == sweepIfLarge(prune(f, k), k)

(* Mutant: the newest failure is put in front.                             *)
AfterRecordFailure_NewestFirst(f, k) == sweepIfLarge([f EXCEPT ![k] = <<0>> \o Live(f[k])], k)

AfterRecordFailure(f, k) == sweepIfLarge([f EXCEPT ![k] = Append(Live(f[k]), 0)], k)

AfterReset(f, k) == [f EXCEPT ![k] = <<>>]

(* A tick of the clock.                                                    *)
Older(s) == [i \in DOMAIN s |-> IF s[i] < Window THEN s[i] + 1 ELSE Window]
===============================================================================
