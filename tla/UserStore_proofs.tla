--------------------------- MODULE UserStore_proofs ---------------------------
(***************************************************************************)
(* Proofs about the services of a user, for any slugs, paths, host names   *)
(* and bounds.                                                             *)
(***************************************************************************)
EXTENDS UserStore, FiniteSetTheorems, FunctionTheorems, TLAPS

USE BoundsAssumption, OrdersAssumption, SlugsAssumption, CustomsAssumption, NoneAssumption

(***************************************************************************)
(* Least and greatest elements, by counting an initial segment.            *)
(***************************************************************************)
(* A bounded initial segment of the naturals has a last element.           *)
LEMMA SegmentEnds ==
    ASSUME NEW K \in Nat, NEW A \in SUBSET (0..K), 0 \in A,
           \A n \in A : \A m \in 0..n : m \in A
    PROVE  \E m \in A : m + 1 \notin A
<1> DEFINE c == Cardinality(A)
<1>1. IsFiniteSet(A) /\ c \in Nat
  <2>1. IsFiniteSet(0..K)
    BY FS_Interval
  <2>2. IsFiniteSet(A)
    BY <2>1, FS_Subset
  <2> QED
    BY <2>2, FS_CardinalityType
<1>2. c # 0
  BY <1>1, FS_EmptySet
<1>3. c \notin A
  <2>1. SUFFICES ASSUME c \in A PROVE FALSE
    OBVIOUS
  <2>2. 0..c \subseteq A
    BY <2>1
  <2>3. Cardinality(0..c) <= c
    BY <1>1, <2>2, FS_Subset
  <2>4. Cardinality(0..c) = c + 1
    BY <1>1, FS_Interval
  <2> QED
    BY <1>1, <2>3, <2>4
<1>4. c - 1 \in A
  <2>1. SUFFICES ASSUME c - 1 \notin A PROVE FALSE
    OBVIOUS
  <2>2. A \subseteq 0..(c - 2)
    <3>1. SUFFICES ASSUME NEW n \in A, ~(n <= c - 2) PROVE FALSE
      OBVIOUS
    <3>2. c - 1 \in 0..n
      BY <1>1, <1>2, <3>1
    <3> QED
      BY <2>1, <3>2
  <2> DEFINE d == c - 2
  <2>3. d \in Int /\ d = c - 2
    BY <1>1
  <2> HIDE DEF d
  <2>4. IsFiniteSet(0..d) /\ Cardinality(0..d) = c - 1
    <3>1. CASE d >= 0
      <4>1. Cardinality(0..d) = d - 0 + 1 /\ IsFiniteSet(0..d)
        BY <2>3, <3>1, FS_Interval
      <4> QED
        BY <1>1, <2>3, <4>1
    <3>2. CASE ~(d >= 0)
      <4>1. 0..d = {} /\ c = 1
        BY <1>1, <1>2, <2>3, <3>2
      <4>2. IsFiniteSet(0..d) /\ Cardinality(0..d) = 0
        BY <4>1, FS_EmptySet
      <4> QED
        BY <4>1, <4>2
    <3> QED
      BY <3>1, <3>2
  <2>5. A \subseteq 0..d
    BY <2>2, <2>3
  <2>6. Cardinality(A) <= Cardinality(0..d)
    BY <2>4, <2>5, FS_Subset
  <2> QED
    BY <1>1, <1>2, <2>3, <2>4, <2>6
<1> HIDE DEF c
<1> QED
  BY <1>1, <1>3, <1>4

LEMMA Least ==
    ASSUME NEW K \in Nat, NEW S \in SUBSET (0..K), S # {}
    PROVE  \E m \in S : \A k \in S : m <= k
<1> DEFINE A == {n \in 0..K : \A k \in S : n <= k}
<1>1. PICK m \in A : m + 1 \notin A
  <2>1. 0 \in A /\ \A n \in A : \A i \in 0..n : i \in A
    OBVIOUS
  <2> QED
    BY <2>1, SegmentEnds
<1>2. m \in S
  <2>1. SUFFICES ASSUME m \notin S PROVE FALSE
    OBVIOUS
  <2>2. \A k \in S : m + 1 <= k
    BY <1>1, <2>1
  <2>3. PICK k \in S : TRUE
    OBVIOUS
  <2>4. m + 1 <= k /\ k \in 0..K /\ m \in 0..K
    BY <2>2, <2>3
  <2>5. m + 1 \in 0..K
    BY <2>4
  <2> QED
    BY <1>1, <2>2, <2>5
<1> QED
  BY <1>1, <1>2

LEMMA Greatest ==
    ASSUME NEW K \in Nat, NEW S \in SUBSET (0..K), S # {}
    PROVE  \E m \in S : \A k \in S : k <= m
<1> DEFINE A == {n \in 0..K : \E k \in S : n <= k}
<1>1. PICK m \in A : m + 1 \notin A
  <2>1. 0 \in A
    <3>1. PICK k \in S : TRUE
      OBVIOUS
    <3>2. k \in 0..K /\ 0 \in 0..K /\ 0 <= k
      BY <3>1
    <3> QED
      BY <3>2
  <2>2. ASSUME NEW n \in A, NEW i \in 0..n PROVE i \in A
    <3>1. PICK k \in S : n <= k
      OBVIOUS
    <3>2. i <= k /\ i \in 0..K
      BY <3>1
    <3> QED
      BY <3>2
  <2>3. A \in SUBSET (0..K)
    OBVIOUS
  <2> HIDE DEF A
  <2> QED
    BY <2>1, <2>2, <2>3, SegmentEnds
<1>2. \A k \in S : k <= m
  BY <1>1
<1>3. m \in S
  BY <1>1, <1>2
<1> QED
  BY <1>2, <1>3

(* The same for a finite range of integers.                                *)
LEMMA GreatestInt ==
    ASSUME NEW lo \in Int, NEW hi \in Int, NEW S \in SUBSET (lo..hi), S # {}
    PROVE  \E m \in S : \A k \in S : k <= m
<1> DEFINE K == hi - lo
           T == {n \in 0..K : n + lo \in S}
<1>1. PICK x \in S : TRUE
  OBVIOUS
<1>2. K \in Nat /\ K = hi - lo
  BY <1>1
<1>3. x - lo \in T
  BY <1>1
<1>4. \A k \in S : k - lo \in T /\ k \in Int
  OBVIOUS
<1>5. \A n \in T : n + lo \in S /\ n \in Int
  OBVIOUS
<1>6. T \in SUBSET (0..K) /\ T # {}
  BY <1>3
<1> HIDE DEF T, K
<1>7. PICK m \in T : \A k \in T : k <= m
  BY <1>2, <1>6, Greatest
<1>8. \A k \in S : k <= m + lo
  BY <1>4, <1>5, <1>7
<1> QED
  BY <1>5, <1>7, <1>8

(***************************************************************************)
(* Unique names.                                                           *)
(***************************************************************************)
LEMMA SuffixedType ==
    ASSUME NEW id \in IDs, NEW n \in Nat
    PROVE  Suffixed(id, n) \in IDs
<1>1. Append(id.suffix, n) \in Seq(Nat)
  BY DEF IDs
<1> QED
  BY <1>1 DEF Suffixed, IDs

LEMMA SuffixedInjective ==
    ASSUME NEW id \in IDs, NEW n \in Nat, NEW m \in Nat,
           Suffixed(id, n) = Suffixed(id, m)
    PROVE  n = m
<1>1. id.suffix \in Seq(Nat)
  BY DEF IDs
<1>2. Append(id.suffix, n) = Append(id.suffix, m)
  <2>1. Suffixed(id, n).suffix = Append(id.suffix, n) /\ Suffixed(id, m).suffix = Append(id.suffix, m)
    BY DEF Suffixed, IDs
  <2> QED
    BY <2>1
<1>3. Append(id.suffix, n)[Len(id.suffix) + 1] = n /\ Append(id.suffix, m)[Len(id.suffix) + 1] = m
  BY <1>1
<1> QED
  BY <1>2, <1>3

(* Fresh finds an ID that is not taken, whatever the finite set of names.  *)
LEMMA FreshIsFree ==
    ASSUME NEW id \in IDs, NEW taken, IsFiniteSet(taken)
    PROVE  Fresh(id, taken) \in IDs /\ Fresh(id, taken) \notin taken
<1>1. CASE id \notin taken
  BY <1>1 DEF Fresh
<1>2. CASE id \in taken
  <2> DEFINE K == Cardinality(taken) + 2
             f == [n \in 2..K |-> Suffixed(id, n)]
  <2>1. K \in Nat /\ K = Cardinality(taken) + 2 /\ Cardinality(taken) \in Nat
    BY FS_CardinalityType
  <2>2. Candidates(id, taken) # {}
    <3>1. SUFFICES ASSUME Candidates(id, taken) = {} PROVE FALSE
      OBVIOUS
    <3>2. \A n \in 2..K : Suffixed(id, n) \in taken
      BY <3>1 DEF Candidates
    <3>3. f \in Injection(2..K, taken)
      <4>1. f \in [2..K -> taken]
        BY <3>2
      <4>2. \A n, m \in 2..K : f[n] = f[m] => n = m
        BY <2>1, SuffixedInjective
      <4> QED
        BY <4>1, <4>2 DEF Injection, IsInjective
    <3> HIDE DEF f
    <3>4. Cardinality(2..K) <= Cardinality(taken)
      BY <3>3, FS_Injection
    <3>5. Cardinality(2..K) = K - 1
      BY <2>1, FS_Interval
    <3> QED
      BY <2>1, <3>4, <3>5
  <2>3. Candidates(id, taken) \subseteq 0..K
    BY <2>1 DEF Candidates
  <2>4. \E n \in Candidates(id, taken) : \A m \in Candidates(id, taken) : n <= m
    BY <2>1, <2>2, <2>3, Least
  <2> DEFINE n == CHOOSE n \in Candidates(id, taken) : \A m \in Candidates(id, taken) : n <= m
  <2>5. n \in Candidates(id, taken)
    BY <2>4
  <2>6. Fresh(id, taken) = Suffixed(id, n)
    BY <1>2 DEF Fresh
  <2> HIDE DEF n
  <2>7. n \in Nat /\ Suffixed(id, n) \notin taken
    BY <2>1, <2>5 DEF Candidates
  <2> QED
    BY <2>6, <2>7, SuffixedType
<1> QED
  BY <1>1, <1>2

(***************************************************************************)
(* Sets of services.                                                       *)
(***************************************************************************)
(* What every set of services in the file is: finite, without collisions.  *)
Good(S) ==
    /\ S \in SUBSET Service
    /\ IsFiniteSet(S)
    /\ \A s, t \in S : s # t => s.id # t.id /\ s.path # t.path /\ s.hosts \cap t.hosts = {}

(* Their places: no service is younger than the last one added, and those  *)
(* added since the last layout come after all older ones.                  *)
Placed(S, n, p) ==
    /\ \A s \in S : s.born < n
    /\ \A s, t \in S : t.born >= p /\ s.born < t.born => s.order < t.order

LEMMA GoodSubset ==
    ASSUME NEW S, Good(S), NEW T \in SUBSET S
    PROVE  Good(T)
<1>1. IsFiniteSet(T)
  BY FS_Subset DEF Good
<1> QED
  BY <1>1 DEF Good

LEMMA GoodEmpty == Good({})
  BY FS_EmptySet DEF Good

LEMMA IdsFinite ==
    ASSUME NEW S, IsFiniteSet(S)
    PROVE  IsFiniteSet(IdsOf(S)) /\ Cardinality(IdsOf(S)) <= Cardinality(S)
<1> DEFINE f == [s \in S |-> s.id]
<1>1. f \in Surjection(S, IdsOf(S))
  BY DEF Surjection, IdsOf
<1> HIDE DEF f
<1> QED
  BY <1>1, FS_Surjection

LEMMA PathsFinite ==
    ASSUME NEW S, IsFiniteSet(S)
    PROVE  IsFiniteSet(PathsOf(S))
<1> DEFINE f == [s \in S |-> s.path]
<1>1. f \in Surjection(S, PathsOf(S))
  BY DEF Surjection, PathsOf
<1> HIDE DEF f
<1> QED
  BY <1>1, FS_Surjection

(* The next order is an int; unless it overflows, it comes after all.      *)
LEMMA NextOrderIsLast ==
    ASSUME NEW S, Good(S)
    PROVE  /\ NextOrder(S) \in Orders
           /\ ~Overflows(S) => \A s \in S : s.order < NextOrder(S)
<1> DEFINE O == {-1} \cup {s.order : s \in S}
           n == CHOOSE n \in O : \A m \in O : m <= n
<1>1. \A s \in S : s.order \in MinOrder..MaxOrder
  BY DEF Good, Service, Orders
<1>2. O \in SUBSET (MinOrder..MaxOrder) /\ O # {}
  BY <1>1
<1>3. -1 \in O /\ \A s \in S : s.order \in O
  OBVIOUS
<1>4. MaxOrderOf(S) = n
  BY DEF MaxOrderOf
<1>5. n \in O /\ \A m \in O : m <= n
  <2> HIDE DEF O
  <2>1. MinOrder \in Int /\ MaxOrder \in Int
    OBVIOUS
  <2>2. \E m \in O : \A k \in O : k <= m
    BY <1>2, <2>1, GreatestInt, Zenon
  <2> QED
    BY <2>2
<1> HIDE DEF O, n
<1>6. n \in MinOrder..MaxOrder /\ -1 <= n
  BY <1>2, <1>3, <1>5
<1>7. \A s \in S : s.order <= n /\ s.order \in Int
  BY <1>1, <1>3, <1>5
<1> QED
  BY <1>4, <1>6, <1>7 DEF NextOrder, Overflows, Orders

LEMMA GoodAdd ==
    ASSUME NEW S, Good(S), NEW r \in Service,
           r.id \notin IdsOf(S), r.path \notin PathsOf(S), r.hosts \cap HostsOf(S) = {}
    PROVE  Good(S \cup {r})
<1>1. IsFiniteSet(S \cup {r})
  BY FS_AddElement DEF Good
<1>2. \A s \in S : s.id # r.id /\ s.path # r.path /\ s.hosts \cap r.hosts = {}
  BY DEF IdsOf, PathsOf, HostsOf
<1> QED
  BY <1>1, <1>2 DEF Good

LEMMA PlacedAdd ==
    ASSUME NEW S, Good(S), NEW n \in Nat, NEW p \in Nat, Placed(S, n, p),
           NEW r \in Service, r.born = n, r.order = NextOrder(S)
    PROVE  Placed(S \cup {r}, n + 1, IF Overflows(S) THEN n + 1 ELSE p)
<1>1. \A s \in S : s.born \in Nat /\ s.born < n
  BY DEF Good, Service, Placed
<1>2. CASE Overflows(S)
  BY <1>1, <1>2 DEF Placed
<1>3. CASE ~Overflows(S)
  <2>1. \A s \in S : s.order < r.order
    BY <1>3, NextOrderIsLast
  <2> QED
    BY <1>1, <1>3, <2>1 DEF Placed
<1> QED
  BY <1>2, <1>3

(* A set with fewer services, or with edited ones, keeps the places.       *)
LEMMA PlacedMap ==
    ASSUME NEW S, NEW n, NEW p, Placed(S, n, p), NEW T,
           \A t \in T : \E s \in S : t.born = s.born /\ t.order = s.order
    PROVE  Placed(T, n, p)
<1>1. \A t \in T : t.born < n
  BY DEF Placed
<1>2. ASSUME NEW s \in T, NEW t \in T, t.born >= p, s.born < t.born
      PROVE  s.order < t.order
  <2>1. PICK u \in S : s.born = u.born /\ s.order = u.order
    OBVIOUS
  <2>2. PICK v \in S : t.born = v.born /\ t.order = v.order
    OBVIOUS
  <2> QED
    BY <1>2, <2>1, <2>2 DEF Placed
<1> QED
  BY <1>1, <1>2 DEF Placed

LEMMA GoodReplace ==
    ASSUME NEW S, Good(S), NEW s \in S, NEW r \in Service,
           r.id = s.id,
           \A t \in S \ {s} : t.path # r.path /\ t.hosts \cap r.hosts = {}
    PROVE  Good((S \ {s}) \cup {r})
<1>1. IsFiniteSet((S \ {s}) \cup {r})
  BY FS_RemoveElement, FS_AddElement DEF Good
<1>2. \A t \in S \ {s} : t.id # r.id
  BY DEF Good
<1>3. (S \ {s}) \cup {r} \in SUBSET Service
  BY DEF Good
<1> QED
  BY <1>1, <1>2, <1>3 DEF Good

(* A layout keeps what it does not set.                                    *)
LEMMA GoodLayout ==
    ASSUME NEW S, Good(S), NEW N, NEW items \in [N -> Orders], NEW T,
           T = Reordered(S, items)
    PROVE  /\ Good(T)
           /\ \A t \in T : \E s \in S : t.id = s.id /\ t.born = s.born
           /\ \A s \in S : \E t \in T : t.id = s.id /\ t.born = s.born
<1> DEFINE f == [s \in S |-> IF s.id \in N THEN [s EXCEPT !.order = items[s.id]] ELSE s]
<1>1. \A s \in S : /\ f[s] \in Service /\ f[s].id = s.id /\ f[s].path = s.path
                   /\ f[s].hosts = s.hosts /\ f[s].born = s.born
  <2>1. TAKE s \in S
  <2>2. s \in Service
    BY DEF Good
  <2>3. CASE s.id \in N
    <3>1. items[s.id] \in Orders
      BY <2>3
    <3> QED
      BY <2>2, <2>3, <3>1 DEF Service
  <2>4. CASE s.id \notin N
    BY <2>2, <2>4
  <2> QED
    BY <2>3, <2>4
<1>2. T = {f[s] : s \in S}
  BY DEF Reordered
<1>3. IsFiniteSet(T)
  <2>1. f \in Surjection(S, T)
    BY <1>2 DEF Surjection
  <2> HIDE DEF f
  <2> QED
    BY <2>1, FS_Surjection DEF Good
<1>4. (\A t \in T : \E s \in S : t = f[s]) /\ (\A s \in S : f[s] \in T)
  BY <1>2
<1> HIDE DEF f
<1>5. \A t, u \in T : t # u => t.id # u.id /\ t.path # u.path /\ t.hosts \cap u.hosts = {}
  <2>1. TAKE t, u \in T
  <2>2. PICK s \in S : t = f[s]
    BY <1>4
  <2>3. PICK r \in S : u = f[r]
    BY <1>4
  <2>4. s # r => s.id # r.id /\ s.path # r.path /\ s.hosts \cap r.hosts = {}
    BY DEF Good
  <2> QED
    BY <1>1, <2>2, <2>3, <2>4
<1>6. T \in SUBSET Service
  BY <1>1, <1>4
<1>7. Good(T)
  BY <1>3, <1>5, <1>6 DEF Good
<1>8. \A t \in T : \E s \in S : t.id = s.id /\ t.born = s.born
  BY <1>1, <1>4
<1>9. \A s \in S : \E t \in T : t.id = s.id /\ t.born = s.born
  BY <1>1, <1>4
<1> QED
  BY <1>7, <1>8, <1>9

(***************************************************************************)
(* The inductive invariant.                                                *)
(***************************************************************************)
(* The default service is the one it was set for, in effect or not, unless *)
(* an edit dropped a service.                                              *)
Tracked ==
    ~dropped /\ doc # None /\ doc.default # None =>
        \E s \in doc.services : s.id = doc.default /\ s.born = meant

Inv ==
    /\ TypeOK
    /\ doc # None => Good(doc.services) /\ Placed(doc.services, added, placed)
    /\ Tracked

LEMMA UsableGood ==
    ASSUME NEW S, Good(S)
    PROVE  Good(Usable(S)) /\ Usable(S) \in SUBSET S
  BY GoodSubset DEF Usable

(* An edit that writes a good set of services, and a default service that  *)
(* it leaves alone or takes out, keeps the invariant.                      *)
LEMMA SaveKeeps ==
    ASSUME Inv, doc # None, NEW T, Good(T),
           NEW default, default = doc.default \/ default = None,
           Save(T, default), added' \in Nat, placed' \in Nat, Placed(T, added', placed'),
           \A s \in doc.services :
               (\A u \in doc.services : u.ok) /\ s.id = default =>
                   \E t \in T : t.id = s.id /\ t.born = s.born
    PROVE  Inv'
<1>1. default \in IDs \cup {None}
  BY DEF Inv, TypeOK
<1>2. T \in SUBSET Service /\ IsFiniteSet(T)
  BY DEF Good
<1>3. doc' = [services |-> T, default |-> default]
  BY DEF Save
<1>4. doc'.services = T /\ doc'.default = default
  BY <1>3
<1>5. TypeOK'
  <2>1. meant' \in Nat \cup {None} /\ dropped' \in BOOLEAN
    BY DEF Inv, TypeOK, Save
  <2> QED
    BY <1>1, <1>2, <1>3, <2>1 DEF TypeOK
<1>6. Tracked'
  <2>1. SUFFICES ASSUME ~dropped', default # None
                 PROVE  \E t \in T : t.id = default /\ t.born = meant'
    BY <1>4 DEF Tracked
  <2>2. ~dropped /\ \A u \in doc.services : u.ok
    BY <2>1 DEF Save
  <2>3. meant' = meant /\ doc.default = default
    BY <2>1 DEF Save
  <2>4. PICK s \in doc.services : s.id = default /\ s.born = meant
    BY <2>1, <2>2, <2>3 DEF Inv, Tracked
  <2> QED
    BY <2>2, <2>3, <2>4
<1> QED
  BY <1>4, <1>5, <1>6 DEF Inv

LEMMA AddKeeps ==
    ASSUME Inv, NEW name \in Slugs, NEW path \in Customs \cup {None},
           NEW hosts \in SUBSET Hosts, AddService(name, path, hosts)
    PROVE  Inv'
<1> DEFINE S == Usable(doc.services)
           id == Fresh(name, IdsOf(S))
           at == IF path = None THEN Fresh(id, PathsOf(S)) ELSE path
           r == [id |-> id, path |-> at, hosts |-> hosts, order |-> NextOrder(S),
                 ok |-> TRUE, born |-> added]
<1>1. doc # None /\ path \notin PathsOf(S) /\ hosts \cap HostsOf(S) = {}
      /\ Save(S \cup {r}, doc.default) /\ added' = added + 1
      /\ placed' = IF Overflows(S) THEN added + 1 ELSE placed
  BY DEF AddService
<1>2. /\ Good(doc.services) /\ Good(S) /\ S \in SUBSET doc.services
      /\ added \in Nat /\ placed \in Nat /\ Placed(doc.services, added, placed)
  BY <1>1, UsableGood DEF Inv, TypeOK
<1>3. IsFiniteSet(S)
  BY <1>2 DEF Good
<1>4. \A u \in doc.services : u.ok => u \in S
  BY DEF Usable
<1> HIDE DEF S
<1>5. id \in IDs /\ id \notin IdsOf(S)
  BY <1>3, IdsFinite, FreshIsFree
<1> HIDE DEF id
<1>6. at \in Paths /\ at \notin PathsOf(S)
  <2>1. CASE path = None
    BY <1>3, <1>5, <2>1, PathsFinite, FreshIsFree DEF Paths
  <2>2. CASE path # None
    BY <1>1, <2>2
  <2> QED
    BY <2>1, <2>2
<1> HIDE DEF at
<1>7. NextOrder(S) \in Orders
  BY <1>2, NextOrderIsLast
<1>8. /\ r \in Service /\ r.id = id /\ r.path = at /\ r.hosts = hosts
      /\ r.order = NextOrder(S) /\ r.born = added
  BY <1>2, <1>5, <1>6, <1>7 DEF Service
<1> HIDE DEF r
<1>9. Good(S \cup {r})
  BY <1>1, <1>2, <1>5, <1>6, <1>8, GoodAdd
<1>10. Placed(S \cup {r}, added', placed') /\ added' \in Nat /\ placed' \in Nat
  <2>1. Placed(S, added, placed)
    BY <1>2, PlacedMap
  <2>2. Placed(S \cup {r}, added + 1, IF Overflows(S) THEN added + 1 ELSE placed)
    BY <1>2, <1>8, <2>1, PlacedAdd
  <2> QED
    BY <1>1, <1>2, <2>2
<1> QED
  BY <1>1, <1>2, <1>4, <1>9, <1>10, SaveKeeps

LEMMA RemoveKeeps ==
    ASSUME Inv, NEW id, RemoveService(id)
    PROVE  Inv'
<1> DEFINE S == Usable(doc.services)
           left == {s \in S : s.id # id}
           default == IF doc.default \in IdsOf(left) THEN doc.default ELSE None
<1>1. doc # None /\ Save(left, default) /\ added' = added /\ placed' = placed
  BY DEF RemoveService
<1>2. /\ Good(doc.services) /\ Good(left) /\ left \in SUBSET doc.services
      /\ added \in Nat /\ placed \in Nat /\ Placed(doc.services, added, placed)
  BY <1>1, UsableGood, GoodSubset DEF Inv, TypeOK
<1>3. ASSUME NEW s \in doc.services, s.id = default PROVE s \in left
  <2>1. default # None
    BY <1>2, <1>3 DEF Good, Service, Paths
  <2>2. PICK t \in left : t.id = default
    BY <2>1 DEF IdsOf
  <2> QED
    BY <1>2, <1>3, <2>2 DEF Good
<1> HIDE DEF left
<1>4. default = doc.default \/ default = None
  OBVIOUS
<1> HIDE DEF default
<1>5. Placed(left, added', placed')
  BY <1>1, <1>2, PlacedMap
<1> QED
  BY <1>1, <1>2, <1>3, <1>4, <1>5, SaveKeeps

LEMMA UpdateKeeps ==
    ASSUME Inv, NEW id, NEW path \in Customs \cup {None},
           NEW hosts \in (SUBSET Hosts) \cup {None}, UpdateService(id, path, hosts)
    PROVE  Inv'
<1> DEFINE S == Usable(doc.services)
<1>1. PICK s \in S :
        /\ s.id = id
        /\ path \notin PathsOf(S \ {s})
        /\ hosts # None => hosts \cap HostsOf({t \in S : t.id # id}) = {}
        /\ Save((S \ {s}) \cup
                  {[s EXCEPT !.path = IF path = None THEN s.path ELSE path,
                             !.hosts = IF hosts = None THEN s.hosts ELSE hosts]},
                doc.default)
  BY DEF UpdateService
<1>2. doc # None /\ added' = added /\ placed' = placed
  BY DEF UpdateService
<1>3. /\ Good(doc.services) /\ Good(S) /\ S \in SUBSET doc.services
      /\ added \in Nat /\ placed \in Nat /\ Placed(doc.services, added, placed)
  BY <1>2, UsableGood DEF Inv, TypeOK
<1>4. \A u \in doc.services : u.ok => u \in S
  BY DEF Usable
<1> HIDE DEF S
<1> DEFINE at == IF path = None THEN s.path ELSE path
           on == IF hosts = None THEN s.hosts ELSE hosts
           r == [s EXCEPT !.path = at, !.hosts = on]
<1>5. s \in Service
  BY <1>3 DEF Good
<1>6. at \in Paths /\ on \in SUBSET Hosts
  BY <1>5 DEF Service
<1>7. \A t \in S \ {s} : t.path # at /\ t.hosts \cap on = {}
  <2>1. TAKE t \in S \ {s}
  <2>2. t.id # s.id /\ t.path # s.path /\ t.hosts \cap s.hosts = {}
    BY <1>3 DEF Good
  <2>3. t.path # path
    BY <1>1 DEF PathsOf
  <2>4. hosts # None => t.hosts \cap hosts = {}
    BY <1>1, <2>2 DEF HostsOf
  <2> QED
    BY <2>2, <2>3, <2>4
<1> HIDE DEF at, on
<1>8. /\ r \in Service /\ r.id = s.id /\ r.order = s.order /\ r.born = s.born
      /\ r.path = at /\ r.hosts = on
  BY <1>5, <1>6 DEF Service
<1>9. Save((S \ {s}) \cup {r}, doc.default)
  BY <1>1 DEF at, on
<1> HIDE DEF r
<1>10. Good((S \ {s}) \cup {r})
  BY <1>3, <1>7, <1>8, GoodReplace
<1>11. \A u \in S : \E t \in (S \ {s}) \cup {r} : t.id = u.id /\ t.born = u.born
  BY <1>8
<1>12. Placed((S \ {s}) \cup {r}, added', placed')
  <2>1. \A t \in (S \ {s}) \cup {r} : \E u \in doc.services : t.born = u.born /\ t.order = u.order
    BY <1>3, <1>8
  <2> QED
    BY <1>2, <1>3, <2>1, PlacedMap
<1> QED
  BY <1>2, <1>3, <1>4, <1>9, <1>10, <1>11, <1>12, SaveKeeps

LEMMA LayoutKeeps ==
    ASSUME Inv, NEW N, NEW items \in [N -> Orders], UpdateServicesLayout(items)
    PROVE  Inv'
<1> DEFINE S == Usable(doc.services)
           T == Reordered(S, items)
<1>1. doc # None /\ Save(T, doc.default) /\ added' = added /\ placed' = added
  BY DEF UpdateServicesLayout
<1>2. /\ Good(doc.services) /\ Good(S) /\ S \in SUBSET doc.services
      /\ added \in Nat /\ Placed(doc.services, added, placed)
  BY <1>1, UsableGood DEF Inv, TypeOK
<1>3. \A u \in doc.services : u.ok => u \in S
  BY DEF Usable
<1> HIDE DEF S
<1>4. T = Reordered(S, items)
  OBVIOUS
<1> HIDE DEF T
<1>5. /\ Good(T)
      /\ \A t \in T : \E s \in S : t.id = s.id /\ t.born = s.born
      /\ \A s \in S : \E t \in T : t.id = s.id /\ t.born = s.born
  BY <1>2, <1>4, GoodLayout
<1>6. \A t \in T : t.born < added /\ t.born \in Nat
  BY <1>2, <1>5 DEF Placed, Good, Service
<1>7. Placed(T, added', placed')
  BY <1>1, <1>2, <1>6 DEF Placed
<1> QED
  BY <1>1, <1>2, <1>3, <1>5, <1>7, SaveKeeps

LEMMA OperatorKeeps ==
    ASSUME Inv, Operator
    PROVE  Inv'
<1>1. /\ doc # None /\ Good(doc.services) /\ Placed(doc.services, added, placed)
      /\ UNCHANGED <<added, dropped, placed>>
  BY DEF Operator, SetDefault, EditPath, Inv
<1>2. doc \in [services : SUBSET Service, default : IDs \cup {None}]
  BY <1>1 DEF Inv, TypeOK
<1>3. CASE SetDefault
  <2>1. CASE \E s \in doc.services : doc' = [doc EXCEPT !.default = s.id] /\ meant' = s.born
    <3>1. PICK s \in doc.services : doc' = [doc EXCEPT !.default = s.id] /\ meant' = s.born
      BY <2>1
    <3>2. s \in Service
      BY <1>1 DEF Good
    <3>3. doc'.services = doc.services /\ doc'.default = s.id
          /\ doc' \in [services : SUBSET Service, default : IDs \cup {None}]
      BY <1>2, <3>1, <3>2 DEF Service
    <3>4. meant' \in Nat
      BY <3>1, <3>2 DEF Service
    <3> QED
      BY <1>1, <3>1, <3>3, <3>4 DEF Inv, TypeOK, Good, Tracked
  <2>2. CASE doc' = [doc EXCEPT !.default = None] /\ meant' = None
    <3>1. doc'.services = doc.services /\ doc'.default = None
          /\ doc' \in [services : SUBSET Service, default : IDs \cup {None}]
      BY <1>2, <2>2
    <3> QED
      BY <1>1, <2>2, <3>1 DEF Inv, TypeOK, Good, Tracked
  <2> QED
    BY <1>3, <2>1, <2>2 DEF SetDefault
<1>4. CASE EditPath
  <2>1. PICK s \in doc.services :
          doc' = [doc EXCEPT !.services = (doc.services \ {s}) \cup {[s EXCEPT !.ok = ~s.ok]}]
    BY <1>4 DEF EditPath
  <2> DEFINE r == [s EXCEPT !.ok = ~s.ok]
  <2>2. s \in Service
    BY <1>1 DEF Good
  <2>3. /\ r \in Service /\ r.id = s.id /\ r.path = s.path /\ r.hosts = s.hosts
        /\ r.order = s.order /\ r.born = s.born
    BY <2>2 DEF Service
  <2>4. doc' = [doc EXCEPT !.services = (doc.services \ {s}) \cup {r}]
    BY <2>1
  <2> HIDE DEF r
  <2>5. \A t \in doc.services \ {s} : t.path # r.path /\ t.hosts \cap r.hosts = {}
    BY <1>1, <2>3 DEF Good
  <2>6. Good((doc.services \ {s}) \cup {r})
    BY <1>1, <2>3, <2>5, GoodReplace
  <2>7. /\ doc'.services = (doc.services \ {s}) \cup {r} /\ doc'.default = doc.default
        /\ doc' \in [services : SUBSET Service, default : IDs \cup {None}]
    BY <1>2, <2>4, <2>6 DEF Good
  <2>8. \A u \in doc.services : \E t \in doc'.services : t.id = u.id /\ t.born = u.born
    BY <2>3, <2>7
  <2>9. UNCHANGED meant
    BY <1>4 DEF EditPath
  <2>10. Tracked'
    BY <1>1, <2>7, <2>8, <2>9 DEF Inv, Tracked
  <2>11. TypeOK'
    BY <1>1, <2>6, <2>7, <2>9 DEF Inv, TypeOK, Good
  <2>12. Placed(doc'.services, added', placed')
    <3>1. \A t \in doc'.services : \E u \in doc.services : t.born = u.born /\ t.order = u.order
      BY <2>3, <2>7
    <3> QED
      BY <1>1, <3>1, PlacedMap
  <2> QED
    BY <2>6, <2>7, <2>10, <2>11, <2>12 DEF Inv
<1> QED
  BY <1>3, <1>4 DEF Operator

LEMMA AccountKeeps ==
    ASSUME Inv, CreateUserConfig \/ RemoveUserConfig
    PROVE  Inv'
<1>1. CASE CreateUserConfig
  <2>1. doc'.services = {} /\ doc'.default = None
        /\ doc' \in [services : SUBSET Service, default : IDs \cup {None}]
    BY <1>1 DEF CreateUserConfig, Empty
  <2>2. UNCHANGED <<added, meant, dropped, placed>>
    BY <1>1 DEF CreateUserConfig
  <2>3. IsFiniteSet(doc'.services) /\ Good(doc'.services)
    BY <2>1, FS_EmptySet, GoodEmpty
  <2>4. Placed(doc'.services, added', placed')
    BY <2>1 DEF Placed
  <2> QED
    BY <2>1, <2>2, <2>3, <2>4 DEF Inv, TypeOK, Tracked
<1>2. CASE RemoveUserConfig
  BY <1>2 DEF RemoveUserConfig, Inv, TypeOK, Tracked
<1> QED
  BY <1>1, <1>2

LEMMA InitInv == Init => Inv
<1>1. Init => TypeOK
  <2>1. SUFFICES ASSUME Init PROVE TypeOK
    OBVIOUS
  <2>2. dropped \in BOOLEAN
    BY <2>1 DEF Init
  <2>3. doc = None /\ added \in Nat /\ placed \in Nat /\ meant \in Nat \cup {None}
    BY <2>1 DEF Init
  <2> QED
    BY <2>2, <2>3 DEF TypeOK
<1> QED
  BY <1>1 DEF Init, Inv, Tracked

LEMMA InductiveInv == Inv /\ [Next]_vars => Inv'
<1>1. SUFFICES ASSUME Inv, [Next]_vars PROVE Inv'
  OBVIOUS
<1>2. ASSUME NEW name \in Slugs, NEW path \in Customs \cup {None}, NEW hosts \in SUBSET Hosts,
             AddService(name, path, hosts)
      PROVE  Inv'
  BY <1>1, <1>2, AddKeeps
<1>3. ASSUME NEW id, RemoveService(id) PROVE Inv'
  BY <1>1, <1>3, RemoveKeeps
<1>4. ASSUME NEW id, NEW path \in Customs \cup {None}, NEW hosts \in (SUBSET Hosts) \cup {None},
             UpdateService(id, path, hosts)
      PROVE  Inv'
  BY <1>1, <1>4, UpdateKeeps
<1>5. ASSUME NEW N, NEW items \in [N -> Orders], UpdateServicesLayout(items)
      PROVE  Inv'
  BY <1>1, <1>5, LayoutKeeps
<1>6. ASSUME CreateUserConfig \/ RemoveUserConfig PROVE Inv'
  BY <1>1, <1>6, AccountKeeps
<1>7. ASSUME Operator PROVE Inv'
  BY <1>1, <1>7, OperatorKeeps
<1>8. CASE UNCHANGED vars
  BY <1>1, <1>8 DEF vars, Inv, TypeOK, Good, Placed, Tracked
<1> QED
  BY <1>1, <1>2, <1>3, <1>4, <1>5, <1>6, <1>7, <1>8 DEF Next

LEMMA Invariant == Spec => []Inv
<1> QED
  BY InitInv, InductiveInv, PTL DEF Spec

(***************************************************************************)
(* The theorems.                                                           *)
(***************************************************************************)
(* Whatever edits are made, the file holds well-formed services.           *)
THEOREM TypeCorrect == Spec => []TypeOK
<1>1. Inv => TypeOK
  BY DEF Inv
<1> QED
  BY Invariant, <1>1, PTL

(* No two services of a user's file, skipped ones included, share an ID, a *)
(* path or a host name.                                                    *)
THEOREM Unique == Spec => []NoCollisions
<1>1. Inv => NoCollisions
  BY DEF Inv, Good, NoCollisions
<1> QED
  BY Invariant, <1>1, PTL

(* A service added since the last layout is shown after every older one,   *)
(* whatever orders that layout sent (user.go: "Find next order").          *)
THEOREM NewComeLast == Spec => []AddedComeLast
<1>1. Inv => AddedComeLast
  BY DEF Inv, Placed, AddedComeLast
<1> QED
  BY Invariant, <1>1, PTL

(* While no skipped service has been dropped, a default service in effect  *)
(* is the one it was set for.                                              *)
THEOREM DefaultIsTheOneSet == Spec => []DefaultFollows
<1>1. Inv => DefaultFollows
  <2>1. SUFFICES ASSUME Inv, ~dropped, doc # None, DefaultService # None,
                        NEW s \in doc.services, s.id = DefaultService
                 PROVE  s.born = meant
    BY DEF DefaultFollows
  <2>2. s.id = doc.default /\ doc.default # None
    BY <2>1 DEF DefaultService
  <2>3. PICK t \in doc.services : t.id = doc.default /\ t.born = meant
    BY <2>1, <2>2 DEF Inv, Tracked
  <2> QED
    BY <2>1, <2>2, <2>3 DEF Inv, Good
<1> QED
  BY Invariant, <1>1, PTL
===============================================================================
