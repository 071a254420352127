-------------------------- MODULE ReverseProxy_proofs --------------------------
(***************************************************************************)
(* What the lookups of RouteTable and the rewriting of ReverseProxy return *)
(* for any registry, path and service: paths that are not empty, matches   *)
(* whose user and service exist; and that a backend's redirect to the page *)
(* that was asked for comes back to it.  Facts about all naturals are had  *)
(* from sets of naturals (SetInduction), so that no operator is a          *)
(* parameter.                                                              *)
(***************************************************************************)
EXTENDS ReverseProxy, SequenceTheorems, FiniteSetTheorems, WellFoundedInduction, TLAPS

(* Every user's account.                                                   *)
Lookup == [Users -> Account]

(* A match as a lookup returns it: something is left of the path.          *)
Found == {m \in Match : m.rest # <<>>}

(* The segments of p kept so far by path.Clean: f[i] after i of them.      *)
Keeps(p, f) ==
    f = [i \in 0..Len(p) |->
          IF i = 0 THEN <<>> ELSE IF p[i] = "" THEN f[i - 1] ELSE Append(f[i - 1], p[i])]

(* The segments of a path that path.Clean keeps.                           *)
Segs(p) == (CHOOSE f : Keeps(p, f))[Len(p)]

(* A path without empty segments.                                          *)
Whole(p) == p \in SomePath /\ \A i \in 1..Len(p) : p[i] # ""

(* What a request of the service is put behind, and a redirect loses.      *)
Base(backend) == IF FileLike(backend) THEN Front(backend) ELSE Trim(backend)

(* What ValidatePath and the checks of UserStore (NoCollisions) leave of a *)
(* user's service paths: no empty segments, and all different.             *)
Orderly(services) ==
    \A s, t \in services : (s.path = Root \/ Whole(s.path)) /\ (s.path = t.path => s = t)

(* A path of a backend's that rewriteLocation leaves alone.                *)
UnderProxy(p) == Len(p) > 1 /\ p[1] = "proxy"

-----------------------------------------------------------------------------
(* Naturals.                                                               *)

(* A set with 0 and with the successor of every member has all naturals.   *)
LEMMA SetInduction ==
    ASSUME NEW S, 0 \in S, \A n \in Nat : n \in S => n + 1 \in S
    PROVE  Nat \subseteq S
<1> SUFFICES ASSUME Nat \ S # {} PROVE FALSE
  OBVIOUS
<1> DEFINE R == OpToRel(<, Nat)
           T == Nat \ S
<1>1. IsWellFoundedOn(R, Nat)
  BY NatLessThanWellFounded
<1>2. \E x \in T : \A y \in T : ~ (<<y, x>> \in R)
  <2> HIDE DEF R
  <2>1. T \subseteq Nat /\ T # {}
    OBVIOUS
  <2> HIDE DEF T
  <2> QED BY <1>1, <2>1, WFMin
<1>3. PICK x \in T : \A y \in T : ~ (<<y, x>> \in R)
  BY <1>2
<1>4. x # 0 /\ x \in Nat
  OBVIOUS
<1>5. x - 1 \in T
  BY <1>4
<1>6. <<x - 1, x>> \in R
  BY <1>4, <1>5 DEF OpToRel
<1> QED BY <1>3, <1>5, <1>6

(* A set of naturals with a bound has a largest member.                    *)
LEMMA LargestOf ==
    ASSUME NEW S \in SUBSET Nat, S # {}, NEW b \in Nat, \A x \in S : x <= b
    PROVE  \E m \in S : \A x \in S : x <= m
<1> SUFFICES ASSUME \A m \in S : \E x \in S : x > m PROVE FALSE
  OBVIOUS
<1> DEFINE T == {n \in Nat : \E x \in S : x >= n}
<1>1. 0 \in T
  <2>1. PICK x : x \in S
    OBVIOUS
  <2>2. x \in Nat /\ x >= 0
    BY <2>1
  <2> QED BY <2>1, <2>2
<1>2. ASSUME NEW n \in Nat, n \in T PROVE n + 1 \in T
  <2>1. PICK x \in S : x >= n
    BY <1>2
  <2>2. PICK y \in S : y > x
    BY <2>1
  <2>3. x \in Nat /\ y \in Nat /\ y >= n + 1
    BY <2>1, <2>2
  <2> QED BY <2>3
<1>3. b + 1 \in T
  <2> HIDE DEF T
  <2> QED BY <1>1, <1>2, SetInduction
<1>4. PICK x \in S : x >= b + 1
  BY <1>3
<1> QED BY <1>4

-----------------------------------------------------------------------------
(* Paths.                                                                  *)

LEMMA OneSegment == ASSUME NEW x \in STRING PROVE <<x>> \in SomePath
<1>1. Append(<<>>, x) = <<x>> /\ <<>> \in Seq(STRING)
  OBVIOUS
<1>2. Append(<<>>, x) \in Seq(STRING)
  BY <1>1, AppendProperties
<1> QED BY <1>1, <1>2 DEF Path, SomePath

LEMMA Pair == ASSUME NEW S, NEW x \in S, NEW y \in S PROVE <<x, y>> \in Seq(S)
<1>1. <<x, y>> \in [1..2 -> S]
  OBVIOUS
<1> QED BY <1>1

LEMMA TwoSegments == ASSUME NEW x \in STRING, NEW y \in STRING PROVE <<x, y>> \in SomePath
<1>1. <<x, y>> # <<>>
  OBVIOUS
<1> QED BY <1>1, Pair DEF Path, SomePath

LEMMA RootPath == Root \in SomePath /\ Len(Root) = 1 /\ Last(Root) = ""
BY OneSegment, SegmentsAssumption DEF Root, Last

(* A walk over the segments exists, whatever the path's length.            *)
LEMMA KeepsExists ==
    ASSUME NEW p \in Path PROVE \E f : Keeps(p, f)
<1> DEFINE Upto(n, f) ==
             f = [i \in 0..n |-> IF i = 0 THEN <<>> ELSE IF p[i] = "" THEN f[i - 1]
                                 ELSE Append(f[i - 1], p[i])]
           S == {n \in Nat : \E f : Upto(n, f)}
<1>1. 0 \in S
  <2>1. Upto(0, [i \in 0..0 |-> <<>>])
    OBVIOUS
  <2> HIDE DEF Upto
  <2> QED BY <2>1
<1>2. ASSUME NEW n \in Nat, n \in S PROVE n + 1 \in S
  <2>1. PICK f : Upto(n, f)
    BY <1>2
  <2> DEFINE e(i) == IF i = 0 THEN <<>> ELSE IF p[i] = "" THEN f[i - 1] ELSE Append(f[i - 1], p[i])
  <2>2. \A i \in 0..n : f[i] = e(i)
    <3>1. f = [i \in 0..n |-> e(i)]
      BY <2>1
    <3> HIDE DEF e
    <3> QED BY <3>1
  <2> DEFINE x == IF p[n + 1] = "" THEN f[n] ELSE Append(f[n], p[n + 1])
             g == [i \in 0..(n + 1) |-> IF i = n + 1 THEN x ELSE f[i]]
  <2>3. \A i \in 0..n : g[i] = f[i]
    <3> HIDE DEF x
    <3> QED OBVIOUS
  <2>4. g[n + 1] = x
    <3> HIDE DEF x
    <3> QED OBVIOUS
  <2>5. g = [i \in 0..(n + 1) |-> g[i]]
    OBVIOUS
  <2> HIDE DEF g
  <2> DEFINE d(i) == IF i = 0 THEN <<>> ELSE IF p[i] = "" THEN g[i - 1] ELSE Append(g[i - 1], p[i])
  <2>6. ASSUME NEW i \in 0..(n + 1) PROVE g[i] = d(i)
    <3>1. CASE i = 0
      <4>1. 0 \in 0..n
        OBVIOUS
      <4>2. g[0] = f[0] /\ f[0] = e(0)
        BY <4>1, <2>2, <2>3
      <4> QED BY <3>1, <4>2
    <3>2. CASE i \in 1..n
      <4>1. i \in 0..n /\ i - 1 \in 0..n /\ i # 0
        BY <3>2
      <4>2. g[i] = f[i] /\ g[i - 1] = f[i - 1] /\ f[i] = e(i)
        BY <4>1, <2>2, <2>3
      <4> QED BY <4>1, <4>2
    <3>3. CASE i = n + 1
      <4>1. (n + 1) - 1 = n /\ n \in 0..n /\ n + 1 # 0
        OBVIOUS
      <4>2. g[n] = f[n]
        BY <2>3, <4>1
      <4>3. g[i] = x /\ i # 0 /\ i - 1 = n
        BY <3>3, <4>1, <2>4
      <4> QED BY <3>3, <4>2, <4>3
    <3>4. i = 0 \/ i \in 1..n \/ i = n + 1
      OBVIOUS
    <3> HIDE DEF d
    <3> QED BY <3>1, <3>2, <3>3, <3>4
  <2>7. Upto(n + 1, g)
    <3>1. g = [i \in 0..(n + 1) |-> d(i)]
      <4> HIDE DEF d
      <4> QED BY <2>5, <2>6
    <3> QED BY <3>1
  <2> HIDE DEF Upto
  <2> QED BY <2>7
<1>3. Len(p) \in S
  <2>1. Len(p) \in Nat
    BY DEF Path
  <2> HIDE DEF S
  <2> QED BY <1>1, <1>2, <2>1, SetInduction
<1> QED BY <1>3 DEF Keeps

(* Its recursion, step by step.                                            *)
LEMMA KeepsFacts ==
    ASSUME NEW p \in Path, NEW f, Keeps(p, f)
    PROVE  /\ f[0] = <<>>
           /\ \A i \in 1..Len(p) : f[i] = IF p[i] = "" THEN f[i - 1] ELSE Append(f[i - 1], p[i])
<1> DEFINE e(i) == IF i = 0 THEN <<>> ELSE IF p[i] = "" THEN f[i - 1] ELSE Append(f[i - 1], p[i])
<1>1. f = [i \in 0..Len(p) |-> e(i)]
  BY DEF Keeps
<1>2. Len(p) \in Nat
  BY DEF Path
<1>3. \A i \in 0..Len(p) : f[i] = e(i)
  <2> HIDE DEF e
  <2> QED BY <1>1
<1>4. 0 \in 0..Len(p) /\ \A i \in 1..Len(p) : i \in 0..Len(p) /\ i # 0
  BY <1>2
<1> QED BY <1>3, <1>4

(* What is kept are segments of the path.                                  *)
LEMMA KeepsTyped ==
    ASSUME NEW p \in Path, NEW f, Keeps(p, f), NEW n \in 0..Len(p)
    PROVE  f[n] \in Path
<1> DEFINE S == {i \in Nat : i <= Len(p) => f[i] \in Path}
<1>1. Len(p) \in Nat /\ \A i \in 1..Len(p) : p[i] \in STRING
  BY DEF Path
<1>2. /\ f[0] = <<>>
      /\ \A i \in 1..Len(p) : f[i] = IF p[i] = "" THEN f[i - 1] ELSE Append(f[i - 1], p[i])
  BY KeepsFacts
<1>3. 0 \in S
  BY <1>2, EmptySeq DEF Path
<1>4. ASSUME NEW i \in Nat, i \in S PROVE i + 1 \in S
  <2> SUFFICES ASSUME i + 1 <= Len(p) PROVE f[i + 1] \in Path
    OBVIOUS
  <2>1. f[i] \in Path /\ i + 1 \in 1..Len(p) /\ (i + 1) - 1 = i
    BY <1>1, <1>4
  <2>2. f[i + 1] = IF p[i + 1] = "" THEN f[i] ELSE Append(f[i], p[i + 1])
    BY <1>2, <2>1
  <2>3. p[i + 1] \in STRING
    BY <1>1, <2>1
  <2>4. Append(f[i], p[i + 1]) \in Path
    BY <2>1, <2>3 DEF Path
  <2> QED BY <2>1, <2>2, <2>4
<1>5. n \in S
  <2> HIDE DEF S
  <2> QED BY <1>1, <1>3, <1>4, SetInduction
<1> QED BY <1>5

LEMMA SegsPath == ASSUME NEW p \in Path PROVE Segs(p) \in Path
<1>1. Len(p) \in 0..Len(p)
  BY DEF Path
<1>2. Keeps(p, CHOOSE f : Keeps(p, f))
  BY KeepsExists
<1> QED BY <1>1, <1>2, KeepsTyped DEF Segs

(* path.Clean is what is kept in the end.                                  *)
LEMMA CleanSegs ==
    ASSUME NEW p \in Path PROVE Clean(p) = IF Segs(p) = <<>> THEN Root ELSE Segs(p)
BY DEF Clean, Keeps, Segs

(* A cleaned path is a path, and never empty.                              *)
LEMMA CleanPath == ASSUME NEW p \in Path PROVE Clean(p) \in SomePath
BY CleanSegs, SegsPath, RootPath DEF SomePath

LEMMA PathFacts ==
    ASSUME NEW p \in Path
    PROVE  Len(p) \in Nat /\ (p # <<>> => Len(p) >= 1) /\ \A i \in 1..Len(p) : p[i] \in STRING
BY DEF Path

LEMMA ConcatPath ==
    ASSUME NEW p \in Path, NEW q \in Path
    PROVE  /\ p \o q \in Path /\ Len(p \o q) = Len(p) + Len(q)
           /\ q # <<>> \/ p # <<>> => p \o q \in SomePath
<1>1. p \o q \in Path /\ Len(p \o q) = Len(p) + Len(q)
  BY DEF Path
<1>2. q # <<>> \/ p # <<>> => Len(p \o q) # 0
  BY <1>1, PathFacts
<1> QED BY <1>1, <1>2 DEF SomePath

LEMMA SubPath ==
    ASSUME NEW p \in Path, NEW i \in Nat \ {0}, NEW j \in 0..Len(p)
    PROVE  SubSeq(p, i, j) \in Path /\ Len(SubSeq(p, i, j)) = IF i <= j THEN j - i + 1 ELSE 0
<1>1. \A n \in i..j : p[n] \in STRING
  BY DEF Path
<1> QED BY <1>1, SubSeqProperties DEF Path

LEMMA FrontPath ==
    ASSUME NEW p \in SomePath PROVE Front(p) \in Path /\ Len(Front(p)) = Len(p) - 1
<1> DEFINE n == Len(p) - 1
<1>1. p \in Path /\ n \in 0..Len(p) /\ 1 \in Nat \ {0}
  BY DEF SomePath, Path
<1>2. Front(p) = SubSeq(p, 1, n)
  BY DEF Front
<1> HIDE DEF n
<1>3. SubSeq(p, 1, n) \in Path
  BY <1>1, SubPath
<1>4. Len(SubSeq(p, 1, n)) = IF 1 <= n THEN n - 1 + 1 ELSE 0
  BY <1>1, SubPath
<1>5. Len(SubSeq(p, 1, n)) = n
  BY <1>1, <1>4
<1> QED BY <1>2, <1>3, <1>5 DEF n

LEMMA TrimPath ==
    ASSUME NEW p \in Path
    PROVE  /\ Trim(p) \in Path /\ Len(Trim(p)) \in Nat
           /\ Len(Trim(p)) <= Len(p) /\ Len(p) <= Len(Trim(p)) + 1
<1>1. Len(p) \in Nat
  BY PathFacts
<1>2. CASE p # <<>> /\ Last(p) = ""
  <2>1. p \in SomePath /\ Trim(p) = Front(p)
    BY <1>2 DEF Trim, SomePath
  <2>2. Front(p) \in Path /\ Len(Front(p)) = Len(p) - 1
    BY <2>1, FrontPath
  <2>3. Len(Front(p)) \in Nat
    BY <2>2, PathFacts
  <2> QED BY <1>1, <2>1, <2>2, <2>3
<1>3. CASE ~(p # <<>> /\ Last(p) = "")
  <2>1. Trim(p) = p
    BY <1>3 DEF Trim
  <2> QED BY <1>1, <2>1
<1> QED BY <1>2, <1>3

(* What is left of q behind i segments of it.                              *)
LEMMA SuffixPath ==
    ASSUME NEW q \in Path, NEW i \in Nat \ {0}, i <= Len(q)
    PROVE  SubSeq(q, i, Len(q)) \in SomePath /\ Len(SubSeq(q, i, Len(q))) = Len(q) - i + 1
<1> DEFINE n == Len(q)
<1>1. n \in Nat /\ n \in 0..Len(q) /\ i <= n
  BY PathFacts
<1> HIDE DEF n
<1>2. SubSeq(q, i, n) \in Path
  BY <1>1, SubPath
<1>3. Len(SubSeq(q, i, n)) = IF i <= n THEN n - i + 1 ELSE 0
  BY <1>1, SubPath
<1>4. Len(SubSeq(q, i, n)) = n - i + 1 /\ n - i + 1 # 0
  BY <1>1, <1>3
<1>5. SubSeq(q, i, n) # <<>>
  BY <1>4
<1> QED BY <1>2, <1>4, <1>5 DEF n, SomePath

LEMMA RestPath ==
    ASSUME NEW p \in Path, NEW q \in Path, IsPrefix(p, q)
    PROVE  Rest(p, q) \in SomePath
<1>1. Len(p) \in Nat /\ Len(q) \in Nat /\ Len(p) <= Len(q)
  BY PathFacts DEF IsPrefix
<1>2. CASE Len(p) = Len(q)
  BY <1>2, RootPath DEF Rest
<1>3. CASE Len(p) # Len(q)
  <2>1. Len(p) + 1 \in Nat \ {0} /\ Len(p) + 1 <= Len(q)
    BY <1>1, <1>3
  <2> QED BY <1>3, <2>1, SuffixPath DEF Rest
<1> QED BY <1>2, <1>3

-----------------------------------------------------------------------------
(* The lookups return nothing, or a match that is typed.                   *)

LEMMA LongestFound == ASSUME NEW S \in SUBSET Found PROVE Longest(S) \in {None} \cup Found
BY DEF Longest

LEMMA AccountFacts ==
    ASSUME NEW conf \in Lookup, NEW u \in Users
    PROVE  conf[u].services \subseteq Services
BY DEF Lookup, Account

LEMMA FoundMatch ==
    ASSUME NEW u \in Users, NEW s \in Services, NEW rest \in SomePath, NEW legacy \in BOOLEAN
    PROVE  [user |-> u, service |-> s, legacy |-> legacy, rest |-> rest] \in Found
BY DEF Found, Match, SomePath

LEMMA ServicePaths ==
    ASSUME NEW s \in Services
    PROVE  /\ s.path \in SomePath /\ s.cookie \in SomePath /\ s.backend \in Path
           /\ s.root \in BOOLEAN /\ s.websocket \in BOOLEAN
           /\ s.guarded \in BOOLEAN /\ s.slash \in BOOLEAN
BY ServicesAssumption DEF SomePath

LEMMA FindServiceFound ==
    ASSUME NEW conf \in Lookup, NEW p \in Path PROVE FindService(conf, p) \in {None} \cup Found
<1> DEFINE user == UsernameFromProxyPath(p)
           inside == SubSeq(p, 3, Len(p))
           S == {[user |-> user, service |-> s, legacy |-> FALSE,
                  rest |-> IF s.path = Root THEN inside ELSE Rest(s.path, inside)] :
                    s \in {x \in conf[user].services : x.path = Root \/ IsPrefix(x.path, inside)}}
<1>1. FindService(conf, p) = IF user \notin Users THEN None ELSE Longest(S)
  BY Zenon DEF FindService
<1>2. ASSUME user \in Users PROVE S \subseteq Found
  <2>1. Len(p) \in Nat /\ Len(p) >= 3
    BY <1>2, PathFacts, ServicesAssumption DEF UsernameFromProxyPath
  <2>2. inside \in SomePath
    BY <2>1, SuffixPath
  <2> HIDE DEF user, inside
  <2>3. ASSUME NEW s \in conf[user].services, s.path = Root \/ IsPrefix(s.path, inside)
        PROVE  [user |-> user, service |-> s, legacy |-> FALSE,
                rest |-> IF s.path = Root THEN inside ELSE Rest(s.path, inside)] \in Found
    <3>1. s \in Services /\ s.path \in Path /\ inside \in Path
      BY <1>2, <2>2, <2>3, AccountFacts, ServicePaths DEF SomePath
    <3>2. (IF s.path = Root THEN inside ELSE Rest(s.path, inside)) \in SomePath
      BY <2>2, <2>3, <3>1, RestPath
    <3> QED BY <1>2, <3>1, <3>2, FoundMatch
  <2> QED BY <2>3
<1> HIDE DEF S, user
<1> QED BY <1>1, <1>2, LongestFound

LEMMA FindLegacyFound ==
    ASSUME NEW conf \in Lookup, NEW p \in Path, NEW user \in Users
    PROVE  FindLegacyService(conf, p, user) \in {None} \cup Found
<1> DEFINE S == {[user |-> user, service |-> s, legacy |-> TRUE, rest |-> Rest(<<"proxy">> \o s.path, p)] :
                   s \in {x \in conf[user].services : IsPrefix(<<"proxy">> \o x.path, p)}}
<1>1. FindLegacyService(conf, p, user) = Longest(S)
  BY Zenon DEF FindLegacyService
<1>2. ASSUME NEW s \in conf[user].services, IsPrefix(<<"proxy">> \o s.path, p)
      PROVE  [user |-> user, service |-> s, legacy |-> TRUE, rest |-> Rest(<<"proxy">> \o s.path, p)] \in Found
  <2>1. s \in Services /\ s.path \in Path
    BY <1>2, AccountFacts, ServicePaths DEF SomePath
  <2>2. <<"proxy">> \o s.path \in Path
    BY <2>1, OneSegment, SegmentsAssumption, ConcatPath DEF SomePath
  <2> QED BY <1>2, <2>1, <2>2, RestPath, FoundMatch
<1>3. S \subseteq Found
  BY <1>2
<1> HIDE DEF S
<1> QED BY <1>1, <1>3, LongestFound

LEMMA BestBareFound ==
    ASSUME NEW conf \in Lookup, NEW p \in Path, NEW user \in Users
    PROVE  bestBareService(conf, user, p) \in {None} \cup Found
<1> DEFINE S == {[user |-> user, service |-> s, legacy |-> FALSE, rest |-> Rest(s.path, p)] :
                   s \in {x \in conf[user].services : IsPrefix(x.path, p)}}
<1>1. bestBareService(conf, user, p) = Longest(S)
  BY Zenon DEF bestBareService
<1>2. ASSUME NEW s \in conf[user].services, IsPrefix(s.path, p)
      PROVE  [user |-> user, service |-> s, legacy |-> FALSE, rest |-> Rest(s.path, p)] \in Found
  <2>1. s \in Services /\ s.path \in Path
    BY <1>2, AccountFacts, ServicePaths DEF SomePath
  <2> QED BY <1>2, <2>1, RestPath, FoundMatch
<1>3. S \subseteq Found
  BY <1>2
<1> HIDE DEF S
<1> QED BY <1>1, <1>3, LongestFound

LEMMA FindForUserFound ==
    ASSUME NEW conf \in Lookup, NEW p \in Path, NEW user \in Users
    PROVE  FindServiceForUser(conf, p, user) \in {None} \cup Found
BY FindServiceFound, FindLegacyFound DEF FindServiceForUser, ??

LEMMA MatchRouteFound ==
    ASSUME NEW conf \in Lookup, NEW p \in Path, NEW user \in Users
    PROVE  matchRouteForUser(conf, p, user) \in {None} \cup Found
BY FindForUserFound DEF matchRouteForUser

LEMMA FindByHostFound ==
    ASSUME NEW conf \in Lookup, NEW host
    PROVE  \/ FindByHost(conf, host) = None
           \/ /\ FindByHost(conf, host).user \in Users
              /\ FindByHost(conf, host).service \in Services
<1> DEFINE claims == {m \in UNION {{[user |-> u, service |-> s] : s \in conf[u].services} : u \in Users} :
                        host \in m.service.hosts}
<1>1. FindByHost(conf, host) = IF Cardinality(claims) = 1 THEN CHOOSE m \in claims : TRUE ELSE None
  BY Zenon DEF FindByHost
<1>2. \A m \in claims : m.user \in Users /\ m.service \in Services
  BY AccountFacts
<1> HIDE DEF claims
<1>3. Cardinality(claims) = 1 => claims # {}
  BY FS_EmptySet
<1> QED BY <1>1, <1>2, <1>3

LEMMA ServiceByIDFound ==
    ASSUME NEW conf \in Lookup, NEW user \in Users, NEW id
    PROVE  ServiceByID(conf, user, id) \in {None} \cup Services
BY AccountFacts DEF ServiceByID

(* A route's weight is bounded by its length, so a fitting route of        *)
(* largest weight exists.                                                  *)
LEMMA WeightBound ==
    ASSUME NEW p \in Path PROVE Weight(p) \in Nat /\ Weight(p) <= 2 * Len(Trim(p)) + 1
BY TrimPath, PathFacts DEF Weight

LEMMA BestRouteFound ==
    ASSUME NEW routes \in SUBSET Path, NEW p \in {None} \cup Path
    PROVE  bestRouteForPath(routes, p) \in {None} \cup routes
<1> DEFINE fitting == {r \in routes : p # None /\ IsPrefix(Trim(r), p)}
           W == {Weight(r) : r \in fitting}
<1>1. bestRouteForPath(routes, p) =
        IF fitting = {} THEN None
        ELSE CHOOSE r \in fitting : \A q \in fitting : Weight(q) <= Weight(r)
  BY Zenon DEF bestRouteForPath
<1>2. ASSUME fitting # {}
      PROVE  \E r \in fitting : \A q \in fitting : Weight(q) <= Weight(r)
  <2>1. Len(p) \in Nat /\ 2 * Len(p) + 1 \in Nat
    BY <1>2, PathFacts
  <2>2. ASSUME NEW r \in fitting
        PROVE  Weight(r) \in Nat /\ Weight(r) <= 2 * Len(p) + 1
    <3>1. r \in Path /\ Len(Trim(r)) <= Len(p)
      BY DEF IsPrefix
    <3>2. Len(Trim(r)) \in Nat
      BY <3>1, TrimPath, PathFacts
    <3> QED BY <2>1, <3>1, <3>2, WeightBound
  <2>3. W \in SUBSET Nat /\ W # {} /\ \A x \in W : x <= 2 * Len(p) + 1
    BY <1>2, <2>2
  <2>4. \E m \in W : \A x \in W : x <= m
    <3> HIDE DEF W
    <3> QED BY <2>1, <2>3, LargestOf
  <2> QED BY <2>4
<1> HIDE DEF fitting
<1> QED BY <1>1, <1>2 DEF fitting

(* A route cookie's route is one that the browser keeps.                   *)
LEMMA RouteCookieFound ==
    ASSUME NEW jar, jar.routes \in SUBSET Path, jar.recent \in {None} \cup Path,
           NEW p \in {None} \cup Path, NEW referer \in {None} \cup Path
    PROVE  GetRouteCookieForRequest(jar, p, referer) \in
             {None} \cup jar.routes \cup {jar.recent}
<1> DEFINE routes == jar.routes \cup ({jar.recent} \ {None})
           only == IF Cardinality(routes) = 1 THEN CHOOSE r \in routes : TRUE ELSE jar.recent
<1>1. \/ GetRouteCookieForRequest(jar, p, referer) = None
      \/ /\ routes # {}
         /\ GetRouteCookieForRequest(jar, p, referer) =
              bestRouteForPath(routes, p) ?? bestRouteForPath(routes, referer) ?? only
  BY Zenon DEF GetRouteCookieForRequest
<1>2. routes # {} => only \in routes \cup {jar.recent}
  OBVIOUS
<1>3. routes \in SUBSET Path
  OBVIOUS
<1>4. routes \subseteq {None} \cup jar.routes \cup {jar.recent}
  OBVIOUS
<1> HIDE DEF routes, only
<1> QED BY <1>1, <1>2, <1>3, <1>4, BestRouteFound DEF ??

-----------------------------------------------------------------------------
(* The rewriting of the reverse proxy.                                     *)

LEMMA BasePath ==
    ASSUME NEW prefix \in Path, NEW rest \in SomePath PROVE BaseForPath(prefix, rest) \in Path
BY TrimPath, ConcatPath, FrontPath DEF BaseForPath, SomePath

LEMMA JoinPath ==
    ASSUME NEW backend \in Path, NEW rest \in SomePath
    PROVE  joinBackendPath(backend, rest) \in SomePath
BY CleanPath, ConcatPath, FrontPath DEF joinBackendPath, SomePath

LEMMA StripPath ==
    ASSUME NEW backend \in Path, NEW location \in SomePath
    PROVE  stripBackendPath(location, backend) \in SomePath
BY RootPath, TrimPath, FrontPath, RestPath DEF stripBackendPath, SomePath

LEMMA PrefixPath == ASSUME NEW m \in Match PROVE Prefix(m) \in SomePath
<1>1. m.user \in STRING /\ m.service.path \in Path
  BY ServicesAssumption, ServicePaths DEF Match, SomePath
<1>2. <<"proxy">> \in SomePath /\ <<"proxy", m.user>> \in SomePath
  BY <1>1, OneSegment, TwoSegments, SegmentsAssumption
<1> QED BY <1>1, <1>2, ConcatPath DEF Prefix, SomePath

LEMMA RewriteLocationPath ==
    ASSUME NEW m \in Match, NEW mode, NEW location \in SomePath
    PROVE  rewriteLocation(location, m, mode) \in SomePath
<1>1. m.service \in Services
  BY DEF Match
<1> QED BY <1>1, ServicePaths, PrefixPath, StripPath, ConcatPath DEF rewriteLocation, SomePath

LEMMA RewriteSetCookiePath ==
    ASSUME NEW m \in Match, NEW mode, NEW at, NEW path \in SomePath
    PROVE  RewriteSetCookie(path, m, mode, at) \in SomePath
BY PrefixPath, TrimPath, ConcatPath DEF RewriteSetCookie, SomePath

-----------------------------------------------------------------------------
(* The algebra of paths: concatenations, prefixes, final slashes, and what *)
(* path.Clean keeps of them.                                               *)

LEMMA Associative ==
    ASSUME NEW p \in Path, NEW q \in Path, NEW r \in Path PROVE (p \o q) \o r = p \o (q \o r)
BY ConcatAssociative DEF Path

(* The two parts of a concatenation, position by position and as a whole.  *)
LEMMA ConcatAt ==
    ASSUME NEW p \in Path, NEW q \in Path
    PROVE  /\ \A i \in 1..Len(p) : (p \o q)[i] = p[i]
           /\ \A i \in 1..Len(q) : (p \o q)[Len(p) + i] = q[i]
<1>1. Len(p) \in Nat /\ Len(q) \in Nat
  BY PathFacts
<1>2. \A i \in 1..(Len(p) + Len(q)) : (p \o q)[i] = IF i <= Len(p) THEN p[i] ELSE q[i - Len(p)]
  BY ConcatProperties DEF Path
<1>3. \A i \in 1..Len(p) : i \in 1..(Len(p) + Len(q)) /\ i <= Len(p)
  BY <1>1
<1>4. \A i \in 1..Len(q) : /\ Len(p) + i \in 1..(Len(p) + Len(q)) /\ ~(Len(p) + i <= Len(p))
                           /\ Len(p) + i - Len(p) = i
  BY <1>1
<1>5. \A i \in 1..Len(q) : (p \o q)[Len(p) + i] = q[i]
  BY <1>2, <1>4
<1> QED BY <1>2, <1>3, <1>5

LEMMA SubSeqConcat ==
    ASSUME NEW p \in Path, NEW q \in Path
    PROVE  SubSeq(p \o q, 1, Len(p)) = p /\ SubSeq(p \o q, Len(p) + 1, Len(p \o q)) = q
<1> DEFINE m == Len(p)
           n == Len(q)
           c == p \o q
<1>1. m \in Nat /\ n \in Nat /\ c \in Path /\ Len(c) = m + n
  BY PathFacts, ConcatPath
<1>2. \A i \in 1..(m + n) : c[i] = IF i <= m THEN p[i] ELSE q[i - m]
  BY ConcatProperties DEF Path
<1>3. \A i \in 1..(m + n) : c[i] \in STRING
  BY <1>1, PathFacts
<1> HIDE DEF c
<1>4. SubSeq(c, 1, m) = p
  <2>1. \A i \in 1..m : c[i] \in STRING
    BY <1>1, <1>3
  <2>2. /\ SubSeq(c, 1, m) \in Seq(STRING)
        /\ Len(SubSeq(c, 1, m)) = IF 1 <= m THEN m - 1 + 1 ELSE 0
        /\ \A i \in 1..(m - 1 + 1) : SubSeq(c, 1, m)[i] = c[1 + i - 1]
    <3> HIDE DEF m
    <3> QED BY <1>1, <2>1, SubSeqProperties
  <2> DEFINE t == SubSeq(c, 1, m)
  <2>3. Len(t) = m
    BY <1>1, <2>2
  <2>4. \A i \in 1..m : t[i] = p[i]
    <3>1. \A i \in 1..m : i \in 1..(m - 1 + 1) /\ 1 + i - 1 = i /\ i \in 1..(m + n) /\ i <= m
      BY <1>1
    <3> HIDE DEF m, n
    <3> QED BY <1>2, <2>2, <3>1
  <2> HIDE DEF t
  <2>5. t = p
    BY <2>2, <2>3, <2>4, SeqEqual DEF Path, t
  <2> QED BY <2>5 DEF t
<1>5. SubSeq(c, m + 1, m + n) = q
  <2>1. \A i \in (m + 1)..(m + n) : c[i] \in STRING
    BY <1>1, <1>3
  <2> DEFINE t == SubSeq(c, m + 1, m + n)
             a == m + 1
             z == m + n
  <2>2. /\ t \in Seq(STRING)
        /\ Len(t) = IF a <= z THEN z - a + 1 ELSE 0
        /\ \A i \in 1..(z - a + 1) : t[i] = c[a + i - 1]
    <3>1. a \in Int /\ z \in Int /\ \A i \in a..z : c[i] \in STRING
      BY <1>1, <2>1
    <3>2. t = SubSeq(c, a, z)
      OBVIOUS
    <3> HIDE DEF t, a, z
    <3> QED BY <3>1, <3>2, SubSeqProperties
  <2> HIDE DEF t
  <2>3. Len(t) = n
    BY <1>1, <2>2
  <2>4. \A i \in 1..n : t[i] = q[i]
    <3>1. \A i \in 1..n : /\ i \in 1..(z - a + 1) /\ a + i - 1 = m + i /\ m + i \in 1..(m + n)
                           /\ ~(m + i <= m) /\ (m + i) - m = i
      BY <1>1
    <3> HIDE DEF m, n, a, z
    <3> QED BY <1>2, <2>2, <3>1
  <2>5. t = q
    BY <2>2, <2>3, <2>4, SeqEqual DEF Path
  <2> QED BY <2>5 DEF t
<1> QED BY <1>1, <1>4, <1>5 DEF c

(* Paths without empty segments, which a slash at the end would be.        *)
LEMMA WholeFacts ==
    ASSUME NEW p, Whole(p)
    PROVE  /\ p \in SomePath /\ p \in Path /\ p # <<>> /\ p # Root /\ Len(p) >= 1
           /\ Last(p) # "" /\ Trim(p) = p
<1>1. p \in SomePath /\ p \in Path /\ p # <<>> /\ Len(p) \in Nat /\ Len(p) >= 1
  BY PathFacts DEF Whole, SomePath
<1>2. Last(p) # ""
  <2>1. Len(p) \in 1..Len(p)
    BY <1>1
  <2> QED BY <2>1 DEF Whole, Last
<1>3. Trim(p) = p
  BY <1>2 DEF Trim
<1> QED BY <1>1, <1>2, <1>3, RootPath

LEMMA ConcatWhole ==
    ASSUME NEW p, p = <<>> \/ Whole(p), NEW q, Whole(q) PROVE Whole(p \o q)
<1>1. p \in Path /\ q \in Path /\ q # <<>>
  BY WholeFacts, EmptySeq DEF Path
<1>2. p \o q \in SomePath /\ Len(p \o q) = Len(p) + Len(q)
  BY <1>1, ConcatPath
<1>3. \A i \in 1..Len(p) : p[i] # ""
  <2>1. Len(<<>>) = 0
    OBVIOUS
  <2>2. \A i \in 1..0 : FALSE
    OBVIOUS
  <2> QED BY <2>1, <2>2 DEF Whole
<1>4. \A i \in 1..Len(q) : q[i] # ""
  BY DEF Whole
<1>5. Len(p) \in Nat /\ Len(q) \in Nat
  BY <1>1, PathFacts
<1>6. \A i \in 1..(Len(p) + Len(q)) : (p \o q)[i] = IF i <= Len(p) THEN p[i] ELSE q[i - Len(p)]
  BY <1>1, ConcatProperties DEF Path
<1>7. ASSUME NEW i \in 1..Len(p \o q) PROVE (p \o q)[i] # ""
  <2>1. CASE i <= Len(p)
    <3>1. i \in 1..Len(p)
      BY <1>2, <1>5, <2>1
    <3> QED BY <1>2, <1>3, <1>6, <2>1, <3>1
  <2>2. CASE ~(i <= Len(p))
    <3>1. i - Len(p) \in 1..Len(q)
      BY <1>2, <1>5, <2>2
    <3> QED BY <1>2, <1>4, <1>6, <2>2, <3>1
  <2> QED BY <2>1, <2>2
<1> QED BY <1>2, <1>7 DEF Whole

(* A prefix agrees with the path, position by position.                    *)
LEMMA PrefixAt ==
    ASSUME NEW p \in Path, NEW q \in Path
    PROVE  IsPrefix(p, q) <=> Len(p) <= Len(q) /\ \A i \in 1..Len(p) : p[i] = q[i]
<1> DEFINE n == Len(p)
           t == SubSeq(q, 1, n)
<1>1. n \in Nat /\ Len(q) \in Nat /\ SubSeq(p, 1, n) = p
  BY PathFacts, SubSeqFull DEF Path
<1>2. IsPrefix(p, q) <=> n <= Len(q) /\ p = t
  BY <1>1 DEF IsPrefix
<1>3. ASSUME n <= Len(q) PROVE t \in Seq(STRING) /\ Len(t) = n /\ \A i \in 1..n : t[i] = q[i]
  <2>1. \A i \in 1..n : i \in 1..Len(q)
    BY <1>1, <1>3
  <2>2. \A i \in 1..n : q[i] \in STRING
    BY <2>1, PathFacts
  <2>3. /\ t \in Seq(STRING) /\ Len(t) = (IF 1 <= n THEN n - 1 + 1 ELSE 0)
        /\ \A i \in 1..(n - 1 + 1) : t[i] = q[1 + i - 1]
    <3>1. 1 \in Int /\ n \in Int
      BY <1>1
    <3> HIDE DEF n
    <3> QED BY <2>2, <3>1, SubSeqProperties
  <2>4. Len(t) = n /\ \A i \in 1..n : i \in 1..(n - 1 + 1) /\ 1 + i - 1 = i
    <3> HIDE DEF n, t
    <3> QED BY <1>1, <2>3
  <2> HIDE DEF n, t
  <2> QED BY <2>3, <2>4
<1>4. ASSUME n <= Len(q), \A i \in 1..n : p[i] = q[i] PROVE p = t
  <2>1. Len(p) = Len(t) /\ \A i \in 1..Len(p) : p[i] = t[i]
    <3> HIDE DEF t
    <3> QED BY <1>3, <1>4
  <2>2. p \in Seq(STRING) /\ t \in Seq(STRING)
    BY <1>3, <1>4 DEF Path
  <2> HIDE DEF t
  <2> QED BY <2>1, <2>2, SeqEqual
<1> HIDE DEF t
<1> QED BY <1>2, <1>3, <1>4

LEMMA PrefixSelf == ASSUME NEW p \in Path PROVE IsPrefix(p, p)
<1>1. SubSeq(p, 1, Len(p)) = p /\ Len(p) \in Nat
  BY PathFacts, SubSeqFull DEF Path
<1> QED BY <1>1 DEF IsPrefix

LEMMA PrefixTrans ==
    ASSUME NEW p \in Path, NEW q \in Path, NEW r \in Path, IsPrefix(p, q), IsPrefix(q, r)
    PROVE  IsPrefix(p, r)
<1>1. Len(p) \in Nat /\ Len(q) \in Nat /\ Len(r) \in Nat
  BY PathFacts
<1>2. Len(p) <= Len(q) /\ Len(q) <= Len(r)
  BY PrefixAt
<1>3. \A i \in 1..Len(p) : p[i] = q[i]
  BY PrefixAt
<1>4. \A i \in 1..Len(q) : q[i] = r[i]
  BY PrefixAt
<1>5. \A i \in 1..Len(p) : i \in 1..Len(q)
  BY <1>1, <1>2
<1>6. Len(p) <= Len(r)
  BY <1>1, <1>2
<1> QED BY <1>3, <1>4, <1>5, <1>6, PrefixAt

(* A path without empty segments does not reach into a final slash.        *)
LEMMA PrefixSlash ==
    ASSUME NEW c, Whole(c), NEW b \in Path, IsPrefix(c, b \o Root) PROVE IsPrefix(c, b)
<1> DEFINE m == Len(b)
           n == Len(c)
           x == b \o Root
<1>1. c \in Path /\ Root \in Path
  BY WholeFacts, RootPath DEF SomePath
<1>2. n \in Nat /\ m \in Nat
  BY <1>1, PathFacts
<1>3. x \in Path /\ Len(x) = m + 1
  BY <1>1, RootPath, ConcatPath
<1>4. x[m + 1] = ""
  <2>1. Len(Root) = 1 /\ Root[1] = ""
    BY RootPath DEF Root
  <2>2. 1 \in 1..1
    OBVIOUS
  <2> QED BY <1>1, <2>1, <2>2, ConcatAt
<1>5. \A i \in 1..m : x[i] = b[i]
  BY <1>1, ConcatAt
<1>6. n <= m + 1 /\ \A i \in 1..n : c[i] = x[i]
  BY <1>1, <1>3, PrefixAt
<1>7. \A i \in 1..n : c[i] # ""
  BY DEF Whole
<1> HIDE DEF m, n, x
<1>8. n # m + 1
  <2> SUFFICES ASSUME n = m + 1 PROVE FALSE
    OBVIOUS
  <2>1. m + 1 \in 1..n
    BY <1>2
  <2> QED BY <1>4, <1>6, <1>7, <2>1
<1>9. n <= m /\ \A i \in 1..n : i \in 1..m
  BY <1>2, <1>6, <1>8
<1>10. n <= m /\ \A i \in 1..n : c[i] = b[i]
  BY <1>5, <1>6, <1>9
<1> QED BY <1>1, <1>10, PrefixAt DEF m, n

LEMMA PrefixParts ==
    ASSUME NEW a \in Path, NEW t \in Path, NEW r \in Path, IsPrefix(t, r)
    PROVE  IsPrefix(a \o t, a \o r)
<1>1. Len(a) \in Nat /\ Len(t) \in Nat /\ Len(r) \in Nat
  BY PathFacts
<1>2. Len(t) <= Len(r) /\ \A i \in 1..Len(t) : t[i] = r[i]
  BY PrefixAt
<1>3. /\ a \o t \in Path /\ a \o r \in Path
      /\ Len(a \o t) = Len(a) + Len(t) /\ Len(a \o r) = Len(a) + Len(r)
  BY ConcatPath
<1>4. \A i \in 1..(Len(a) + Len(t)) : (a \o t)[i] = IF i <= Len(a) THEN a[i] ELSE t[i - Len(a)]
  BY ConcatProperties DEF Path
<1>5. \A i \in 1..(Len(a) + Len(r)) : (a \o r)[i] = IF i <= Len(a) THEN a[i] ELSE r[i - Len(a)]
  BY ConcatProperties DEF Path
<1>6. \A i \in 1..(Len(a) + Len(t)) : /\ i \in 1..(Len(a) + Len(r))
                                      /\ ~(i <= Len(a)) => i - Len(a) \in 1..Len(t)
  BY <1>1, <1>2
<1>7. \A i \in 1..(Len(a) + Len(t)) : (a \o t)[i] = (a \o r)[i]
  BY <1>2, <1>4, <1>5, <1>6
<1>8. Len(a \o t) <= Len(a \o r)
  BY <1>1, <1>2, <1>3
<1> QED BY <1>3, <1>7, <1>8, PrefixAt

LEMMA RestBack ==
    ASSUME NEW a \in Path, NEW x \in Path, IsPrefix(a, x)
    PROVE  (x = a /\ Rest(a, x) = Root) \/ x = a \o Rest(a, x)
<1>1. Len(a) \in Nat /\ Len(x) \in Nat /\ Len(a) <= Len(x)
  BY PathFacts, PrefixAt
<1>2. SubSeq(a, 1, Len(a)) = a /\ SubSeq(x, 1, Len(x)) = x
  BY SubSeqFull DEF Path
<1>3. SubSeq(x, 1, Len(a)) = a
  BY <1>2 DEF IsPrefix
<1>4. CASE Len(a) = Len(x)
  BY <1>2, <1>3, <1>4 DEF Rest
<1>5. CASE Len(a) # Len(x)
  <2>1. SubSeq(x, 1, Len(a)) \o SubSeq(x, Len(a) + 1, Len(x)) = SubSeq(x, 1, Len(x))
    <3>1. 1 \in 1..(Len(x) + 1) /\ Len(a) \in (1 - 1)..Len(x) /\ Len(x) \in Len(a)..Len(x)
      BY <1>1
    <3> QED BY <3>1, ConcatAdjacentSubSeq DEF Path
  <2> QED BY <1>2, <1>3, <1>5, <2>1 DEF Rest
<1> QED BY <1>4, <1>5

(* The rest behind a prefix is what was put behind it.                     *)
LEMMA RestConcat ==
    ASSUME NEW p \in Path, NEW q \in SomePath
    PROVE  IsPrefix(p, p \o q) /\ Rest(p, p \o q) = q
<1>1. q \in Path /\ Len(p) \in Nat /\ Len(q) \in Nat /\ Len(q) >= 1
  BY PathFacts DEF SomePath
<1>2. Len(p \o q) = Len(p) + Len(q)
  BY <1>1, ConcatPath
<1>3. SubSeq(p, 1, Len(p)) = p
  BY SubSeqFull DEF Path
<1>4. SubSeq(p \o q, 1, Len(p)) = p /\ SubSeq(p \o q, Len(p) + 1, Len(p \o q)) = q
  BY <1>1, SubSeqConcat
<1> DEFINE c == p \o q
<1>5. Len(p) <= Len(c) /\ Len(p) # Len(c)
  BY <1>1, <1>2
<1>6. SubSeq(c, 1, Len(p)) = p /\ SubSeq(c, Len(p) + 1, Len(c)) = q
  BY <1>4
<1> HIDE DEF c
<1>7. IsPrefix(p, c) /\ Rest(p, c) = q
  BY <1>3, <1>5, <1>6, Zenon DEF IsPrefix, Rest
<1> QED BY <1>7 DEF c

(* A path is what Trim leaves of it, or that and a slash.                  *)
LEMMA TrimSlash ==
    ASSUME NEW q \in Path PROVE q = Trim(q) \/ q = Trim(q) \o Root
<1>1. CASE q # <<>> /\ Last(q) = ""
  <2>1. Len(q) \in Nat /\ Len(q) >= 1 /\ q \in Seq(STRING)
    BY <1>1, PathFacts DEF Path
  <2> DEFINE n == Len(q)
  <2>2. n \in 1..Len(q) /\ 1 \in 1..Len(q)
    BY <2>1
  <2>3. SubSeq(q, 1, n) = SubSeq(q, 1, n - 1) \o <<q[n]>> /\ SubSeq(q, 1, n) = q
    <3>1. SubSeq(q, 1, n) = q
      BY <2>1, SubSeqFull
    <3> HIDE DEF n
    <3> QED BY <2>1, <2>2, <3>1, SubSeqRecursiveSecond
  <2>4. Trim(q) = SubSeq(q, 1, n - 1) /\ q[n] = ""
    BY <1>1 DEF Trim, Front, Last
  <2> QED BY <2>3, <2>4 DEF Root
<1>2. CASE ~(q # <<>> /\ Last(q) = "")
  BY <1>2 DEF Trim
<1> QED BY <1>1, <1>2

LEMMA TrimRoot == Trim(Root) = <<>>
<1>1. Root # <<>> /\ Last(Root) = "" /\ Len(Root) = 1
  BY RootPath DEF SomePath
<1>2. SubSeq(Root, 1, 0) = <<>>
  BY SubSeqEmpty
<1> DEFINE n == Len(Root)
<1>3. Front(Root) = SubSeq(Root, 1, n - 1)
  BY DEF Front
<1>4. n = 1
  BY <1>1
<1> HIDE DEF n
<1>5. n - 1 = 0
  BY <1>4
<1> QED BY <1>1, <1>2, <1>3, <1>5 DEF Trim

LEMMA TrimPrefix ==
    ASSUME NEW q \in Path PROVE Trim(q) \in Path /\ IsPrefix(Trim(q), q)
<1>1. Trim(q) \in Path /\ Len(Trim(q)) \in Nat /\ Root \in SomePath
  BY TrimPath, RootPath
<1>2. IsPrefix(Trim(q), Trim(q))
  BY <1>1, PrefixAt
<1>3. IsPrefix(Trim(q), Trim(q) \o Root)
  BY <1>1, RestConcat
<1> QED BY <1>1, <1>2, <1>3, TrimSlash

LEMMA TrimBack == ASSUME NEW q \in Path PROVE Trim(q \o Root) = q
<1> DEFINE x == q \o Root
           n == Len(q)
<1>1. Root \in Path /\ Len(Root) = 1 /\ Root[1] = ""
  BY RootPath DEF SomePath, Root
<1>2. Len(x) = n + 1 /\ n \in Nat /\ x \in SomePath
  <2>1. Root \in Path /\ Root # <<>>
    BY RootPath DEF SomePath
  <2>2. x \in SomePath /\ Len(x) = n + Len(Root) /\ n \in Nat
    BY <2>1, ConcatPath, PathFacts
  <2> QED BY <1>1, <2>2
<1>3. x[n + 1] = ""
  <2>1. 1 \in 1..1
    OBVIOUS
  <2> QED BY <1>1, <2>1, ConcatAt
<1>4. SubSeq(x, 1, n) = q
  BY <1>1, SubSeqConcat
<1> HIDE DEF x, n
<1>5. Last(x) = "" /\ x # <<>>
  BY <1>2, <1>3 DEF Last, SomePath
<1>6. Front(x) = SubSeq(x, 1, n)
  <2>1. Len(x) - 1 = n
    BY <1>2
  <2> QED BY <2>1 DEF Front
<1> QED BY <1>4, <1>5, <1>6 DEF Trim, x

(* The segments of a concatenation are those of its parts.                 *)
LEMMA SegsConcat ==
    ASSUME NEW a \in Path, NEW b \in Path PROVE Segs(a \o b) = Segs(a) \o Segs(b)
<1> DEFINE c == a \o b
           f == CHOOSE x : Keeps(a, x)
           g == CHOOSE x : Keeps(b, x)
           h == CHOOSE x : Keeps(c, x)
<1>1. c \in Path /\ Len(c) = Len(a) + Len(b) /\ Len(a) \in Nat /\ Len(b) \in Nat
  BY ConcatPath, PathFacts
<1>2. /\ \A i \in 1..Len(a) : c[i] = a[i]
      /\ \A j \in 1..Len(b) : c[Len(a) + j] = b[j]
  BY <1>1, ConcatProperties DEF Path
<1>3. Keeps(a, f) /\ Keeps(b, g) /\ Keeps(c, h)
  BY <1>1, KeepsExists
<1> HIDE DEF c, f, g, h
<1>4. /\ f[0] = <<>> /\ g[0] = <<>> /\ h[0] = <<>>
      /\ \A i \in 1..Len(a) : f[i] = IF a[i] = "" THEN f[i - 1] ELSE Append(f[i - 1], a[i])
      /\ \A i \in 1..Len(b) : g[i] = IF b[i] = "" THEN g[i - 1] ELSE Append(g[i - 1], b[i])
      /\ \A i \in 1..Len(c) : h[i] = IF c[i] = "" THEN h[i - 1] ELSE Append(h[i - 1], c[i])
  BY <1>1, <1>3, KeepsFacts
<1>5. h[Len(a)] = f[Len(a)]
  <2> DEFINE S == {i \in Nat : i <= Len(a) => h[i] = f[i]}
  <2>1. 0 \in S
    BY <1>4
  <2>2. ASSUME NEW i \in Nat, i \in S PROVE i + 1 \in S
    <3> SUFFICES ASSUME i + 1 <= Len(a) PROVE h[i + 1] = f[i + 1]
      OBVIOUS
    <3>1. i + 1 \in 1..Len(a) /\ i + 1 \in 1..Len(c) /\ (i + 1) - 1 = i /\ h[i] = f[i]
      BY <1>1, <2>2
    <3>2. c[i + 1] = a[i + 1]
      BY <1>2, <3>1
    <3> QED BY <1>4, <3>1, <3>2
  <2>3. Len(a) \in S
    <3> HIDE DEF S
    <3> QED BY <1>1, <2>1, <2>2, SetInduction
  <2> QED BY <1>1, <2>3
<1>6. h[Len(a) + Len(b)] = f[Len(a)] \o g[Len(b)]
  <2> DEFINE k == [j \in Nat |-> h[Len(a) + j]]
             x == f[Len(a)]
             S == {j \in Nat : j <= Len(b) => k[j] = x \o g[j]}
  <2>1. x \in Seq(STRING) /\ \A j \in 0..Len(b) : g[j] \in Seq(STRING)
    <3>1. Len(a) \in 0..Len(a)
      BY <1>1
    <3> QED BY <1>3, <3>1, KeepsTyped DEF Path
  <2>2. k[0] = x /\ k[Len(b)] = h[Len(a) + Len(b)]
    BY <1>1, <1>5
  <2>3. \A j \in 0..(Len(b) - 1) : k[j + 1] = IF b[j + 1] = "" THEN k[j] ELSE Append(k[j], b[j + 1])
    <3> SUFFICES ASSUME NEW j \in 0..(Len(b) - 1)
                 PROVE  k[j + 1] = IF b[j + 1] = "" THEN k[j] ELSE Append(k[j], b[j + 1])
      OBVIOUS
    <3> DEFINE i == Len(a) + (j + 1)
    <3>1. /\ j + 1 \in 1..Len(b) /\ j \in Nat /\ j + 1 \in Nat
          /\ i \in 1..Len(c) /\ i - 1 = Len(a) + j
      BY <1>1
    <3>2. c[i] = b[j + 1]
      BY <1>2, <3>1
    <3>3. k[j + 1] = h[i] /\ k[j] = h[i - 1]
      BY <3>1
    <3> HIDE DEF i, k
    <3> QED BY <1>4, <3>1, <3>2, <3>3
  <2> HIDE DEF k, x
  <2>4. 0 \in S
    <3>1. x \o <<>> = x
      BY <2>1, ConcatEmptySeq
    <3> QED BY <1>4, <2>2, <3>1
  <2>5. ASSUME NEW j \in Nat, j \in S PROVE j + 1 \in S
    <3> SUFFICES ASSUME j + 1 <= Len(b) PROVE k[j + 1] = x \o g[j + 1]
      OBVIOUS
    <3>1. /\ j + 1 \in 1..Len(b) /\ (j + 1) - 1 = j /\ j \in 0..Len(b) /\ j \in 0..(Len(b) - 1)
          /\ k[j] = x \o g[j]
      BY <1>1, <2>5
    <3> DEFINE y == g[j]
               e == b[j + 1]
    <3>2. k[j + 1] = IF e = "" THEN k[j] ELSE Append(k[j], e)
      BY <2>3, <3>1
    <3>3. g[j + 1] = IF e = "" THEN y ELSE Append(y, e)
      BY <1>4, <3>1
    <3>4. y \in Seq(STRING) /\ e \in STRING
      BY <2>1, <3>1, PathFacts
    <3>5. k[j] = x \o y
      BY <3>1
    <3> HIDE DEF y, e
    <3>6. x \o y \in Seq(STRING) /\ <<e>> \in Seq(STRING)
      BY <2>1, <3>4, ConcatProperties, OneSegment DEF SomePath, Path
    <3>7. Append(x \o y, e) = (x \o y) \o <<e>> /\ Append(y, e) = y \o <<e>>
      BY <3>4, <3>6, AppendIsConcat
    <3>8. (x \o y) \o <<e>> = x \o (y \o <<e>>)
      BY <2>1, <3>4, <3>6, ConcatAssociative
    <3> QED BY <3>2, <3>3, <3>5, <3>7, <3>8
  <2>6. Len(b) \in S
    <3> HIDE DEF S
    <3> QED BY <1>1, <2>4, <2>5, SetInduction
  <2>7. k[Len(b)] = x \o g[Len(b)]
    BY <1>1, <2>6
  <2> HIDE DEF S
  <2> QED BY <2>2, <2>7 DEF x
<1>7. Segs(a) = f[Len(a)] /\ Segs(b) = g[Len(b)]
  BY DEF Segs, f, g
<1>8. Segs(a \o b) = h[Len(a) + Len(b)]
  BY <1>1 DEF Segs, h, c
<1> QED BY <1>6, <1>7, <1>8

(* All of such a path is kept, and nothing of no segments.                 *)
LEMMA SegsWhole == ASSUME NEW p, Whole(p) PROVE Segs(p) = p
<1> DEFINE f == CHOOSE x : Keeps(p, x)
           S == {i \in Nat : i <= Len(p) => f[i] = SubSeq(p, 1, i)}
<1>1. p \in Path /\ p \in Seq(STRING) /\ Len(p) \in Nat
  BY PathFacts DEF Whole, SomePath, Path
<1>2. Keeps(p, f)
  BY <1>1, KeepsExists
<1> HIDE DEF f
<1>3. f[0] = <<>> /\ \A i \in 1..Len(p) : f[i] = Append(f[i - 1], p[i])
  BY <1>1, <1>2, KeepsFacts DEF Whole
<1>4. 0 \in S
  <2>1. SubSeq(p, 1, 0) = <<>>
    BY SubSeqEmpty
  <2> QED BY <1>3, <2>1
<1>5. ASSUME NEW i \in Nat, i \in S PROVE i + 1 \in S
  <2> SUFFICES ASSUME i + 1 <= Len(p) PROVE f[i + 1] = SubSeq(p, 1, i + 1)
    OBVIOUS
  <2>1. i + 1 \in 1..Len(p) /\ (i + 1) - 1 = i /\ f[i] = SubSeq(p, 1, i)
    BY <1>1, <1>5
  <2>2. SubSeq(p, 1, i + 1) = SubSeq(p, 1, i) \o <<p[i + 1]>>
    <3>1. 1 \in 1..Len(p) /\ i + 1 \in 1..Len(p)
      BY <2>1
    <3> QED BY <1>1, <2>1, <3>1, SubSeqRecursiveSecond
  <2>3. f[i] \in Path /\ p[i + 1] \in STRING
    <3>1. i \in 0..Len(p)
      BY <2>1
    <3> QED BY <1>1, <1>2, <2>1, <3>1, KeepsTyped, PathFacts
  <2>4. Append(f[i], p[i + 1]) = f[i] \o <<p[i + 1]>>
    BY <2>3, AppendIsConcat DEF Path
  <2> QED BY <1>3, <2>1, <2>2, <2>4
<1>6. Len(p) \in S
  <2> HIDE DEF S
  <2> QED BY <1>1, <1>4, <1>5, SetInduction
<1>7. f[Len(p)] = p
  BY <1>1, <1>6, SubSeqFull
<1> QED BY <1>7 DEF Segs, f

LEMMA SegsEmpty == Segs(<<>>) = <<>> /\ Segs(Root) = <<>>
<1>1. <<>> \in Path /\ Root \in Path /\ Len(<<>>) = 0 /\ Len(Root) = 1 /\ Root[1] = ""
  BY EmptySeq, RootPath DEF Path, SomePath, Root
<1>2. ASSUME NEW p \in Path PROVE Keeps(p, CHOOSE f : Keeps(p, f))
  BY KeepsExists
<1> DEFINE f == CHOOSE x : Keeps(<<>>, x)
           g == CHOOSE x : Keeps(Root, x)
<1>3. Keeps(<<>>, f) /\ Keeps(Root, g)
  BY <1>1, <1>2
<1> HIDE DEF f, g
<1>4. f[0] = <<>> /\ g[0] = <<>>
  BY <1>1, <1>3, KeepsFacts
<1>5. 1 \in 1..Len(Root) /\ 1 - 1 = 0
  <2>1. Len(Root) = 1
    BY <1>1
  <2> HIDE DEF f, g
  <2> QED BY <2>1, SMT
<1>6. g[1] = g[0]
  BY <1>1, <1>3, <1>5, KeepsFacts
<1> QED BY <1>1, <1>4, <1>6 DEF Segs, f, g

(* What is kept of a path that is whole but for a final slash.             *)
LEMMA SegsTrim ==
    ASSUME NEW p \in Path, Trim(p) = <<>> \/ Whole(Trim(p)) PROVE Segs(p) = Trim(p)
<1>1. Trim(p) \in Path /\ Segs(Trim(p)) = Trim(p)
  BY TrimPath, SegsEmpty, SegsWhole
<1>2. CASE p = Trim(p) \o Root
  <2>1. Segs(Trim(p) \o Root) = Segs(Trim(p)) \o Segs(Root)
    BY <1>1, RootPath, SegsConcat DEF SomePath
  <2> QED BY <1>1, <1>2, <2>1, SegsEmpty, ConcatEmptySeq DEF Path
<1> QED BY <1>1, <1>2, TrimSlash

-----------------------------------------------------------------------------
(* Redirects: a backend's own paths in a Location header and back.         *)

(* A backend path has no empty segments but a last one, if there is one.   *)
LEMMA BaseFacts ==
    ASSUME NEW backend \in Path, backend # Root, Whole(Trim(backend))
    PROVE  /\ backend \in SomePath /\ Base(backend) \in Path
           /\ Base(backend) = <<>> \/ Whole(Base(backend))
           /\ Segs(backend) = Trim(backend)
           /\ ~FileLike(backend) => Base(backend) = Trim(backend)
           /\ FileLike(backend) => Base(backend) = Front(backend) /\ Trim(backend) = backend
           /\ Segs(IF FileLike(backend) THEN Front(backend) ELSE backend) = Base(backend)
<1>1. backend # <<>> /\ backend \in SomePath
  BY WholeFacts DEF Trim, SomePath
<1>2. Segs(backend) = Trim(backend) /\ Trim(backend) \in Path
  BY SegsTrim, TrimPath
<1>3. CASE FileLike(backend)
  <2>1. Last(backend) # "" /\ Trim(backend) = backend
    BY <1>3, ServicesAssumption DEF FileLike, Trim
  <2>2. Front(backend) \in Path /\ (Front(backend) = <<>> \/ Whole(Front(backend)))
    <3>1. Front(backend) \in Path /\ Len(Front(backend)) = Len(backend) - 1
      BY <1>1, FrontPath
    <3>2. Len(backend) \in Nat /\ Len(backend) >= 1
      BY <1>1, PathFacts DEF SomePath
    <3> DEFINE n == Len(backend) - 1
    <3>3. Front(backend) = SubSeq(backend, 1, n) /\ n \in Nat /\ \A i \in 1..n : i \in 1..Len(backend)
      BY <3>2 DEF Front
    <3>4. \A i \in 1..n : backend[i] \in STRING /\ backend[i] # ""
      BY <2>1, <3>3, PathFacts DEF Whole
    <3>5. \A i \in 1..(n - 1 + 1) : SubSeq(backend, 1, n)[i] = backend[1 + i - 1]
      <4> HIDE DEF n
      <4>1. n \in Int /\ 1 \in Int
        BY <3>3
      <4>2. \A i \in 1..n : backend[i] \in STRING
        BY <3>4
      <4> QED BY <4>1, <4>2, SubSeqProperties
    <3>6. \A i \in 1..n : SubSeq(backend, 1, n)[i] = backend[i]
      <4>1. \A i \in 1..n : i \in 1..(n - 1 + 1) /\ 1 + i - 1 = i
        BY <3>3
      <4> HIDE DEF n
      <4> QED BY <3>5, <4>1
    <3>7. Len(Front(backend)) = n
      BY <3>1
    <3> HIDE DEF n
    <3> QED BY <3>1, <3>3, <3>4, <3>6, <3>7 DEF Whole, SomePath
  <2>3. Segs(Front(backend)) = Front(backend)
    BY <2>2, SegsEmpty, SegsWhole
  <2> QED BY <1>1, <1>2, <1>3, <2>1, <2>2, <2>3 DEF Base
<1>4. CASE ~FileLike(backend)
  BY <1>1, <1>2, <1>4 DEF Base
<1> QED BY <1>3, <1>4

(* Where a request other than for the service's root goes.                 *)
LEMMA JoinBase ==
    ASSUME NEW backend \in Path, backend # Root, Whole(Trim(backend)),
           NEW rest \in SomePath, rest # Root, Whole(Trim(rest))
    PROVE  joinBackendPath(backend, rest) = Base(backend) \o Trim(rest)
<1> DEFINE dir == IF FileLike(backend) THEN Front(backend) ELSE backend
<1>1. backend \in SomePath /\ Segs(dir) = Base(backend) /\ rest \in Path
  BY BaseFacts DEF SomePath
<1>2. dir \in Path
  BY <1>1, FrontPath
<1>3. joinBackendPath(backend, rest) = Clean(dir \o rest)
  BY <1>1, Zenon DEF joinBackendPath, SomePath
<1> HIDE DEF dir
<1>4. dir \o rest \in Path /\ Segs(dir \o rest) = Base(backend) \o Trim(rest)
  BY <1>1, <1>2, ConcatPath, SegsConcat, SegsTrim
<1>5. Base(backend) \o Trim(rest) # <<>>
  BY BaseFacts, ConcatWhole, WholeFacts
<1> QED BY <1>3, <1>4, <1>5, CleanSegs

LEMMA JoinRoot ==
    ASSUME NEW backend \in Path, backend # Root, Whole(Trim(backend))
    PROVE  joinBackendPath(backend, Root) = Trim(backend)
<1>1. backend # <<>> /\ Segs(backend) = Trim(backend)
  BY BaseFacts DEF SomePath
<1>2. joinBackendPath(backend, Root) = Clean(backend)
  BY <1>1 DEF joinBackendPath
<1> QED BY <1>1, <1>2, CleanSegs, WholeFacts

(* The backend's path for a request, with its backend_path taken off: the  *)
(* service's root, or what was asked for without a final slash.            *)
LEMMA StripJoined ==
    ASSUME NEW backend \in Path, backend # Root, Whole(Trim(backend)),
           NEW rest \in SomePath, rest = Root \/ Whole(Trim(rest)),
           NEW at, at = joinBackendPath(backend, rest)
    PROVE  \/ stripBackendPath(at, backend) = Root /\ at = Trim(backend)
           \/ rest # Root /\ stripBackendPath(at, backend) = Trim(rest)
<1> DEFINE base == Base(backend)
<1>1. /\ backend \in SomePath /\ backend # <<>> /\ base \in Path /\ (base = <<>> \/ Whole(base))
      /\ (~FileLike(backend) => base = Trim(backend))
      /\ (FileLike(backend) => Trim(backend) = backend)
  BY BaseFacts DEF SomePath
<1>2. stripBackendPath(at, backend) =
        IF at = backend THEN Root
        ELSE IF base # <<>> /\ IsPrefix(base, at) THEN Rest(base, at) ELSE at
  BY <1>1 DEF stripBackendPath, Base
<1>3. CASE at = backend
  <2>1. rest # Root => at = base \o Trim(rest)
    BY JoinBase
  <2>2. rest = Root => at = Trim(backend)
    BY JoinRoot
  <2>3. Whole(at)
    BY <1>1, <2>1, <2>2, ConcatWhole
  <2> QED BY <1>2, <1>3, <2>3, WholeFacts
<1>4. CASE at # backend /\ rest = Root
  <2>1. at = Trim(backend)
    BY <1>4, JoinRoot
  <2>2. ~FileLike(backend) /\ base = at /\ at # <<>> /\ at \in Path
    BY <1>1, <1>4, <2>1, WholeFacts
  <2>3. IsPrefix(at, at) /\ Rest(at, at) = Root
    BY <2>2, PathFacts DEF IsPrefix, Rest
  <2> QED BY <1>2, <1>4, <2>1, <2>2, <2>3
<1>5. CASE at # backend /\ rest # Root
  <2> DEFINE q == Trim(rest)
  <2>1. at = base \o q /\ q \in SomePath
    BY <1>5, JoinBase, WholeFacts
  <2> HIDE DEF q, base
  <2>2. CASE base # <<>>
    <3>1. IsPrefix(base, at) /\ Rest(base, at) = q
      BY <1>1, <2>1, RestConcat
    <3> QED BY <1>2, <1>5, <2>2, <3>1 DEF q
  <2>3. CASE base = <<>>
    <3>1. at = q
      BY <2>1, <2>3, ConcatEmptySeq DEF SomePath, Path
    <3> QED BY <1>2, <1>5, <2>3, <3>1 DEF q
  <2> QED BY <2>2, <2>3
<1> QED BY <1>3, <1>4, <1>5

(* A backend's redirect to the very path that it was asked for, with its   *)
(* backend_path taken off, leads back to that path: joinBackendPath adds   *)
(* what stripBackendPath takes, for a directory, a file and neither.       *)
THEOREM StrippedComesBack ==
    ASSUME NEW backend \in Path, backend \in {<<>>, Root} \/ Whole(Trim(backend)),
           NEW rest \in SomePath, rest = Root \/ Whole(Trim(rest)),
           NEW at, at = joinBackendPath(backend, rest)
    PROVE  joinBackendPath(backend, stripBackendPath(at, backend)) = at
<1>1. CASE backend \in {<<>>, Root}
  BY <1>1 DEF joinBackendPath, stripBackendPath
<1>2. CASE backend # Root /\ Whole(Trim(backend))
  <2>1. CASE stripBackendPath(at, backend) = Root /\ at = Trim(backend)
    BY <1>2, <2>1, JoinRoot
  <2>2. CASE rest # Root /\ stripBackendPath(at, backend) = Trim(rest)
    <3>1. at = Base(backend) \o Trim(rest)
      BY <1>2, <2>2, JoinBase
    <3>2. /\ Whole(Trim(rest)) /\ Trim(rest) \in SomePath /\ Trim(rest) # Root
          /\ Trim(Trim(rest)) = Trim(rest)
      BY <2>2, WholeFacts
    <3>3. joinBackendPath(backend, Trim(rest)) = Base(backend) \o Trim(rest)
      BY <1>2, <3>2, JoinBase
    <3> QED BY <2>2, <3>1, <3>3
  <2> QED BY <1>2, <2>1, <2>2, StripJoined
<1> QED BY <1>1, <1>2

(* A service that is longest among the candidates and whose path is its    *)
(* own is the one that is chosen.                                          *)
LEMMA LongestOnly ==
    ASSUME NEW S, NEW m \in S,
           \A n \in S : Weight(n.service.path) <= Weight(m.service.path),
           \A n \in S : Weight(n.service.path) \in Nat,
           \A n \in S : Weight(n.service.path) = Weight(m.service.path) => n = m
    PROVE  Longest(S) = m
<1> DEFINE longest == {x \in S : \A n \in S : Weight(n.service.path) <= Weight(x.service.path)}
<1>1. Longest(S) = IF longest = {} THEN None ELSE CHOOSE x \in longest : TRUE
  BY Zenon DEF Longest
<1>2. m \in longest
  OBVIOUS
<1>3. ASSUME NEW x \in longest PROVE x = m
  <2>1. x \in S /\ Weight(m.service.path) <= Weight(x.service.path)
    OBVIOUS
  <2>2. Weight(x.service.path) <= Weight(m.service.path)
    BY <2>1
  <2>3. Weight(x.service.path) \in Nat /\ Weight(m.service.path) \in Nat
    BY <2>1
  <2>4. Weight(x.service.path) = Weight(m.service.path)
    BY <2>1, <2>2, <2>3
  <2> QED BY <2>1, <2>4
<1> HIDE DEF longest
<1> QED BY <1>1, <1>2, <1>3

LEMMA LongestMost ==
    ASSUME NEW S, Longest(S) # None
    PROVE  /\ Longest(S) \in S
           /\ \A n \in S : Weight(n.service.path) <= Weight(Longest(S).service.path)
<1> DEFINE longest == {x \in S : \A n \in S : Weight(n.service.path) <= Weight(x.service.path)}
<1>1. Longest(S) = IF longest = {} THEN None ELSE CHOOSE x \in longest : TRUE
  BY Zenon DEF Longest
<1>2. Longest(S) \in longest
  <2> HIDE DEF longest
  <2> QED BY <1>1
<1> HIDE DEF Longest
<1> QED BY <1>2

(* The weight of a service path tells its length.                          *)
LEMMA ServiceWeight ==
    ASSUME NEW p, p = Root \/ Whole(p)
    PROVE  Weight(p) \in Nat /\ Weight(p) = IF p = Root THEN 0 ELSE 2 * Len(p) + 1
<1>1. CASE p = Root
  <2>1. Trim(Root) = <<>> /\ Root # <<>>
    BY TrimRoot, RootPath DEF SomePath
  <2>2. Len(<<>>) = 0
    OBVIOUS
  <2>3. Weight(Root) = 2 * 0 + 0
    BY <2>1, <2>2 DEF Weight
  <2> QED BY <1>1, <2>3
<1>2. CASE Whole(p)
  <2>1. Trim(p) = p /\ p # Root /\ Len(p) \in Nat
    BY <1>2, WholeFacts, PathFacts
  <2>2. Weight(p) = 2 * Len(p) + 1
    BY <2>1 DEF Weight
  <2> QED BY <2>1, <2>2
<1> QED BY <1>1, <1>2

(* What a match of FindService is, and that it is a longest one.           *)
LEMMA FoundLongest ==
    ASSUME NEW conf \in Lookup, NEW p \in Path, NEW m, m = FindService(conf, p), m # None,
           NEW inside, inside = SubSeq(p, 3, Len(p))
    PROVE  /\ m.user = UsernameFromProxyPath(p) /\ m.user \in Users /\ ~m.legacy
           /\ m = [user |-> m.user, service |-> m.service, legacy |-> FALSE, rest |-> m.rest]
           /\ m.service \in conf[m.user].services
           /\ m.service.path # Root =>
                IsPrefix(m.service.path, inside) /\ m.rest = Rest(m.service.path, inside)
           /\ \A c \in conf[m.user].services :
                c.path = Root \/ IsPrefix(c.path, inside) => Weight(c.path) <= Weight(m.service.path)
<1> DEFINE user == UsernameFromProxyPath(p)
           found(s) == [user |-> user, service |-> s, legacy |-> FALSE,
                        rest |-> IF s.path = Root THEN inside ELSE Rest(s.path, inside)]
           S == {found(s) : s \in {x \in conf[user].services : x.path = Root \/ IsPrefix(x.path, inside)}}
<1>1. user \in Users /\ m = Longest(S)
  BY Zenon DEF FindService
<1>2. m \in S /\ \A n \in S : Weight(n.service.path) <= Weight(m.service.path)
  <2> HIDE DEF S
  <2> QED BY <1>1, LongestMost
<1>3. PICK s \in conf[user].services : (s.path = Root \/ IsPrefix(s.path, inside)) /\ m = found(s)
  BY <1>2
<1>4. /\ m.user = user /\ m.service = s /\ ~m.legacy
      /\ m = [user |-> m.user, service |-> m.service, legacy |-> FALSE, rest |-> m.rest]
      /\ s.path # Root => m.rest = Rest(s.path, inside)
  BY <1>3
<1>5. ASSUME NEW c \in conf[user].services, c.path = Root \/ IsPrefix(c.path, inside)
      PROVE  Weight(c.path) <= Weight(m.service.path)
  <2>1. found(c) \in S /\ found(c).service = c
    BY <1>5
  <2> HIDE DEF found, S
  <2> QED BY <1>2, <2>1
<1> HIDE DEF user, found, S
<1>6. m.user \in Users /\ m.user = UsernameFromProxyPath(p)
  BY <1>1, <1>4 DEF user
<1> QED BY <1>3, <1>4, <1>5, <1>6

(* A path behind the prefix of a match.                                    *)
LEMMA BehindPrefix ==
    ASSUME NEW m \in Match, ~m.legacy, NEW q \in SomePath
    PROVE  LET url == Prefix(m) \o q
           IN  /\ url \in Path /\ UsernameFromProxyPath(url) = m.user
               /\ SubSeq(url, 3, Len(url)) = m.service.path \o q
<1> DEFINE head == <<"proxy", m.user>>
           s == m.service.path
           url == head \o (s \o q)
<1>1. m.user \in STRING /\ m.user # "" /\ s \in SomePath /\ s \in Path /\ q \in Path
  BY ServicesAssumption, ServicePaths DEF Match, SomePath
<1>2. head \in SomePath /\ head \in Path
  BY <1>1, TwoSegments, SegmentsAssumption DEF SomePath
<1>3. Len(head) = 2 /\ head[1] = "proxy" /\ head[2] = m.user
  OBVIOUS
<1> HIDE DEF head, s
<1>4. Prefix(m) \o q = url
  <2>1. Prefix(m) = head \o s
    BY DEF Prefix, head, s
  <2>2. (head \o s) \o q = head \o (s \o q)
    BY <1>1, <1>2, Associative
  <2> QED BY <2>1, <2>2
<1>5. s \o q \in Path /\ Len(s \o q) \in Nat /\ Len(s \o q) >= 1
  BY <1>1, ConcatPath, PathFacts DEF SomePath
<1>6. url \in Path /\ Len(url) = 2 + Len(s \o q)
  BY <1>2, <1>3, <1>5, ConcatPath
<1>7. url[1] = "proxy" /\ url[2] = m.user
  <2>1. 1 \in 1..2 /\ 2 \in 1..2
    OBVIOUS
  <2> QED BY <1>2, <1>3, <1>5, <2>1, ConcatAt
<1>8. SubSeq(url, 3, Len(url)) = s \o q
  <2>1. SubSeq(url, Len(head) + 1, Len(url)) = s \o q
    BY <1>2, <1>5, SubSeqConcat
  <2>2. Len(head) + 1 = 3
    BY <1>3
  <2> QED BY <2>1, <2>2
<1> HIDE DEF url
<1>9. UsernameFromProxyPath(url) = m.user
  <2>1. Len(url) >= 3
    BY <1>5, <1>6
  <2> QED BY <1>1, <1>7, <2>1 DEF UsernameFromProxyPath
<1> QED BY <1>4, <1>6, <1>8, <1>9 DEF s

(* A page of a service, and a path behind the service's prefix that goes   *)
(* no further than the page's: both are of that service, since a service   *)
(* that comes before it for the one does for the other.                    *)
LEMMA SamePage ==
    ASSUME NEW conf \in Lookup, NEW p \in Path, NEW m, m = FindService(conf, p), m # None,
           Orderly(conf[m.user].services), m.service.path # Root,
           NEW q \in SomePath, q = Root \/ (m.rest # Root /\ IsPrefix(Trim(q), m.rest))
    PROVE  LET back == FindService(conf, Prefix(m) \o q)
           IN  back.user = m.user /\ back.service = m.service /\ back.rest = q
<1> DEFINE user == m.user
           s == m.service
           inside == SubSeq(p, 3, Len(p))
           url == Prefix(m) \o q
           there == s.path \o q
           found(x) == [user |-> user, service |-> x, legacy |-> FALSE,
                        rest |-> IF x.path = Root THEN there ELSE Rest(x.path, there)]
           S == {found(x) : x \in {y \in conf[user].services : y.path = Root \/ IsPrefix(y.path, there)}}
<1>1. /\ user = UsernameFromProxyPath(p) /\ user \in Users /\ ~m.legacy
      /\ s \in conf[user].services
      /\ s.path # Root => IsPrefix(s.path, inside) /\ m.rest = Rest(s.path, inside)
      /\ \A c \in conf[user].services :
           c.path = Root \/ IsPrefix(c.path, inside) => Weight(c.path) <= Weight(s.path)
  <2> HIDE DEF found, S, url, there, inside
  <2>1. inside = SubSeq(p, 3, Len(p))
    BY DEF inside
  <2> QED BY <2>1, FoundLongest
<1>2. m \in Match
  BY FindServiceFound DEF Found
<1>3. /\ url \in Path /\ UsernameFromProxyPath(url) = user
      /\ SubSeq(url, 3, Len(url)) = there
  BY <1>1, <1>2, BehindPrefix
<1>4. FindService(conf, url) = Longest(S)
  <2> DEFINE of(u, rest) ==
               Longest({[user |-> u, service |-> x, legacy |-> FALSE,
                         rest |-> IF x.path = Root THEN rest ELSE Rest(x.path, rest)] :
                           x \in {y \in conf[u].services : y.path = Root \/ IsPrefix(y.path, rest)}})
  <2>1. FindService(conf, url) = IF UsernameFromProxyPath(url) \notin Users THEN None
                                 ELSE of(UsernameFromProxyPath(url), SubSeq(url, 3, Len(url)))
    BY Zenon DEF FindService
  <2>2. Longest(S) = of(user, there)
    OBVIOUS
  <2> HIDE DEF of, user, there, url, S
  <2> QED BY <1>1, <1>3, <2>1, <2>2
<1>5. /\ s.path \in Path /\ Whole(s.path) /\ q \in Path /\ Trim(q) \in Path /\ inside \in Path
      /\ \A c \in conf[user].services : c.path \in Path /\ (c.path = Root \/ Whole(c.path))
  <2>1. \A c \in conf[user].services : c.path \in Path /\ (c.path = Root \/ Whole(c.path))
    BY <1>1, AccountFacts, ServicePaths DEF Orderly, SomePath
  <2>2. Len(p) \in Nat /\ Len(p) >= 3
    BY <1>1, PathFacts, ServicesAssumption DEF UsernameFromProxyPath
  <2>3. inside \in Path
    BY <2>2, SuffixPath DEF SomePath
  <2> QED BY <1>1, <2>1, <2>3, TrimPath DEF SomePath
<1> HIDE DEF user, s, inside, there, url
<1>6. IsPrefix(s.path \o Trim(q), inside)
  <2>1. (inside = s.path /\ m.rest = Root) \/ inside = s.path \o m.rest
    BY <1>1, <1>5, RestBack DEF s
  <2>2. CASE q = Root
    <3>1. Trim(q) = <<>>
      BY <2>2, TrimRoot
    <3>2. s.path \o Trim(q) = s.path
      BY <1>5, <3>1, ConcatEmptySeq DEF Path
    <3> QED BY <1>1, <3>2 DEF s
  <2>3. CASE q # Root
    <3>1. m.rest # Root /\ IsPrefix(Trim(q), m.rest)
      BY <2>3
    <3>2. m.rest \in Path
      BY <1>2 DEF Match
    <3> QED BY <1>5, <2>1, <3>1, <3>2, PrefixParts
  <2> QED BY <2>2, <2>3
<1>7. ASSUME NEW c \in conf[user].services, Whole(c.path), IsPrefix(c.path, there)
      PROVE  IsPrefix(c.path, inside)
  <2> DEFINE b == s.path \o Trim(q)
  <2>1. b \in Path /\ c.path \in Path
    BY <1>5, ConcatPath
  <2>2. there = b \/ there = b \o Root
    <3>1. q = Trim(q) \/ q = Trim(q) \o Root
      BY <1>5, TrimSlash
    <3>2. s.path \o (Trim(q) \o Root) = (s.path \o Trim(q)) \o Root
      <4> DEFINE a == s.path
                 t == Trim(q)
      <4>1. a \in Path /\ t \in Path /\ Root \in Path
        BY <1>5, RootPath DEF SomePath
      <4> HIDE DEF a, t
      <4>2. a \o (t \o Root) = (a \o t) \o Root
        BY <4>1, Associative
      <4> QED BY <4>2 DEF a, t
    <3> QED BY <3>1, <3>2 DEF there
  <2> HIDE DEF b
  <2>3. IsPrefix(c.path, b)
    BY <1>7, <2>1, <2>2, PrefixSlash
  <2>4. IsPrefix(b, inside)
    BY <1>6 DEF b
  <2> QED BY <1>5, <2>1, <2>3, <2>4, PrefixTrans
<1>8. ASSUME NEW c \in conf[user].services, c.path = Root \/ IsPrefix(c.path, there)
      PROVE  /\ Weight(c.path) \in Nat /\ Weight(c.path) <= Weight(s.path)
             /\ Weight(c.path) = Weight(s.path) => c = s
  <2>1. c.path = Root \/ (Whole(c.path) /\ IsPrefix(c.path, there))
    BY <1>5, <1>8
  <2>2. Weight(c.path) \in Nat /\ Weight(c.path) <= Weight(s.path)
    BY <1>1, <1>7, <2>1, ServiceWeight DEF user, s, inside
  <2>3. ASSUME Weight(c.path) = Weight(s.path) PROVE c = s
    <3>1. /\ Weight(c.path) = IF c.path = Root THEN 0 ELSE 2 * Len(c.path) + 1
          /\ Weight(s.path) = 2 * Len(s.path) + 1
      BY <1>5, <2>1, ServiceWeight, WholeFacts
    <3>2. Len(c.path) \in Nat /\ Len(s.path) \in Nat
      BY <1>5, PathFacts
    <3>3. c.path # Root /\ Len(c.path) = Len(s.path)
      <4> DEFINE i == Len(c.path)
                 j == Len(s.path)
      <4>1. i \in Nat /\ j \in Nat /\ (IF c.path = Root THEN 0 ELSE 2 * i + 1) = 2 * j + 1
        BY <2>3, <3>1, <3>2
      <4> HIDE DEF i, j
      <4>2. c.path # Root /\ i = j
        BY <4>1
      <4> QED BY <4>2 DEF i, j
    <3>4. IsPrefix(s.path, there)
      BY <1>5, RestConcat DEF there
    <3>5. there \in Path
      BY <1>5, ConcatPath DEF there
    <3>6. /\ \A i \in 1..Len(c.path) : c.path[i] = there[i]
          /\ \A i \in 1..Len(s.path) : s.path[i] = there[i]
      BY <1>5, <2>1, <3>3, <3>4, <3>5, PrefixAt
    <3>7. c.path = s.path
      BY <1>5, <3>3, <3>6, SeqEqual DEF Path
    <3>8. s \in conf[user].services
      BY <1>1 DEF user, s
    <3> QED BY <3>7, <3>8 DEF Orderly, user
  <2> QED BY <2>2, <2>3
<1>9. found(s) \in S /\ found(s).service = s
  <2>1. s \in conf[user].services /\ IsPrefix(s.path, there)
    BY <1>1, <1>5, RestConcat DEF user, s, there
  <2> QED BY <2>1
<1>10. ASSUME NEW n \in S
       PROVE  /\ Weight(n.service.path) \in Nat /\ Weight(n.service.path) <= Weight(s.path)
              /\ Weight(n.service.path) = Weight(s.path) => n = found(s)
  <2>1. PICK x \in conf[user].services : (x.path = Root \/ IsPrefix(x.path, there)) /\ n = found(x)
    BY <1>10
  <2>2. n.service = x
    BY <2>1
  <2> HIDE DEF found, S
  <2> QED BY <1>8, <2>1, <2>2
<1>11. found(s).user = user /\ found(s).service = s /\ found(s).rest = q
  <2>1. s.path # Root /\ Rest(s.path, there) = q
    BY <1>5, RestConcat, WholeFacts DEF there
  <2> QED BY <2>1
<1>12. Longest(S) = found(s)
  <2> HIDE DEF S, found
  <2> QED BY <1>9, <1>10, LongestOnly
<1> HIDE DEF S, found
<1> QED BY <1>4, <1>11, <1>12 DEF user, s, url

(* A backend's redirect to the page that it was asked for, or without a    *)
(* backend_path to that page with a slash at its end, brings the browser   *)
(* back to the same page of the same service: what rewriteLocation returns *)
(* is looked up as the page itself was, past every other service.  Not so  *)
(* for a service at "/", whose prefix ends in a slash, nor for a page of   *)
(* the backend's under /proxy/, which rewriteLocation leaves alone.        *)
THEOREM RedirectComesBack ==
    ASSUME NEW conf \in Lookup, NEW p \in Path, NEW m, m = FindService(conf, p), m # None,
           Orderly(conf[m.user].services), m.service.path # Root,
           NEW backend, backend = m.service.backend,
           backend \in {<<>>, Root} \/ Whole(Trim(backend)),
           m.rest = Root \/ Whole(Trim(m.rest)),
           NEW at, at = joinBackendPath(backend, m.rest),
           NEW to, to = at \/ (backend \in {<<>>, Root} /\ Last(at) # "" /\ to = at \o Root),
           ~UnderProxy(to),
           NEW back, back = FindService(conf, rewriteLocation(to, m, "prefix"))
    PROVE  /\ back.user = m.user /\ back.service = m.service
           /\ joinBackendPath(backend, back.rest) = to
<1> DEFINE q == stripBackendPath(to, backend)
<1>1. /\ m \in Match /\ m.rest \in SomePath /\ m.rest \in Path
      /\ backend \in Path
  <2>1. m \in Found
    BY FindServiceFound
  <2>2. m.service \in Services
    BY <2>1 DEF Found, Match
  <2> QED BY <2>1, <2>2, ServicePaths DEF Found, Match, SomePath
<1>2. rewriteLocation(to, m, "prefix") = Prefix(m) \o q
  BY Zenon DEF rewriteLocation, UnderProxy
<1>3. /\ q \in SomePath
      /\ q = Root \/ (m.rest # Root /\ IsPrefix(Trim(q), m.rest))
      /\ joinBackendPath(backend, q) = to
  <2>1. CASE backend \in {<<>>, Root}
    <3>1. at = m.rest /\ q = to /\ joinBackendPath(backend, q) = to
      BY <2>1 DEF joinBackendPath, stripBackendPath
    <3>2. CASE to = at
      BY <1>1, <3>1, <3>2, TrimPrefix
    <3>3. CASE Last(at) # "" /\ to = at \o Root
      <4> DEFINE rest == m.rest
      <4>1. rest \in Path /\ Root \in Path /\ Root # <<>> /\ q = rest \o Root
        BY <1>1, <3>1, <3>3, RootPath DEF SomePath
      <4> HIDE DEF rest, q
      <4>2. Trim(q) = rest /\ q \in SomePath
        BY <4>1, TrimBack, ConcatPath
      <4>3. IsPrefix(rest, rest)
        BY <4>1, PrefixSelf
      <4>4. rest # Root
        BY <3>1, <3>3, RootPath DEF rest
      <4> QED BY <3>1, <4>2, <4>3, <4>4 DEF rest
    <3> QED BY <3>2, <3>3
  <2>2. CASE backend \notin {<<>>, Root}
    <3>1. to = at /\ backend # Root /\ Whole(Trim(backend))
      BY <2>2
    <3>2. q = Root \/ (m.rest # Root /\ q = Trim(m.rest))
      BY <1>1, <3>1, StripJoined
    <3>3. joinBackendPath(backend, q) = to
      BY <1>1, <3>1, StrippedComesBack
    <3>4. CASE q = Root
      BY <3>3, <3>4, RootPath
    <3>5. CASE m.rest # Root /\ q = Trim(m.rest)
      <4>1. q \in SomePath /\ Trim(q) = q
        BY <3>5, WholeFacts
      <4>2. IsPrefix(Trim(q), m.rest)
        BY <1>1, <3>5, <4>1, TrimPrefix
      <4> QED BY <3>3, <3>5, <4>1, <4>2
    <3> QED BY <3>2, <3>4, <3>5
  <2> QED BY <2>1, <2>2
<1> HIDE DEF q
<1> DEFINE there == FindService(conf, Prefix(m) \o q)
<1>4. there.user = m.user /\ there.service = m.service /\ there.rest = q
  <2>1. /\ conf \in Lookup /\ p \in Path /\ m = FindService(conf, p) /\ m # None
        /\ Orderly(conf[m.user].services) /\ m.service.path # Root
        /\ q \in SomePath /\ (q = Root \/ (m.rest # Root /\ IsPrefix(Trim(q), m.rest)))
    BY <1>3
  <2> QED BY <2>1, SamePage, Zenon
<1>5. back = there
  BY <1>2
<1> HIDE DEF there
<1> QED BY <1>3, <1>4, <1>5

================================================================================
