---------------------------- MODULE Fat32Proofs ----------------------------
(* Theorems about the FAT32 file system, for every volume that meets the   *)
(* assumptions of Fat32 and every sequence of operations, failures, stops. *)
EXTENDS Fat32, FiniteSetTheorems, WellFoundedInduction, TLAPS

(* What the assumption says of the numbers.                                *)
LEMMA Numbers ==
  /\ Covered \in Nat /\ Covered >= 3
  /\ UNITS \in Nat /\ UNITS >= 2
  /\ Root \in Cluster /\ Cluster \subseteq Nat
  /\ FREE \notin Cluster /\ EOC \notin Cluster /\ FREE # EOC
<1>1. Covered \in Nat /\ UNITS \in Nat /\ UNITS >= 2
  BY Fat32Constants DEF Covered
<1>2. Cluster \subseteq Nat /\ FREE \notin Cluster /\ EOC \notin Cluster /\ FREE # EOC
  BY <1>1 DEF Cluster, FREE, EOC
<1>3. Root \in Cluster
  BY FilesAreCached
<1>4. Covered >= 3
  BY <1>1, <1>3 DEF Cluster
<1>5. QED
  BY <1>1, <1>2, <1>3, <1>4

(* A position lies in some cluster, at some place of it.                   *)
LEMMA Quotient ==
  ASSUME NEW p \in Nat
  PROVE  p \div UNITS \in Nat /\ (p % UNITS) \in 0 .. UNITS - 1
<1>1. UNITS \in Nat /\ UNITS >= 2
  BY Numbers
<1>2. QED
  BY <1>1

(* The least of some numbers is one of them and comes before the others.   *)
LEMMA MinOfSet ==
  ASSUME NEW S \in SUBSET Nat, S # {}
  PROVE  Min(S) \in S /\ \A s \in S : Min(S) <= s
<1> DEFINE less == {p \in Nat \X Nat : p[1] < p[2]}
<1>0. IsWellFoundedOn(less, Nat)
  BY NatLessThanWellFounded DEF OpToRel
<1> HIDE DEF less
<1>2. PICK x \in S : \A y \in S : ~ (<<y, x>> \in less)
  BY <1>0, WFMin
<1>3. ASSUME NEW y \in S PROVE x <= y
  <2>1. <<y, x>> \in Nat \X Nat /\ <<y, x>>[1] = y /\ <<y, x>>[2] = x
    OBVIOUS
  <2>2. ~ (y < x)
    BY <1>2, <2>1 DEF less
  <2>3. QED
    BY <2>2
<1>4. QED
  BY <1>2, <1>3 DEF Min

-----------------------------------------------------------------------------
(* Tables and chains                                                       *)

Table == [Cluster -> Cluster \cup {FREE, EOC}]

(* Where fat32_get_fat_entry leads from the end of a path.                 *)
Onward(table, first, p) == IF p = <<>> THEN first ELSE table[p[Len(p)]]

(* A path of n - 1 clusters, one step on.                                  *)
Longer(table, first, p, n) ==
  IF Len(p) = n - 1 /\ Onward(table, first, p) \in Cluster
    THEN Append(p, Onward(table, first, p)) ELSE p

(* g holds the paths of up to m steps from first.                          *)
Walk(g, table, first, m) ==
  g = [n \in 0 .. m |-> IF n = 0 THEN <<>> ELSE Longer(table, first, g[n - 1], n)]

(* A walk of any length exists: the shortest one missing would extend the  *)
(* one before it.                                                          *)
LEMMA WalkExists ==
  ASSUME NEW table, NEW first, NEW m \in Nat
  PROVE  \E g : Walk(g, table, first, m)
<1> DEFINE Missing == {n \in Nat : ~ \E g : Walk(g, table, first, n)}
<1> SUFFICES ASSUME Missing # {} PROVE FALSE
  OBVIOUS
<1> DEFINE k == Min(Missing)
<1>1. k \in Missing /\ \A n \in Missing : k <= n
  BY MinOfSet
<1> HIDE DEF k
<1>2. k # 0
  <2> SUFFICES ASSUME k = 0 PROVE FALSE
    OBVIOUS
  <2> DEFINE g == [n \in 0 .. 0 |-> <<>>]
  <2>1. g = [n \in 0 .. 0 |-> IF n = 0 THEN <<>> ELSE Longer(table, first, g[n - 1], n)]
    OBVIOUS
  <2>2. Walk(g, table, first, 0)
    BY <2>1 DEF Walk
  <2>3. QED
    BY <1>1, <2>2
<1>3. k - 1 \in Nat /\ k - 1 \notin Missing
  BY <1>1, <1>2
<1>4. PICK g : Walk(g, table, first, k - 1)
  BY <1>3
<1> DEFINE h == [n \in 0 .. k |-> IF n = k THEN Longer(table, first, g[k - 1], k) ELSE g[n]]
<1>5. ASSUME NEW n \in 0 .. k
      PROVE  h[n] = IF n = 0 THEN <<>> ELSE Longer(table, first, h[n - 1], n)
  <2>1. CASE n = k
    BY <1>1, <1>2, <2>1
  <2>2. CASE n # k
    <3>1. n \in 0 .. k - 1
      BY <1>1, <2>2
    <3>2. h[n] = g[n] /\ (n # 0 => h[n - 1] = g[n - 1])
      BY <1>1, <3>1
    <3>3. g[n] = IF n = 0 THEN <<>> ELSE Longer(table, first, g[n - 1], n)
      BY <1>4, <3>1 DEF Walk
    <3>4. QED
      BY <3>2, <3>3
  <2>3. QED
    BY <2>1, <2>2
<1>6. Walk(h, table, first, k)
  <2>1. h = [n \in 0 .. k |-> h[n]]
    OBVIOUS
  <2> HIDE DEF h
  <2>2. QED
    BY <1>5, <2>1 DEF Walk
<1>7. QED
  BY <1>1, <1>6

(* What every path of a walk is.                                           *)
PathFrom(p, table, first, n) ==
  /\ p \in Seq(Cluster) /\ Len(p) <= n
  /\ n > 0 => Len(p) > 0
  /\ Len(p) > 0 => p[1] = first
  /\ \A k \in 1 .. Len(p) - 1 : p[k + 1] = table[p[k]]
  /\ Len(p) > 0 /\ Len(p) < n => table[p[Len(p)]] \notin Cluster

LEMMA WalkGrows ==
  ASSUME NEW table \in Table, NEW first \in Cluster, NEW n \in Nat, n > 0,
         NEW p, PathFrom(p, table, first, n - 1)
  PROVE  PathFrom(Longer(table, first, p, n), table, first, n)
<1> DEFINE c == Onward(table, first, p)
<1>1. p \in Seq(Cluster) /\ Len(p) \in Nat /\ Len(p) <= n - 1
  BY DEF PathFrom
<1>2. CASE Len(p) = n - 1 /\ c \in Cluster
  <2> DEFINE q == Append(p, c)
  <2>1. Longer(table, first, p, n) = q
    BY <1>2 DEF Longer
  <2>2. q \in Seq(Cluster) /\ Len(q) = n
    BY <1>1, <1>2
  <2>3. q[n] = c /\ \A k \in 1 .. n - 1 : q[k] = p[k]
    BY <1>1, <1>2
  <2> HIDE DEF q
  <2>4. q[1] = first
    <3>1. CASE n = 1
      <4>1. p = <<>>
        BY <1>1, <1>2, <3>1
      <4>2. QED
        BY <2>3, <3>1, <4>1 DEF Onward
    <3>2. CASE n # 1
      <4>1. 1 \in 1 .. n - 1 /\ Len(p) > 0
        BY <1>2, <3>2
      <4>2. QED
        BY <2>3, <4>1 DEF PathFrom
    <3>3. QED
      BY <3>1, <3>2
  <2>5. ASSUME NEW k \in 1 .. n - 1 PROVE q[k + 1] = table[q[k]]
    <3>1. CASE k = n - 1
      <4>1. k = Len(p) /\ k + 1 = n /\ Len(p) > 0
        BY <1>2, <3>1
      <4>2. p # <<>>
        BY <1>1, <4>1
      <4>3. QED
        BY <2>3, <4>1, <4>2 DEF Onward
    <3>2. CASE k # n - 1
      <4>1. k \in 1 .. Len(p) - 1 /\ k + 1 \in 1 .. n - 1
        BY <1>2, <3>2
      <4>2. p[k + 1] = table[p[k]]
        BY <4>1 DEF PathFrom
      <4>3. QED
        BY <2>3, <4>1, <4>2
    <3>3. QED
      BY <3>1, <3>2
  <2>6. QED
    BY <2>1, <2>2, <2>4, <2>5 DEF PathFrom
<1>3. CASE ~ (Len(p) = n - 1 /\ c \in Cluster)
  <2>1. Longer(table, first, p, n) = p
    BY <1>3 DEF Longer
  <2>2. Len(p) > 0
    <3>1. CASE n = 1
      <4>1. p = <<>> /\ Len(p) = n - 1
        BY <1>1, <3>1
      <4>2. QED
        BY <1>3, <4>1 DEF Onward
    <3>2. CASE n # 1
      BY <1>1, <3>2 DEF PathFrom
    <3>3. QED
      BY <3>1, <3>2
  <2>3. table[p[Len(p)]] \notin Cluster
    <3>1. CASE Len(p) = n - 1
      <4>1. p # <<>>
        BY <2>2
      <4>2. QED
        BY <1>3, <3>1, <4>1 DEF Onward
    <3>2. CASE Len(p) # n - 1
      <4>1. Len(p) < n - 1
        BY <1>1, <3>2
      <4>2. QED
        BY <2>2, <4>1 DEF PathFrom
    <3>3. QED
      BY <3>1, <3>2
  <2>4. Len(p) <= n
    BY <1>1
  <2>5. QED
    BY <2>1, <2>2, <2>3, <2>4 DEF PathFrom
<1>4. QED
  BY <1>2, <1>3

(* What a chain is: it starts at its first cluster, goes on along the      *)
(* links, and stops where they leave the clusters.                         *)
LEMMA ChainFacts ==
  ASSUME NEW table \in Table, NEW first \in Cluster
  PROVE  LET c == Chain(table, first)
         IN  /\ Len(c) \in 1 .. Covered
             /\ c \in [1 .. Len(c) -> Cluster]
             /\ c[1] = first
             /\ \A n \in 1 .. Len(c) - 1 : c[n + 1] = table[c[n]]
             /\ Len(c) < Covered => table[c[Len(c)]] \notin Cluster
<1> DEFINE next(p) == IF p = <<>> THEN first ELSE table[p[Len(p)]]
           path[n \in 0 .. Covered] ==
             IF n = 0 THEN <<>>
             ELSE LET p == path[n - 1]
                  IN  IF Len(p) = n - 1 /\ next(p) \in Cluster THEN Append(p, next(p)) ELSE p
<1>1. PICK g : Walk(g, table, first, Covered)
  BY WalkExists, Numbers
<1>2. g = [n \in 0 .. Covered |->
             IF n = 0 THEN <<>>
             ELSE LET p == g[n - 1]
                  IN  IF Len(p) = n - 1 /\ next(p) \in Cluster THEN Append(p, next(p)) ELSE p]
  BY <1>1 DEF Walk, Longer, Onward
<1>3. path = [n \in 0 .. Covered |->
             IF n = 0 THEN <<>>
             ELSE LET p == path[n - 1]
                  IN  IF Len(p) = n - 1 /\ next(p) \in Cluster THEN Append(p, next(p)) ELSE p]
  BY <1>2
<1>4. Chain(table, first) = path[Covered]
  BY DEF Chain
<1>5. ASSUME NEW n \in 0 .. Covered
      PROVE  path[n] = IF n = 0 THEN <<>> ELSE Longer(table, first, path[n - 1], n)
  BY <1>3 DEF Longer, Onward
<1> HIDE DEF path
<1> DEFINE Wrong == {n \in Nat : n \in 0 .. Covered /\ ~ PathFrom(path[n], table, first, n)}
<1>6. Wrong = {}
  <2> SUFFICES ASSUME Wrong # {} PROVE FALSE
    OBVIOUS
  <2>1. PICK n : n \in Wrong /\ \A m \in Wrong : n <= m
    BY MinOfSet
  <2>2. n \in 0 .. Covered /\ n \in Nat /\ ~ PathFrom(path[n], table, first, n)
    BY <2>1
  <2>3. CASE n = 0
    <3>1. path[0] = <<>>
      BY <1>5, <2>2, <2>3
    <3>2. PathFrom(<<>>, table, first, 0)
      BY DEF PathFrom
    <3>3. QED
      BY <2>2, <2>3, <3>1, <3>2
  <2>4. CASE n # 0
    <3>1. n > 0 /\ n - 1 \in Nat /\ n - 1 \in 0 .. Covered /\ ~ (n <= n - 1)
      BY <2>2, <2>4, Numbers
    <3>2. PathFrom(path[n - 1], table, first, n - 1)
      BY <2>1, <3>1
    <3>3. path[n] = Longer(table, first, path[n - 1], n)
      BY <1>5, <2>2, <2>4
    <3>4. QED
      BY <2>2, <3>1, <3>2, <3>3, WalkGrows
  <2>5. QED
    BY <2>3, <2>4
<1>7. PathFrom(Chain(table, first), table, first, Covered)
  <2>1. Covered \in Nat /\ Covered \in 0 .. Covered
    BY Numbers
  <2>2. QED
    BY <1>4, <1>6, <2>1
<1> HIDE DEF Wrong
<1> DEFINE c == Chain(table, first)
<1> HIDE DEF c
<1>8. /\ c \in Seq(Cluster) /\ Len(c) <= Covered
      /\ Len(c) > 0
      /\ c[1] = first
      /\ \A k \in 1 .. Len(c) - 1 : c[k + 1] = table[c[k]]
      /\ Len(c) < Covered => table[c[Len(c)]] \notin Cluster
  BY <1>7, Numbers DEF PathFrom, c
<1>9. Len(c) \in 1 .. Covered /\ c \in [1 .. Len(c) -> Cluster]
  BY <1>8, Numbers
<1>10. QED
  BY <1>8, <1>9 DEF c

(* What a sound table is: its links lead to clusters in use, no two to the *)
(* same one.                                                               *)
Linked(table) ==
  \A c \in Cluster : table[c] \in Cluster =>
    /\ table[table[c]] # FREE
    /\ \A d \in Cluster : table[d] = table[c] => d = c

(* A cluster that a chain may start with: in use, and no link leads there. *)
Start(table, f) ==
  /\ f \in Cluster /\ table[f] # FREE
  /\ \A c \in Cluster : table[c] # f

(* In a sound table two chains from such clusters meet nowhere unless they *)
(* are one: the first place where they meet would have two predecessors.   *)
LEMMA ChainsApart ==
  ASSUME NEW table \in Table, Linked(table),
         NEW f, Start(table, f), NEW g, Start(table, g),
         NEW i \in 1 .. Len(Chain(table, f)), NEW j \in 1 .. Len(Chain(table, g)),
         Chain(table, f)[i] = Chain(table, g)[j]
  PROVE  f = g /\ i = j
<1> DEFINE cf == Chain(table, f)
           cg == Chain(table, g)
<1>1. f \in Cluster /\ g \in Cluster
  BY DEF Start
<1>2. /\ Len(cf) \in 1 .. Covered /\ cf \in [1 .. Len(cf) -> Cluster]
      /\ cf[1] = f
      /\ \A n \in 1 .. Len(cf) - 1 : cf[n + 1] = table[cf[n]]
  BY <1>1, ChainFacts
<1>3. /\ Len(cg) \in 1 .. Covered /\ cg \in [1 .. Len(cg) -> Cluster]
      /\ cg[1] = g
      /\ \A n \in 1 .. Len(cg) - 1 : cg[n + 1] = table[cg[n]]
  BY <1>1, ChainFacts
<1> DEFINE Wrong == {n \in Nat : n \in 1 .. Len(cf) /\
                       \E m \in 1 .. Len(cg) : cf[n] = cg[m] /\ ~ (f = g /\ n = m)}
<1>4. SUFFICES ASSUME Wrong # {} PROVE FALSE
  BY <1>2
<1> HIDE DEF cf, cg
<1>5. PICK k : k \in Wrong /\ \A n \in Wrong : k <= n
  <2>1. Wrong \subseteq Nat
    OBVIOUS
  <2> HIDE DEF Wrong
  <2>2. QED
    BY <1>4, <2>1, MinOfSet
<1>6. PICK m \in 1 .. Len(cg) : cf[k] = cg[m] /\ ~ (f = g /\ k = m)
  BY <1>5
<1>7. k \in 1 .. Len(cf) /\ k \in Nat /\ m \in Nat
  BY <1>3, <1>5, Numbers
<1>8. k > 1 => k - 1 \in 1 .. Len(cf) - 1 /\ k - 1 \in 1 .. Len(cf) /\ (k - 1) + 1 = k
  BY <1>2, <1>7, Numbers
<1>9. m > 1 => m - 1 \in 1 .. Len(cg) - 1 /\ m - 1 \in 1 .. Len(cg) /\ (m - 1) + 1 = m
  BY <1>3, <1>6, Numbers
<1>10. CASE k = 1
  <2>1. m # 1
    BY <1>2, <1>3, <1>6, <1>10
  <2>2. m > 1
    BY <1>3, <1>6, <2>1, Numbers
  <2>3. f = table[cg[m - 1]] /\ cg[m - 1] \in Cluster
    <3>1. cg[m] = table[cg[m - 1]] /\ cg[m - 1] \in Cluster
      BY <1>3, <1>9, <2>2
    <3>2. QED
      BY <1>2, <1>6, <1>10, <3>1
  <2>4. QED
    BY <2>3 DEF Start
<1>11. CASE k # 1
  <2>1. k > 1
    BY <1>7, <1>11, <1>2, Numbers
  <2>2. cf[k] = table[cf[k - 1]] /\ cf[k - 1] \in Cluster
    BY <1>2, <1>8, <2>1
  <2>3. CASE m = 1
    <3>1. g = table[cf[k - 1]]
      BY <1>3, <1>6, <2>2, <2>3
    <3>2. QED
      BY <2>2, <3>1 DEF Start
  <2>4. CASE m # 1
    <3>1. m > 1
      BY <1>3, <1>6, <2>4, Numbers
    <3>2. cg[m] = table[cg[m - 1]] /\ cg[m - 1] \in Cluster
      BY <1>3, <1>9, <3>1
    <3>3. cg[m] \in Cluster
      BY <1>3
    <3>4. cf[k - 1] = cg[m - 1]
      BY <1>6, <2>2, <3>2, <3>3 DEF Linked
    <3>5. ~ (f = g /\ k - 1 = m - 1)
      BY <1>6, <1>7
    <3>6. k - 1 \in Wrong
      BY <1>7, <1>8, <1>9, <2>1, <3>1, <3>4, <3>5
    <3>7. k <= k - 1
      BY <1>5, <3>6
    <3>8. k \in Nat
      BY <1>2, <1>7
    <3>9. QED
      BY <3>7, <3>8
  <2>5. QED
    BY <2>3, <2>4
<1>12. QED
  BY <1>10, <1>11

(* Such a chain holds clusters in use, the last of which ends it: it       *)
(* cannot go on for ever, for then it would come back to one of them.      *)
LEMMA ChainEnds ==
  ASSUME NEW table \in Table, Linked(table), NEW f, Start(table, f)
  PROVE  LET c == Chain(table, f)
         IN  /\ \A n \in 1 .. Len(c) : table[c[n]] # FREE
             /\ table[c[Len(c)]] = EOC
<1> DEFINE c == Chain(table, f)
<1>1. f \in Cluster
  BY DEF Start
<1>2. /\ Len(c) \in 1 .. Covered /\ c \in [1 .. Len(c) -> Cluster]
      /\ c[1] = f
      /\ \A n \in 1 .. Len(c) - 1 : c[n + 1] = table[c[n]]
      /\ Len(c) < Covered => table[c[Len(c)]] \notin Cluster
  BY <1>1, ChainFacts
<1>3. ASSUME NEW i \in 1 .. Len(c), NEW j \in 1 .. Len(c), c[i] = c[j]
      PROVE  i = j
  BY <1>3, ChainsApart
<1> HIDE DEF c
<1>4. ASSUME NEW n \in 1 .. Len(c) PROVE table[c[n]] # FREE
  <2>1. CASE n = 1
    BY <1>2, <2>1 DEF Start
  <2>2. CASE n # 1
    <3>1. n - 1 \in 1 .. Len(c) - 1 /\ n - 1 \in 1 .. Len(c) /\ (n - 1) + 1 = n
      BY <1>2, <2>2, Numbers
    <3>2. c[n] = table[c[n - 1]] /\ c[n - 1] \in Cluster /\ c[n] \in Cluster
      BY <1>2, <3>1
    <3>3. QED
      BY <3>2 DEF Linked
  <2>3. QED
    BY <2>1, <2>2
<1>5. Len(c) < Covered
  <2> SUFFICES ASSUME ~ (Len(c) < Covered) PROVE FALSE
    OBVIOUS
  <2>1. Len(c) = Covered
    <3>1. Len(c) \in 1 .. Covered /\ Covered \in Nat
      BY <1>2, Numbers
    <3>2. QED
      BY <3>1
  <2>2. /\ IsFiniteSet(1 .. Covered) /\ Cardinality(1 .. Covered) = Covered
        /\ IsFiniteSet(Cluster) /\ Cardinality(Cluster) < Covered
    <3>1. Covered - 1 \in Int /\ ~ (2 > Covered - 1) /\ ~ (1 > Covered)
      BY Numbers
    <3>2. IsFiniteSet(1 .. Covered) /\ Cardinality(1 .. Covered) = Covered - 1 + 1
      BY <3>1, FS_Interval, Numbers
    <3>3. IsFiniteSet(Cluster) /\ Cardinality(Cluster) = (Covered - 1) - 2 + 1
      BY <3>1, FS_Interval, Numbers DEF Cluster
    <3>4. QED
      BY <3>2, <3>3, Numbers
  <2>3. c \in [1 .. Covered -> Cluster]
    BY <1>2, <2>1
  <2>4. PICK x \in 1 .. Covered, y \in 1 .. Covered : x # y /\ c[x] = c[y]
    BY <2>2, <2>3, FS_PigeonHole
  <2>5. QED
    BY <1>3, <2>1, <2>4
<1>6. Len(c) \in 1 .. Len(c) /\ c[Len(c)] \in Cluster
  BY <1>2, Numbers
<1>7. table[c[Len(c)]] \in {EOC}
  BY <1>2, <1>4, <1>5, <1>6 DEF Table
<1>8. QED
  BY <1>4, <1>7 DEF c

(* So the chains of a sound table are sound.                               *)
LEMMA SoundTable ==
  ASSUME NEW table \in Table, Linked(table), NEW firsts, \A f \in firsts : Start(table, f)
  PROVE  SoundChains(table, firsts)
<1>1. ASSUME NEW f \in firsts
      PROVE  /\ \A c \in ChainSet(table, f) : table[c] # FREE
             /\ \E c \in ChainSet(table, f) : table[c] = EOC
  <2>1. Start(table, f) /\ f \in Cluster
    BY DEF Start
  <2>2. /\ DOMAIN Chain(table, f) = 1 .. Len(Chain(table, f))
        /\ Len(Chain(table, f)) \in 1 .. Len(Chain(table, f))
    BY <2>1, ChainFacts, Numbers
  <2>3. /\ \A n \in 1 .. Len(Chain(table, f)) : table[Chain(table, f)[n]] # FREE
        /\ table[Chain(table, f)[Len(Chain(table, f))]] = EOC
    BY <2>1, ChainEnds
  <2>4. QED
    BY <2>2, <2>3 DEF ChainSet
<1>2. ASSUME NEW f \in firsts, NEW g \in firsts, f # g
      PROVE  ChainSet(table, f) \cap ChainSet(table, g) = {}
  <2>1. Start(table, f) /\ f \in Cluster /\ Start(table, g) /\ g \in Cluster
    BY DEF Start
  <2>2. /\ DOMAIN Chain(table, f) = 1 .. Len(Chain(table, f))
        /\ DOMAIN Chain(table, g) = 1 .. Len(Chain(table, g))
    BY <2>1, ChainFacts
  <2>3. ASSUME NEW c \in ChainSet(table, f) \cap ChainSet(table, g) PROVE FALSE
    <3>1. PICK i \in 1 .. Len(Chain(table, f)) : c = Chain(table, f)[i]
      BY <2>2 DEF ChainSet
    <3>2. PICK j \in 1 .. Len(Chain(table, g)) : c = Chain(table, g)[j]
      BY <2>2 DEF ChainSet
    <3>3. QED
      BY <1>2, <2>1, <3>1, <3>2, ChainsApart
  <2>4. QED
    BY <2>3
<1>3. QED
  BY <1>1, <1>2 DEF SoundChains

(* A table that keeps the links of another keeps its chains, which may     *)
(* only become longer.                                                     *)
LEMMA ChainPrefix ==
  ASSUME NEW t1 \in Table, NEW t2 \in Table, NEW f \in Cluster,
         \A c \in Cluster : t1[c] \in Cluster => t2[c] = t1[c],
         NEW n \in 1 .. Len(Chain(t1, f))
  PROVE  n \in 1 .. Len(Chain(t2, f)) /\ Chain(t2, f)[n] = Chain(t1, f)[n]
<1> DEFINE c1 == Chain(t1, f)
           c2 == Chain(t2, f)
<1>1. /\ Len(c1) \in 1 .. Covered /\ c1 \in [1 .. Len(c1) -> Cluster]
      /\ c1[1] = f
      /\ \A k \in 1 .. Len(c1) - 1 : c1[k + 1] = t1[c1[k]]
  BY ChainFacts
<1>2. /\ Len(c2) \in 1 .. Covered /\ c2 \in [1 .. Len(c2) -> Cluster]
      /\ c2[1] = f
      /\ \A k \in 1 .. Len(c2) - 1 : c2[k + 1] = t2[c2[k]]
      /\ Len(c2) < Covered => t2[c2[Len(c2)]] \notin Cluster
  BY ChainFacts
<1> DEFINE Wrong == {k \in Nat : k \in 1 .. Len(c1) /\
                       ~ (k \in 1 .. Len(c2) /\ c2[k] = c1[k])}
<1> HIDE DEF c1, c2
<1>3. SUFFICES ASSUME Wrong # {} PROVE FALSE
  BY <1>1 DEF c1, c2
<1>4. PICK k : k \in Wrong /\ \A m \in Wrong : k <= m
  <2>1. Wrong \subseteq Nat
    OBVIOUS
  <2> HIDE DEF Wrong
  <2>2. QED
    BY <1>3, <2>1, MinOfSet
<1>5. k \in Nat /\ k \in 1 .. Len(c1)
  BY <1>4
<1>6. k # 1
  BY <1>1, <1>2, <1>4, Numbers
<1>7. k - 1 \in 1 .. Len(c1) - 1 /\ k - 1 \in 1 .. Len(c1) /\ (k - 1) + 1 = k
  BY <1>1, <1>5, <1>6, Numbers
<1>8. k - 1 \in 1 .. Len(c2) /\ c2[k - 1] = c1[k - 1]
  <2>1. k - 1 \notin Wrong
    BY <1>4, <1>5
  <2>2. QED
    BY <1>5, <1>7, <2>1
<1>9. c1[k] = t1[c1[k - 1]] /\ c1[k] \in Cluster /\ c1[k - 1] \in Cluster
  BY <1>1, <1>5, <1>7
<1>10. t2[c2[k - 1]] = c1[k]
  BY <1>8, <1>9
<1>11. k - 1 # Len(c2)
  <2> SUFFICES ASSUME k - 1 = Len(c2) PROVE FALSE
    OBVIOUS
  <2>1. Len(c2) < Covered
    BY <1>1, <1>2, <1>5, Numbers
  <2>2. QED
    BY <1>2, <1>9, <1>10, <2>1
<1>12. k - 1 \in 1 .. Len(c2) - 1 /\ k \in 1 .. Len(c2)
  <2>1. Len(c2) \in Nat /\ k \in Nat
    BY <1>2, <1>5
  <2>2. 1 <= k - 1 /\ k - 1 <= Len(c2) /\ k - 1 # Len(c2)
    BY <1>8, <1>11
  <2>3. QED
    BY <2>1, <2>2
<1>13. c2[k] = c1[k]
  BY <1>2, <1>7, <1>10, <1>12
<1>14. QED
  BY <1>4, <1>12, <1>13

-----------------------------------------------------------------------------
(* The inductive invariant                                                 *)

(* Where an operation of either kind may be, and what it keeps.            *)
CreateOp ==
  [pc : {"extend", "link", "clear", "dir_alloc", "dir_init", "entry"},
   dir : Cluster, name : Name, kind : {"file", "dir"}, first : Cluster \cup {0},
   at : Cluster \cup {0}, slot : Nat, last : Cluster, then : {"clear"}]

WriteOp ==
  [pc : {"first", "walk", "extend", "link", "extended", "data"},
   h : Handle, cur : Cluster \cup {0}, skip : Nat, pos : Nat, left : Nat,
   byte : Byte, last : Cluster \cup {0}, at : Cluster \cup {0}, then : {"extended"}]

(* A file of no cluster is empty, and every directory has a cluster.       *)
FileNode == [kind : {"file"}, first : Cluster \cup {0}, size : Nat]
DirNode  == [kind : {"dir"}, first : Cluster, size : Nat]

Types ==
  /\ fat \in Table /\ disk_fat \in Table
  /\ disk = [c \in Cluster |-> disk[c]]
  /\ node \in [Handle -> FileNode \cup DirNode \cup {NoNode}]
  /\ \A h \in Handle : node[h].first = 0 => node[h].size = 0
  /\ op \in CreateOp \cup WriteOp \cup {Idle, Overrun}
  /\ written = [f \in Cluster |-> written[f]]
  /\ \A f \in Cluster : DOMAIN written[f] \subseteq Nat

EntriesTyped ==
  \A e \in Entries :
    /\ e.kind \in {"file", "dir"} /\ e.first \in Cluster \cup {0} /\ e.size \in Nat
    /\ e.first = 0 => e.kind = "file" /\ e.size = 0

(* One table keeps the links of another.                                   *)
Keeps(t1, t2) == \A c \in Cluster : t1[c] \in Cluster => t2[c] = t1[c]

(* What is on disk lags behind the cache: what a cluster on disk leads to, *)
(* it leads to in the cache; only clusters in use there are in use on      *)
(* disk; and a link leads to a cluster whose mark has reached the disk.    *)
Lags(t1, t2) ==
  /\ Keeps(t1, t2)
  /\ \A c \in Cluster : t1[c] # FREE => t2[c] # FREE
  /\ \A c \in Cluster : t2[c] \in Cluster => t1[t2[c]] # FREE

(* Both tables are sound, and the disk only lags behind.                   *)
Tables == Linked(fat) /\ Linked(disk_fat) /\ Lags(disk_fat, fat)

(* What a file starts with: an entry or a node says so, or it was written  *)
(* through a node that is gone.                                            *)
FileStart(f) ==
  /\ f \in Cluster
  /\ \/ \E e \in Entries : e.kind = "file" /\ e.first = f
     \/ \E h \in Handle : node[h].kind = "file" /\ node[h].first = f
     \/ DOMAIN written[f] # {}

(* What a directory starts with, the one being made included.              *)
DirStart(f) ==
  /\ f \in Cluster
  /\ \/ f = Root
     \/ \E e \in Entries : e.kind = "dir" /\ e.first = f
     \/ \E h \in Handle : node[h].kind = "dir" /\ node[h].first = f
     \/ op.pc \in {"dir_init", "entry"} /\ op.first = f

Known(f) == FileStart(f) \/ DirStart(f)

(* Files and directories start where no link leads, in the cache and on    *)
(* disk, and no file starts where a directory does.                        *)
Starts == \A f \in Cluster : Known(f) => Start(fat, f) /\ Start(disk_fat, f)
Apart  == \A f \in Cluster : ~ (FileStart(f) /\ DirStart(f))

(* Cluster c is the k-th of a chain.                                       *)
Nth(table, f, k, c) ==
  k \in 1 .. Len(Chain(table, f)) /\ Chain(table, f)[k] = c

(* A chain is extended at its end, by a cluster nothing leads to yet.      *)
Extending ==
  /\ op.pc \in {"extend", "link"} => op.last \in Cluster /\ fat[op.last] = EOC
  /\ op.pc = "link" => /\ Start(fat, op.at) /\ fat[op.at] = EOC /\ disk_fat[op.at] # FREE
                       /\ ~Known(op.at) /\ op.at # op.last

(* fat32_create works on clusters of its directory.                        *)
Creating ==
  op \in CreateOp =>
    /\ op.dir \in Dirs
    /\ op.pc \in {"extend", "link"} => \E k \in Nat : Nth(fat, op.dir, k, op.last)
    /\ op.pc \in {"clear", "dir_alloc", "dir_init", "entry"} =>
         \E k \in Nat : Nth(fat, op.dir, k, op.at)
    /\ op.pc \in {"dir_alloc", "dir_init"} => op.kind = "dir"
    /\ op.pc \in {"extend", "link", "clear", "dir_alloc"} => op.first = 0
    /\ op.pc \in {"dir_init", "entry"} => (op.kind = "dir" <=> op.first # 0)

(* fat32_write is so many clusters before the one of its position.         *)
Writing ==
  op \in WriteOp =>
    /\ node[op.h].kind = "file"
    /\ op.pc = "first" => op.skip = op.pos \div UNITS
    /\ op.pc # "first" =>
         /\ node[op.h].first \in Cluster
         /\ op.skip <= op.pos \div UNITS
         /\ Nth(fat, node[op.h].first, op.pos \div UNITS + 1 - op.skip, op.cur)
    /\ op.pc \in {"extend", "link"} => op.last = op.cur
    /\ op.pc \in {"extend", "link", "extended"} => op.skip > 0
    /\ op.pc = "extended" => fat[op.cur] = op.at /\ op.at \in Cluster
    /\ op.pc = "data" => op.skip = 0

(* What was written is in its place.                                       *)
Stored ==
  \A f \in Cluster : \A pos \in DOMAIN written[f] :
    \E c \in Cluster, byte \in written[f][pos] :
      Nth(fat, f, pos \div UNITS + 1, c) /\ disk[c][pos % UNITS] = Data(byte)

Inv ==
  /\ Types /\ EntriesTyped /\ Tables /\ Starts /\ Apart
  /\ Extending /\ Creating /\ Writing /\ Stored

-----------------------------------------------------------------------------
(* Facts that the steps share                                              *)

(* Which kind of operation is under way, by its place and what it goes     *)
(* back to.                                                                *)
LEMMA OpKinds ==
  ASSUME op \in CreateOp \cup WriteOp \cup {Idle, Overrun}
  PROVE  /\ op.pc \in {"clear", "dir_alloc", "dir_init", "entry"} =>
              op \in CreateOp /\ op \notin WriteOp
         /\ op.pc \in {"first", "walk", "extended", "data"} =>
              op \in WriteOp /\ op \notin CreateOp
         /\ op.pc \in {"extend", "link"} => op \in CreateOp \/ op \in WriteOp
         /\ op \in CreateOp => op.then = "clear" /\ op \notin WriteOp
         /\ op \in WriteOp => op.then = "extended" /\ op \notin CreateOp
<1>1. op \in CreateOp => op.then = "clear" /\ op.pc \notin {"first", "walk", "extended", "data"}
  BY DEF CreateOp
<1>2. op \in WriteOp => op.then = "extended" /\ op.pc \notin {"clear", "dir_alloc", "dir_init", "entry"}
  BY DEF WriteOp
<1>3. (op = Idle => op.pc = "idle") /\ (op = Overrun => op.pc = "overrun")
  BY DEF Idle, Overrun
<1>4. QED
  BY <1>1, <1>2, <1>3

(* Between operations nothing is promised of one.                          *)
LEMMA BetweenOps ==
  ASSUME op' = Idle
  PROVE  /\ (op \in CreateOp \cup WriteOp \cup {Idle, Overrun})'
         /\ op'.pc = "idle"
         /\ Extending' /\ Creating' /\ Writing'
<1>1. op'.pc = "idle"
  BY DEF Idle
<1>2. op' \notin CreateOp /\ op' \notin WriteOp
  BY <1>1 DEF CreateOp, WriteOp
<1>3. QED
  BY <1>1, <1>2 DEF Extending, Creating, Writing

(* A place in a chain is a cluster and stays where it is while links are   *)
(* only added.                                                             *)
LEMMA NthKept ==
  ASSUME NEW t1 \in Table, NEW t2 \in Table, Keeps(t1, t2),
         NEW f \in Cluster, NEW k, NEW c, Nth(t1, f, k, c)
  PROVE  Nth(t2, f, k, c) /\ c \in Cluster
<1>1. k \in 1 .. Len(Chain(t1, f)) /\ Chain(t1, f)[k] = c
  BY DEF Nth
<1>2. k \in 1 .. Len(Chain(t2, f)) /\ Chain(t2, f)[k] = Chain(t1, f)[k]
  BY <1>1, ChainPrefix DEF Keeps
<1>3. Chain(t1, f) \in [1 .. Len(Chain(t1, f)) -> Cluster]
  BY ChainFacts
<1>4. QED
  BY <1>1, <1>2, <1>3 DEF Nth

(* The place after one that has a link is where the link leads.            *)
LEMMA NthNext ==
  ASSUME NEW t \in Table, Linked(t), NEW f, Start(t, f),
         NEW k, NEW c, Nth(t, f, k, c), t[c] \in Cluster
  PROVE  k \in Nat /\ Nth(t, f, k + 1, t[c])
<1> DEFINE chain == Chain(t, f)
<1>1. k \in 1 .. Len(chain) /\ chain[k] = c
  BY DEF Nth
<1>2. f \in Cluster
  BY DEF Start
<1>3. /\ Len(chain) \in 1 .. Covered
      /\ \A n \in 1 .. Len(chain) - 1 : chain[n + 1] = t[chain[n]]
  BY <1>2, ChainFacts
<1>4. t[chain[Len(chain)]] = EOC
  BY ChainEnds
<1>5. k # Len(chain)
  BY <1>1, <1>4, Numbers
<1> HIDE DEF chain
<1>6. k \in 1 .. Len(chain) - 1 /\ k + 1 \in 1 .. Len(chain) /\ k \in Nat
  BY <1>1, <1>3, <1>5, Numbers
<1>7. chain[k + 1] = t[c]
  BY <1>1, <1>3, <1>6
<1>8. QED
  BY <1>6, <1>7 DEF Nth, chain

(* The first place of a chain is where it starts.                          *)
LEMMA NthFirst ==
  ASSUME NEW t \in Table, NEW f \in Cluster
  PROVE  Nth(t, f, 1, f)
<1>1. Len(Chain(t, f)) \in 1 .. Covered /\ Chain(t, f)[1] = f
  BY ChainFacts
<1>2. 1 \in 1 .. Len(Chain(t, f))
  BY <1>1, Numbers
<1>3. QED
  BY <1>1, <1>2 DEF Nth

(* What was written stays in its place while links are only added and the  *)
(* clusters of files stay as they are.                                     *)
LEMMA StoredKept ==
  ASSUME Stored, fat \in Table, fat' \in Table, Keeps(fat, fat'), written' = written,
         \A f \in Cluster : DOMAIN written[f] # {} =>
           \A c \in Cluster : (\E k \in Nat : Nth(fat, f, k, c)) => disk'[c] = disk[c]
  PROVE  Stored'
<1> SUFFICES ASSUME NEW f \in Cluster, NEW pos \in DOMAIN written[f]
             PROVE  \E c \in Cluster, byte \in written[f][pos] :
                      /\ Nth(fat', f, pos \div UNITS + 1, c)
                      /\ disk'[c][pos % UNITS] = Data(byte)
  BY DEF Stored
<1>1. PICK c \in Cluster, byte \in written[f][pos] :
        Nth(fat, f, pos \div UNITS + 1, c) /\ disk[c][pos % UNITS] = Data(byte)
  BY DEF Stored
<1>2. Nth(fat', f, pos \div UNITS + 1, c)
  BY <1>1, NthKept
<1>3. pos \div UNITS + 1 \in Nat
  <2>1. Len(Chain(fat, f)) \in Nat
    BY ChainFacts, Numbers
  <2>2. QED
    BY <1>1, <2>1 DEF Nth
<1>4. disk'[c] = disk[c]
  BY <1>1, <1>3
<1>5. QED
  BY <1>1, <1>2, <1>4

(* A table that gets some of its entries from one it lags behind stays     *)
(* sound and behind it.                                                    *)
LEMMA PartlyWritten ==
  ASSUME disk_fat \in Table, fat' \in Table, Linked(fat'), Lags(disk_fat, fat'),
         FatPartlyWritten
  PROVE  /\ disk_fat' \in Table /\ Tables'
         /\ \A f : Start(disk_fat, f) /\ Start(fat', f) => Start(disk_fat', f)
<1>1. /\ disk_fat' = [c \in Cluster |-> disk_fat'[c]]
      /\ \A c \in Cluster : disk_fat'[c] \in {disk_fat[c], fat'[c]}
  BY DEF FatPartlyWritten
<1>2. disk_fat' \in Table
  BY <1>1 DEF Table
<1>3. FREE \notin Cluster
  BY Numbers
<1>4. \A c \in Cluster : disk_fat'[c] \in Cluster => disk_fat'[c] = fat'[c]
  BY <1>1 DEF Lags, Keeps
<1>5. \A c \in Cluster : disk_fat[c] # FREE => disk_fat'[c] # FREE /\ fat'[c] # FREE
  BY <1>1 DEF Lags
<1>6. Linked(disk_fat')
  <2> SUFFICES ASSUME NEW c \in Cluster, disk_fat'[c] \in Cluster
               PROVE  /\ disk_fat'[disk_fat'[c]] # FREE
                      /\ \A d \in Cluster : disk_fat'[d] = disk_fat'[c] => d = c
    BY DEF Linked
  <2>1. disk_fat'[c] = fat'[c] /\ disk_fat[fat'[c]] # FREE
    BY <1>4 DEF Lags
  <2>2. disk_fat'[disk_fat'[c]] # FREE
    BY <1>5, <2>1
  <2>3. ASSUME NEW d \in Cluster, disk_fat'[d] = disk_fat'[c] PROVE d = c
    <3>1. fat'[d] = fat'[c] /\ fat'[c] \in Cluster
      BY <1>4, <2>3
    <3>2. QED
      BY <3>1 DEF Linked
  <2>4. QED
    BY <2>2, <2>3
<1>7. Lags(disk_fat', fat')
  <2>1. Keeps(disk_fat', fat')
    BY <1>4 DEF Keeps
  <2>2. \A c \in Cluster : disk_fat'[c] # FREE => fat'[c] # FREE
    BY <1>1, <1>5
  <2>3. \A c \in Cluster : fat'[c] \in Cluster => disk_fat'[fat'[c]] # FREE
    BY <1>5 DEF Lags
  <2>4. QED
    BY <2>1, <2>2, <2>3 DEF Lags
<1>8. ASSUME NEW f, Start(disk_fat, f), Start(fat', f) PROVE Start(disk_fat', f)
  <2>1. f \in Cluster /\ disk_fat'[f] # FREE
    BY <1>5, <1>8 DEF Start
  <2>2. ASSUME NEW c \in Cluster, disk_fat'[c] = f PROVE FALSE
    <3>1. fat'[c] = f
      BY <1>4, <2>1, <2>2
    <3>2. QED
      BY <1>8, <3>1 DEF Start
  <2>3. QED
    BY <2>1, <2>2 DEF Start
<1>9. Tables'
  BY <1>6, <1>7 DEF Tables, Linked, Lags, Keeps
<1>10. QED
  BY <1>2, <1>8, <1>9

(* Marking a free cluster as the end of a chain leaves a sound table.      *)
LEMMA MarkedTable ==
  ASSUME NEW t \in Table, Linked(t), NEW c \in Cluster, t[c] = FREE
  PROVE  LET marked == [t EXCEPT ![c] = EOC]
         IN  /\ marked \in Table /\ Linked(marked) /\ Keeps(t, marked)
             /\ \A f : Start(t, f) => Start(marked, f)
             /\ Start(marked, c) /\ marked[c] = EOC
<1> DEFINE marked == [t EXCEPT ![c] = EOC]
<1>1. marked \in Table /\ \A d \in Cluster : marked[d] = IF d = c THEN EOC ELSE t[d]
  BY DEF Table
<1> HIDE DEF marked
<1>2. FREE # EOC /\ FREE \notin Cluster /\ EOC \notin Cluster
  BY Numbers
<1>3. \A d \in Cluster : marked[d] \in Cluster => d # c /\ marked[d] = t[d]
  BY <1>1, <1>2
<1>4. Linked(marked)
  <2> SUFFICES ASSUME NEW d \in Cluster, marked[d] \in Cluster
               PROVE  /\ marked[marked[d]] # FREE
                      /\ \A e \in Cluster : marked[e] = marked[d] => e = d
    BY DEF Linked
  <2>1. marked[d] = t[d] /\ t[d] \in Cluster
    BY <1>3
  <2>2. t[t[d]] # FREE /\ \A e \in Cluster : t[e] = t[d] => e = d
    BY <2>1 DEF Linked
  <2>3. marked[t[d]] # FREE
    BY <1>1, <1>2, <2>1, <2>2
  <2>4. QED
    BY <1>3, <2>1, <2>2, <2>3
<1>5. Keeps(t, marked)
  BY <1>1, <1>2 DEF Keeps
<1>6. ASSUME NEW f, Start(t, f) PROVE Start(marked, f)
  BY <1>1, <1>2, <1>3, <1>6 DEF Start
<1>7. ASSUME NEW d \in Cluster, marked[d] = c PROVE FALSE
  <2>1. t[d] = c
    BY <1>3, <1>7
  <2>2. t[c] # FREE
    BY <2>1 DEF Linked
  <2>3. QED
    BY <2>2
<1>8. Start(marked, c) /\ marked[c] = EOC
  BY <1>1, <1>2, <1>7 DEF Start
<1>9. QED
  BY <1>1, <1>4, <1>5, <1>6, <1>8 DEF marked

(* The mark of a free cluster keeps what is known of the tables.           *)
LEMMA MarkKeeps ==
  ASSUME fat \in Table, disk_fat \in Table, Tables, NEW c \in Cluster, Mark(c)
  PROVE  /\ fat' \in Table /\ Linked(fat') /\ Keeps(fat, fat') /\ Lags(disk_fat, fat')
         /\ \A f : Start(fat, f) => Start(fat', f)
         /\ fat[c] = FREE /\ \A d \in Cluster : fat'[d] = IF d = c THEN EOC ELSE fat[d]
         /\ Start(fat', c)
<1>1. Free # {} /\ c = Min(Free) /\ fat' = [fat EXCEPT ![c] = EOC]
  BY DEF Mark
<1>2. fat[c] = FREE
  <2>1. Free \subseteq Nat
    BY Numbers DEF Free
  <2>2. c \in Free
    BY <1>1, <2>1, MinOfSet
  <2>3. QED
    BY <2>2 DEF Free
<1>3. Linked(fat) /\ Lags(disk_fat, fat)
  BY DEF Tables
<1>4. /\ fat' \in Table /\ Linked(fat') /\ Keeps(fat, fat')
      /\ \A f : Start(fat, f) => Start(fat', f)
      /\ Start(fat', c) /\ fat'[c] = EOC
  BY <1>1, <1>2, <1>3, MarkedTable
<1>5. \A d \in Cluster : fat'[d] = IF d = c THEN EOC ELSE fat[d]
  BY <1>1 DEF Table
<1>6. FREE # EOC /\ EOC \notin Cluster
  BY Numbers
<1>7. Lags(disk_fat, fat')
  <2>1. Keeps(disk_fat, fat')
    BY <1>3, <1>4 DEF Lags, Keeps
  <2>2. \A d \in Cluster : disk_fat[d] # FREE => fat'[d] # FREE
    BY <1>3, <1>5, <1>6 DEF Lags
  <2>3. \A d \in Cluster : fat'[d] \in Cluster => disk_fat[fat'[d]] # FREE
    BY <1>3, <1>5, <1>6 DEF Lags
  <2>4. QED
    BY <2>1, <2>2, <2>3 DEF Lags
<1>8. QED
  BY <1>2, <1>4, <1>5, <1>7

(* A fresh cluster is marked: it was in no chain, and now it may start one *)
(* or end one.                                                             *)
LEMMA Marked ==
  ASSUME fat \in Table, disk_fat \in Table, Tables, NEW c \in Cluster, AllocOk(c)
  PROVE  /\ fat' \in Table /\ disk_fat' \in Table /\ Tables' /\ Keeps(fat, fat')
         /\ \A f : Start(fat, f) => Start(fat', f) /\ Start(disk_fat', f)
         /\ fat[c] = FREE /\ \A d \in Cluster : fat'[d] = IF d = c THEN EOC ELSE fat[d]
         /\ Start(fat', c) /\ Start(disk_fat', c)
<1>1. Mark(c) /\ disk_fat' = fat'
  BY DEF AllocOk
<1>2. /\ fat' \in Table /\ Linked(fat') /\ Keeps(fat, fat')
      /\ \A f : Start(fat, f) => Start(fat', f)
      /\ fat[c] = FREE /\ \A d \in Cluster : fat'[d] = IF d = c THEN EOC ELSE fat[d]
      /\ Start(fat', c)
  BY <1>1, MarkKeeps
<1>3. Lags(fat', fat')
  BY <1>2 DEF Lags, Keeps, Linked
<1>4. Tables'
  BY <1>1, <1>2, <1>3 DEF Tables, Lags, Keeps, Linked
<1>5. QED
  BY <1>1, <1>2, <1>4

(* A failed allocation may mark a cluster in the cache, and there may be   *)
(* more of the cache on disk afterwards.                                   *)
LEMMA NotMarked ==
  ASSUME fat \in Table, disk_fat \in Table, Tables, AllocFails
  PROVE  /\ fat' \in Table /\ disk_fat' \in Table /\ Tables' /\ Keeps(fat, fat')
         /\ \A f : Start(fat, f) => Start(fat', f)
         /\ \A f : Start(fat, f) /\ Start(disk_fat, f) => Start(disk_fat', f)
<1>1. CASE UNCHANGED <<fat, disk_fat>>
  <2>1. Tables'
    BY <1>1 DEF Tables, Lags, Keeps, Linked
  <2>2. QED
    BY <1>1, <2>1 DEF Keeps
<1>2. ASSUME NEW c \in Cluster, Mark(c), FatPartlyWritten
      PROVE  /\ fat' \in Table /\ disk_fat' \in Table /\ Tables' /\ Keeps(fat, fat')
             /\ \A f : Start(fat, f) => Start(fat', f)
             /\ \A f : Start(fat, f) /\ Start(disk_fat, f) => Start(disk_fat', f)
  <2>1. /\ fat' \in Table /\ Linked(fat') /\ Keeps(fat, fat') /\ Lags(disk_fat, fat')
        /\ \A f : Start(fat, f) => Start(fat', f)
    BY <1>2, MarkKeeps
  <2>2. /\ disk_fat' \in Table /\ Tables'
        /\ \A f : Start(disk_fat, f) /\ Start(fat', f) => Start(disk_fat', f)
    BY <1>2, <2>1, PartlyWritten
  <2>3. QED
    BY <2>1, <2>2
<1>3. QED
  BY <1>1, <1>2 DEF AllocFails

(* A cluster that ends its chain gets a link to one nothing leads to.      *)
LEMMA LinkedTable ==
  ASSUME fat \in Table, disk_fat \in Table, Tables,
         NEW last \in Cluster, fat[last] = EOC,
         NEW c, Start(fat, c), fat[c] = EOC, disk_fat[c] # FREE, c # last,
         fat' = [fat EXCEPT ![last] = c], FatPartlyWritten
  PROVE  /\ fat' \in Table /\ disk_fat' \in Table /\ Tables' /\ Keeps(fat, fat')
         /\ \A f : Start(fat, f) /\ f # c => Start(fat', f)
         /\ \A f : Start(fat, f) /\ f # c /\ Start(disk_fat, f) => Start(disk_fat', f)
         /\ fat'[last] = c /\ c \in Cluster
<1>1. c \in Cluster /\ \A d \in Cluster : fat[d] # c
  BY DEF Start
<1>2. fat' \in Table /\ \A d \in Cluster : fat'[d] = IF d = last THEN c ELSE fat[d]
  BY <1>1 DEF Table
<1>3. FREE # EOC /\ FREE \notin Cluster /\ EOC \notin Cluster
  BY Numbers
<1>4. Linked(fat) /\ Lags(disk_fat, fat)
  BY DEF Tables
<1>5. Linked(fat')
  <2> SUFFICES ASSUME NEW d \in Cluster, fat'[d] \in Cluster
               PROVE  /\ fat'[fat'[d]] # FREE
                      /\ \A e \in Cluster : fat'[e] = fat'[d] => e = d
    BY DEF Linked
  <2>1. CASE d = last
    BY <1>1, <1>2, <1>3, <2>1
  <2>2. CASE d # last
    <3>1. fat'[d] = fat[d] /\ fat[d] \in Cluster /\ fat[d] # c
      BY <1>1, <1>2, <2>2
    <3>2. fat[fat[d]] # FREE /\ \A e \in Cluster : fat[e] = fat[d] => e = d
      BY <1>4, <3>1 DEF Linked
    <3>3. fat'[fat[d]] # FREE
      BY <1>1, <1>2, <1>3, <3>1, <3>2
    <3>4. \A e \in Cluster : fat'[e] = fat'[d] => e = d
      BY <1>2, <3>1, <3>2
    <3>5. QED
      BY <3>1, <3>3, <3>4
  <2>3. QED
    BY <2>1, <2>2
<1>6. Keeps(fat, fat')
  BY <1>2, <1>3 DEF Keeps
<1>7. Lags(disk_fat, fat')
  <2>1. Keeps(disk_fat, fat')
    BY <1>4, <1>6 DEF Lags, Keeps
  <2>2. \A d \in Cluster : disk_fat[d] # FREE => fat'[d] # FREE
    BY <1>1, <1>2, <1>3, <1>4 DEF Lags
  <2>3. \A d \in Cluster : fat'[d] \in Cluster => disk_fat[fat'[d]] # FREE
    BY <1>2, <1>4 DEF Lags
  <2>4. QED
    BY <2>1, <2>2, <2>3 DEF Lags
<1>8. /\ disk_fat' \in Table /\ Tables'
      /\ \A f : Start(disk_fat, f) /\ Start(fat', f) => Start(disk_fat', f)
  BY <1>2, <1>5, <1>7, PartlyWritten
<1>9. ASSUME NEW f, Start(fat, f), f # c PROVE Start(fat', f)
  BY <1>1, <1>2, <1>3, <1>9 DEF Start
<1>10. QED
  BY <1>1, <1>2, <1>6, <1>8, <1>9

(* What of the invariant a step keeps that writes no cluster.              *)
LEMMA QuietStep ==
  ASSUME Inv,
         fat' \in Table, disk_fat' \in Table, Tables', Keeps(fat, fat'),
         disk' = disk, written' = written,
         node' \in [Handle -> FileNode \cup DirNode \cup {NoNode}],
         \A h \in Handle : node'[h].first = 0 => node'[h].size = 0,
         op' \in CreateOp \cup WriteOp \cup {Idle, Overrun}
  PROVE  Types' /\ EntriesTyped' /\ Tables' /\ Stored' /\ Entries' = Entries
<1>1. Types /\ EntriesTyped /\ Stored
  BY DEF Inv
<1>2. Entries' = Entries
  BY DEF Entries
<1>3. EntriesTyped'
  BY <1>1, <1>2 DEF EntriesTyped
<1>4. Types'
  BY <1>1 DEF Types
<1>5. Stored'
  <2>1. fat \in Table
    BY <1>1 DEF Types
  <2>2. QED
    BY <1>1, <2>1, StoredKept
<1>6. QED
  BY <1>2, <1>3, <1>4, <1>5

(* Where nothing starts that did not before, starts stay as they must be.  *)
LEMMA StartsKept ==
  ASSUME Starts, Apart,
         \A f \in Cluster : FileStart(f)' => FileStart(f),
         \A f \in Cluster : DirStart(f)' => DirStart(f),
         \A f \in Cluster : Known(f) => Start(fat', f) /\ Start(disk_fat', f)
  PROVE  Starts' /\ Apart'
<1>1. \A f \in Cluster : Known(f)' => Known(f)
  BY DEF Known
<1>2. Starts'
  <2> SUFFICES ASSUME NEW f \in Cluster, Known(f)'
               PROVE  Start(fat', f) /\ Start(disk_fat', f)
    BY DEF Starts, Start
  <2>1. QED
    BY <1>1
<1>3. Apart'
  <2> SUFFICES ASSUME NEW f \in Cluster PROVE ~ (FileStart(f)' /\ DirStart(f)')
    BY DEF Apart
  <2>1. QED
    BY DEF Apart
<1>4. QED
  BY <1>2, <1>3

(* A step that changes only the operation under way, and mentions no new   *)
(* directory.                                                              *)
LEMMA OnlyOp ==
  ASSUME Inv, UNCHANGED <<fat, disk_fat, disk, node, written>>,
         op' \in CreateOp \cup WriteOp \cup {Idle, Overrun},
         \A f \in Cluster : op'.pc \in {"dir_init", "entry"} /\ op'.first = f => DirStart(f)
  PROVE  /\ Types' /\ EntriesTyped' /\ Tables' /\ Stored' /\ Starts' /\ Apart'
         /\ \A f \in Cluster : FileStart(f)' => FileStart(f)
         /\ \A f \in Cluster : DirStart(f)' => DirStart(f)
<1>1. Types /\ Tables /\ Starts /\ Apart
  BY DEF Inv
<1>2. Tables' /\ Keeps(fat, fat')
  BY <1>1 DEF Tables, Lags, Keeps, Linked
<1>3. Types' /\ EntriesTyped' /\ Tables' /\ Stored' /\ Entries' = Entries
  <2>1. fat' \in Table /\ disk_fat' \in Table
    BY <1>1 DEF Types
  <2>2. /\ node' \in [Handle -> FileNode \cup DirNode \cup {NoNode}]
        /\ \A h \in Handle : node'[h].first = 0 => node'[h].size = 0
    BY <1>1 DEF Types
  <2>3. QED
    BY <1>2, <2>1, <2>2, QuietStep
<1>4. \A f \in Cluster : FileStart(f)' => FileStart(f)
  BY <1>3 DEF FileStart
<1>5. \A f \in Cluster : DirStart(f)' => DirStart(f)
  BY <1>3 DEF DirStart
<1>6. \A f \in Cluster : Known(f) => Start(fat', f) /\ Start(disk_fat', f)
  BY <1>1 DEF Starts
<1>7. Starts' /\ Apart'
  BY <1>1, <1>4, <1>5, <1>6, StartsKept
<1>8. QED
  BY <1>3, <1>4, <1>5, <1>7

-----------------------------------------------------------------------------
(* Every step keeps the invariant                                          *)

(* Of some places there is a first one.                                    *)
LEMMA FirstPlace ==
  ASSUME NEW room, room # {}, room \subseteq Nat \X Nat
  PROVE  (CHOOSE p \in room : \A q \in room : Before(p, q)) \in room
<1> DEFINE ks == {p[1] : p \in room}
<1>1. ks \subseteq Nat /\ ks # {}
  OBVIOUS
<1>2. PICK k \in ks : \A m \in ks : k <= m
  BY <1>1, MinOfSet
<1> DEFINE is == {p[2] : p \in {q \in room : q[1] = k}}
<1>3. is \subseteq Nat /\ is # {}
  BY <1>2
<1>4. PICK i \in is : \A j \in is : i <= j
  <2> HIDE DEF is
  <2>1. QED
    BY <1>3, MinOfSet
<1>5. PICK p \in room : p[1] = k /\ p[2] = i
  BY <1>4
<1>6. ASSUME NEW q \in room PROVE Before(p, q)
  <2>1. k <= q[1] /\ k \in Nat /\ q[1] \in Nat
    BY <1>1, <1>2
  <2>2. q[1] = k => i <= q[2]
    BY <1>4
  <2>3. QED
    BY <1>5, <2>1, <2>2 DEF Before
<1>7. QED
  BY <1>6

(* A directory of this file system starts with a cluster of its own.       *)
LEMMA DirsKnown ==
  ASSUME Types, NEW dir \in Dirs
  PROVE  dir \in Cluster /\ DirStart(dir)
<1>1. CASE dir = Root
  BY <1>1, Numbers DEF DirStart
<1>2. CASE dir # Root
  <2>1. PICK h \in Handle : node[h].kind = "dir" /\ node[h].first = dir
    BY <1>2 DEF Dirs
  <2>2. node[h] \in FileNode \cup DirNode \cup {NoNode}
    BY DEF Types
  <2>3. node[h].first \in Cluster
    BY <2>1, <2>2 DEF FileNode, DirNode, NoNode
  <2>4. QED
    BY <2>1, <2>3 DEF DirStart
<1>3. QED
  BY <1>1, <1>2

(* fat32_create begins: its directory's chain is sound, so it has a last   *)
(* cluster that ends it and the place it chose is in the directory.        *)
LEMMA CreateStep ==
  ASSUME Inv, NEW dir \in Dirs, NEW name \in Name, NEW kind \in {"file", "dir"},
         fat32_create(dir, name, kind)
  PROVE  Inv'
<1> DEFINE room  == Fits(dir, Slots[name])
           first == CHOOSE p \in room : \A q \in room : Before(p, q)
           chain == Chain(fat, dir)
           found == room # {}
<1>1. /\ op = Idle
      /\ op' = [pc |-> IF found THEN AfterRoom(kind) ELSE "extend",
                dir |-> dir, name |-> name, kind |-> kind, first |-> 0,
                at |-> IF found THEN chain[first[1]] ELSE 0,
                slot |-> IF found THEN first[2] ELSE 0,
                last |-> chain[Len(chain)], then |-> "clear"]
      /\ UNCHANGED <<fat, disk_fat, disk, node, written>>
  BY DEF fat32_create
<1>2. Types /\ Tables /\ Starts
  BY DEF Inv
<1>3. dir \in Cluster /\ DirStart(dir) /\ Start(fat, dir)
  <2>1. dir \in Cluster /\ DirStart(dir)
    BY <1>2, DirsKnown
  <2>2. QED
    BY <1>2, <2>1 DEF Starts, Known
<1>4. /\ Len(chain) \in 1 .. Covered /\ chain \in [1 .. Len(chain) -> Cluster]
      /\ fat[chain[Len(chain)]] = EOC
  <2>1. fat \in Table /\ Linked(fat)
    BY <1>2 DEF Types, Tables
  <2>2. QED
    BY <1>3, <2>1, ChainFacts, ChainEnds
<1>5. Len(chain) \in 1 .. Len(chain) /\ Len(chain) \in Nat
  BY <1>4, Numbers
<1>6. found => first[1] \in 1 .. Len(chain) /\ first[2] \in Nat
  <2>1. Slots[name] \in 1 .. UNITS
    BY Fat32Constants
  <2>2. room \subseteq (1 .. Len(chain)) \X (0 .. UNITS - Slots[name])
    BY DEF Fits
  <2>3. (1 .. Len(chain)) \subseteq Nat /\ (0 .. UNITS - Slots[name]) \subseteq Nat
    BY <1>5, <2>1, Numbers
  <2>4. room \subseteq Nat \X Nat
    BY <2>2, <2>3
  <2> HIDE DEF room, chain
  <2>5. found => first \in room
    BY <2>4, FirstPlace
  <2>6. QED
    BY <2>2, <2>3, <2>5
<1> HIDE DEF room, first, chain
<1>7. found => chain[first[1]] \in Cluster
  BY <1>4, <1>6
<1>8. op' \in CreateOp
  <2>1. (IF found THEN AfterRoom(kind) ELSE "extend") \in {"extend", "dir_alloc", "entry"}
    BY DEF AfterRoom
  <2>2. chain[Len(chain)] \in Cluster
    BY <1>4, <1>5
  <2>3. (IF found THEN chain[first[1]] ELSE 0) \in Cluster \cup {0}
    BY <1>7
  <2>4. (IF found THEN first[2] ELSE 0) \in Nat
    BY <1>6
  <2> HIDE DEF found
  <2>5. QED
    BY <1>1, <1>3, <2>1, <2>2, <2>3, <2>4 DEF CreateOp
<1>9. /\ Types' /\ EntriesTyped' /\ Tables' /\ Stored' /\ Starts' /\ Apart'
  <2>1. op'.first = 0 /\ 0 \notin Cluster
    BY <1>1, Numbers DEF FREE
  <2>2. QED
    BY <1>1, <1>8, <2>1, OnlyOp
<1>10. op'.pc # "link" /\ op'.pc # "dir_init" /\ op'.pc # "clear"
  BY <1>1 DEF AfterRoom
<1>11. Extending'
  <2>1. op'.last = chain[Len(chain)] /\ chain[Len(chain)] \in Cluster
    BY <1>1, <1>4, <1>5
  <2>2. QED
    BY <1>1, <1>4, <1>10, <2>1 DEF Extending
<1>12. Creating'
  <2>1. (op.dir \in Dirs)'
    <3>1. op'.dir = dir
      BY <1>1
    <3>2. Dirs' = Dirs
      BY <1>1 DEF Dirs
    <3>3. QED
      BY <3>1, <3>2
  <2>2. CASE found
    <3>1. op'.at = chain[first[1]] /\ op'.dir = dir /\ op'.pc = AfterRoom(kind)
          /\ op'.kind = kind /\ op'.first = 0
      BY <1>1, <2>2
    <3>2. Nth(fat', op'.dir, first[1], op'.at) /\ first[1] \in Nat
      BY <1>1, <1>5, <1>6, <2>2, <3>1 DEF Nth, chain
    <3>3. op'.pc \in {"dir_alloc", "entry"} /\ (op'.pc = "dir_alloc" <=> op'.kind = "dir")
      BY <3>1 DEF AfterRoom
    <3>4. op'.pc \notin {"extend", "link"} /\ op'.pc # "dir_init" /\ op'.first = 0
      BY <3>1, <3>3
    <3>5. \E k \in Nat : Nth(fat', op'.dir, k, op'.at)
      BY <3>2
    <3>6. op'.pc \in {"dir_alloc", "dir_init"} => op'.kind = "dir"
      BY <3>3
    <3>7. op'.pc \in {"dir_init", "entry"} => (op'.kind = "dir" <=> op'.first # 0)
      BY <3>3, <3>4
    <3>8. QED
      BY <2>1, <3>4, <3>5, <3>6, <3>7 DEF Creating
  <2>3. CASE ~found
    <3>1. op'.pc = "extend" /\ op'.last = chain[Len(chain)] /\ op'.dir = dir /\ op'.first = 0
      BY <1>1, <2>3
    <3>2. Nth(fat', op'.dir, Len(chain), op'.last)
      BY <1>1, <1>5, <3>1 DEF Nth, chain
    <3>3. \E k \in Nat : Nth(fat', op'.dir, k, op'.last)
      BY <1>5, <3>2
    <3>4. QED
      BY <2>1, <3>1, <3>3 DEF Creating
  <2>4. QED
    BY <2>2, <2>3
<1>13. Writing'
  <2>1. op' \notin WriteOp
    BY <1>1 DEF WriteOp
  <2>2. QED
    BY <2>1 DEF Writing
<1>14. QED
  BY <1>9, <1>11, <1>12, <1>13 DEF Inv

(* A position of a chain is in one of its clusters.                        *)
LEMMA InChain ==
  ASSUME NEW p \in Nat, NEW n \in Nat, p < n * UNITS
  PROVE  p \div UNITS + 1 \in 1 .. n /\ (p % UNITS) \in 0 .. UNITS - 1
<1>1. UNITS \in Nat /\ UNITS > 0
  BY Numbers
<1>2. p \div UNITS \in Nat /\ (p % UNITS) \in 0 .. UNITS - 1
  BY Quotient
<1>3. p \div UNITS < n
  BY <1>1
<1>4. QED
  BY <1>2, <1>3

(* A name is found in an entry on disk.                                    *)
LEMMA FoundIsEntry ==
  ASSUME fat \in Table, NEW dir \in Cluster, NEW name, Lookup(dir, name) # 0
  PROVE  Visible(dir)[Lookup(dir, name)] \in Entries
<1> DEFINE chain   == Chain(fat, dir)
           unit(k) == disk[chain[k \div UNITS + 1]][k % UNITS]
           all     == 0 .. Len(chain) * UNITS - 1
           ends    == {k \in all : unit(k) = Zero}
           last    == IF ends = {} THEN Len(chain) * UNITS ELSE Min(ends)
           seen    == Visible(dir)
           hits    == {k \in DOMAIN seen : Matches(name, seen, k)}
           k       == Lookup(dir, name)
<1>1. seen = [n \in 1 .. last |-> unit(n - 1)]
  BY DEF Visible
<1>2. Len(chain) \in Nat /\ Len(chain) * UNITS \in Nat /\ chain \in [1 .. Len(chain) -> Cluster]
  <2>1. Len(chain) \in 1 .. Covered /\ chain \in [1 .. Len(chain) -> Cluster]
    BY ChainFacts
  <2> HIDE DEF chain
  <2>2. QED
    BY <2>1, Numbers
<1>3. last \in Nat /\ last <= Len(chain) * UNITS
  <2>1. CASE ends = {}
    BY <1>2, <2>1
  <2>2. CASE ends # {}
    <3>1. ends \subseteq Nat
      BY <1>2
    <3>2. last = Min(ends)
      BY <2>2
    <3>3. last \in all
      <4> HIDE DEF last, chain
      <4>1. Min(ends) \in ends
        <5> HIDE DEF ends
        <5>1. QED
          BY <2>2, <3>1, MinOfSet
      <4>2. QED
        BY <3>2, <4>1
    <3> HIDE DEF last, chain
    <3>4. QED
      BY <1>2, <3>3
  <2> HIDE DEF last, ends
  <2>3. QED
    BY <2>1, <2>2
<1>4. k \in hits
  <2>1. hits # {} /\ k = Min(hits)
    BY DEF Lookup
  <2>2. hits \subseteq Nat
    <3> HIDE DEF last, unit
    <3>1. DOMAIN seen = 1 .. last
      BY <1>1
    <3>2. QED
      BY <1>3, <3>1
  <2> HIDE DEF hits, k
  <2>3. QED
    BY <2>1, <2>2, MinOfSet
<1>5. k \in 1 .. last /\ seen[k] = unit(k - 1) /\ Matches(name, seen, k)
  <2> HIDE DEF last, unit
  <2>1. k \in DOMAIN seen /\ Matches(name, seen, k)
    BY <1>4
  <2> HIDE DEF k, seen
  <2>2. QED
    BY <1>1, <2>1
<1>6. k - 1 \in Nat /\ k - 1 < Len(chain) * UNITS
  <2> HIDE DEF last, k, chain
  <2>1. QED
    BY <1>2, <1>3, <1>5
<1>7. (k - 1) \div UNITS + 1 \in 1 .. Len(chain) /\ ((k - 1) % UNITS) \in 0 .. UNITS - 1
  <2> HIDE DEF k, chain
  <2>1. QED
    BY <1>2, <1>6, InChain
<1>8. chain[(k - 1) \div UNITS + 1] \in Cluster
  <2> HIDE DEF k, chain
  <2>1. QED
    BY <1>2, <1>7
<1>9. seen[k] \in UNION {{disk[c][i] : i \in 0 .. UNITS - 1} : c \in Cluster}
  <2> HIDE DEF k, chain, seen, last
  <2>1. QED
    BY <1>5, <1>7, <1>8
<1> HIDE DEF k, seen
<1>10. seen[k] \in Entries
  BY <1>5, <1>9 DEF Entries, EntriesOn, Matches
<1>11. QED
  BY <1>10 DEF seen, k

(* A new node says what an entry said.                                     *)
LEMMA FinddirStep ==
  ASSUME Inv, NEW h \in Handle, NEW dir \in Dirs, NEW name \in Name,
         fat32_finddir(h, dir, name)
  PROVE  Inv'
<1> DEFINE entry == Visible(dir)[Lookup(dir, name)]
<1>1. /\ op = Idle /\ node[h] = NoNode /\ Lookup(dir, name) # 0
      /\ node' = [node EXCEPT ![h] =
                    [kind |-> entry.kind, first |-> entry.first, size |-> entry.size]]
      /\ UNCHANGED <<fat, disk_fat, disk, op, written>>
  BY DEF fat32_finddir
<1>2. Types /\ Tables /\ Starts /\ Apart /\ EntriesTyped
  BY DEF Inv
<1>3. dir \in Cluster
  BY <1>2, DirsKnown
<1>4. entry \in Entries
  BY <1>1, <1>2, <1>3, FoundIsEntry DEF Types
<1> HIDE DEF entry
<1>5. /\ entry.kind \in {"file", "dir"} /\ entry.first \in Cluster \cup {0} /\ entry.size \in Nat
      /\ entry.first = 0 => entry.kind = "file" /\ entry.size = 0
  BY <1>2, <1>4 DEF EntriesTyped
<1> DEFINE new == [kind |-> entry.kind, first |-> entry.first, size |-> entry.size]
<1>6. new \in FileNode \cup DirNode
  BY <1>5 DEF FileNode, DirNode
<1>7. node \in [Handle -> FileNode \cup DirNode \cup {NoNode}]
  BY <1>2 DEF Types
<1>8. \A g \in Handle : node'[g] = IF g = h THEN new ELSE node[g]
  BY <1>1, <1>7
<1>9. new.kind = entry.kind /\ new.first = entry.first /\ new.size = entry.size
  OBVIOUS
<1> HIDE DEF new
<1>10. /\ node' \in [Handle -> FileNode \cup DirNode \cup {NoNode}]
       /\ \A g \in Handle : node'[g].first = 0 => node'[g].size = 0
  <2>1. node' \in [Handle -> FileNode \cup DirNode \cup {NoNode}]
    BY <1>1, <1>6, <1>7 DEF new
  <2>2. \A g \in Handle : node'[g].first = 0 => node'[g].size = 0
    BY <1>2, <1>5, <1>8, <1>9 DEF Types
  <2>3. QED
    BY <2>1, <2>2
<1>11. Types' /\ EntriesTyped' /\ Tables' /\ Stored' /\ Entries' = Entries
  <2>1. Tables' /\ Keeps(fat, fat')
    BY <1>1, <1>2 DEF Tables, Lags, Keeps, Linked
  <2>2. fat' \in Table /\ disk_fat' \in Table
        /\ op' \in CreateOp \cup WriteOp \cup {Idle, Overrun}
    BY <1>1, <1>2 DEF Types
  <2>3. disk' = disk /\ written' = written
    BY <1>1
  <2>4. QED
    BY <1>10, <2>1, <2>2, <2>3, QuietStep
<1>12. \A f \in Cluster : FileStart(f)' => FileStart(f)
  BY <1>1, <1>4, <1>8, <1>9, <1>11 DEF FileStart
<1>13. \A f \in Cluster : DirStart(f)' => DirStart(f)
  BY <1>1, <1>4, <1>8, <1>9, <1>11 DEF DirStart
<1>14. Starts' /\ Apart'
  <2>1. \A f \in Cluster : Known(f) => Start(fat', f) /\ Start(disk_fat', f)
    BY <1>1, <1>2 DEF Starts
  <2>2. QED
    BY <1>2, <1>12, <1>13, <2>1, StartsKept
<1>15. QED
  BY <1>1, <1>11, <1>14, BetweenOps DEF Inv

(* A node is forgotten; what was written through it is still in its place. *)
LEMMA CloseStep ==
  ASSUME Inv, NEW h \in Handle, fat32_close(h)
  PROVE  Inv'
<1>1. /\ op = Idle /\ node' = [node EXCEPT ![h] = NoNode]
      /\ UNCHANGED <<fat, disk_fat, disk, op, written>>
  BY DEF fat32_close
<1>2. Types /\ Tables /\ Starts /\ Apart
  BY DEF Inv
<1>3. node \in [Handle -> FileNode \cup DirNode \cup {NoNode}]
  BY <1>2 DEF Types
<1>4. \A g \in Handle : node'[g] = IF g = h THEN NoNode ELSE node[g]
  BY <1>1, <1>3
<1>5. NoNode.kind = "none" /\ NoNode.size = 0
  BY DEF NoNode
<1>6. /\ node' \in [Handle -> FileNode \cup DirNode \cup {NoNode}]
      /\ \A g \in Handle : node'[g].first = 0 => node'[g].size = 0
  <2>1. node' \in [Handle -> FileNode \cup DirNode \cup {NoNode}]
    BY <1>1, <1>3
  <2>2. \A g \in Handle : node'[g].first = 0 => node'[g].size = 0
    BY <1>2, <1>4, <1>5 DEF Types
  <2>3. QED
    BY <2>1, <2>2
<1>7. Types' /\ EntriesTyped' /\ Tables' /\ Stored' /\ Entries' = Entries
  <2>1. Tables' /\ Keeps(fat, fat')
    BY <1>1, <1>2 DEF Tables, Lags, Keeps, Linked
  <2>2. fat' \in Table /\ disk_fat' \in Table
        /\ op' \in CreateOp \cup WriteOp \cup {Idle, Overrun}
    BY <1>1, <1>2 DEF Types
  <2>3. disk' = disk /\ written' = written
    BY <1>1
  <2>4. QED
    BY <1>6, <2>1, <2>2, <2>3, QuietStep
<1>8. \A f \in Cluster : FileStart(f)' => FileStart(f)
  BY <1>1, <1>4, <1>5, <1>7 DEF FileStart
<1>9. \A f \in Cluster : DirStart(f)' => DirStart(f)
  BY <1>1, <1>4, <1>5, <1>7 DEF DirStart
<1>10. Starts' /\ Apart'
  <2>1. \A f \in Cluster : Known(f) => Start(fat', f) /\ Start(disk_fat', f)
    BY <1>1, <1>2 DEF Starts
  <2>2. QED
    BY <1>2, <1>8, <1>9, <2>1, StartsKept
<1>11. QED
  BY <1>1, <1>7, <1>10, BetweenOps DEF Inv

(* fat32_write begins at the first cluster of its file.                    *)
LEMMA WriteStep ==
  ASSUME Inv, NEW h \in Handle, NEW offset \in 0 .. MaxEnd, NEW count \in WriteSizes,
         NEW byte \in Byte, fat32_write(h, offset, count, byte)
  PROVE  Inv'
<1>1. /\ op = Idle /\ node[h].kind = "file"
      /\ op' = [pc |-> IF node[h].first = 0 THEN "first" ELSE "walk",
                h |-> h, cur |-> node[h].first, skip |-> offset \div UNITS,
                pos |-> offset, left |-> count, byte |-> byte,
                last |-> 0, at |-> 0, then |-> "extended"]
      /\ UNCHANGED <<fat, disk_fat, disk, node, written>>
  BY DEF fat32_write
<1>2. Types
  BY DEF Inv
<1>3. node[h].first \in Cluster \cup {0}
  <2>1. node[h] \in FileNode \cup DirNode \cup {NoNode}
    BY <1>2 DEF Types
  <2>2. QED
    BY <2>1 DEF FileNode, DirNode, NoNode
<1>4. offset \in Nat /\ offset \div UNITS \in Nat /\ count \in Nat
  BY Fat32Constants, Numbers
<1>5. op' \in WriteOp
  BY <1>1, <1>3, <1>4 DEF WriteOp
<1>6. op'.pc \in {"first", "walk"}
  BY <1>1
<1>7. /\ Types' /\ EntriesTyped' /\ Tables' /\ Stored' /\ Starts' /\ Apart'
  BY <1>1, <1>5, <1>6, OnlyOp
<1>8. Extending'
  BY <1>6 DEF Extending
<1>9. Creating'
  <2>1. op' \notin CreateOp
    BY <1>6 DEF CreateOp
  <2>2. QED
    BY <2>1 DEF Creating
<1>10. Writing'
  <2>1. /\ op'.h = h /\ op'.skip = offset \div UNITS /\ op'.pos = offset
        /\ op'.cur = node[h].first /\ node'[h] = node[h]
    BY <1>1
  <2>2. op'.pc # "first" => node[h].first \in Cluster
    BY <1>1, <1>3
  <2>3. op'.pc # "first" => Nth(fat', node[h].first, 1, op'.cur)
    BY <1>1, <1>2, <2>1, <2>2, NthFirst DEF Types
  <2>4. op'.pos \div UNITS + 1 - op'.skip = 1 /\ op'.skip <= op'.pos \div UNITS
    BY <1>4, <2>1
  <2>5. QED
    BY <1>1, <1>6, <2>1, <2>2, <2>3, <2>4 DEF Writing
<1>11. QED
  BY <1>7, <1>8, <1>9, <1>10 DEF Inv

(* What a step does whose allocation failed.                               *)
LEMMA AllocFailsStep ==
  ASSUME Inv, AllocFails, op' = Idle, UNCHANGED <<disk, node, written>>
  PROVE  Inv'
<1>1. Types /\ Tables /\ Starts /\ Apart
  BY DEF Inv
<1>2. fat \in Table /\ disk_fat \in Table
  BY <1>1 DEF Types
<1>3. /\ fat' \in Table /\ disk_fat' \in Table /\ Tables' /\ Keeps(fat, fat')
      /\ \A f : Start(fat, f) => Start(fat', f)
      /\ \A f : Start(fat, f) /\ Start(disk_fat, f) => Start(disk_fat', f)
  BY <1>1, <1>2, NotMarked
<1>4. Types' /\ EntriesTyped' /\ Tables' /\ Stored' /\ Entries' = Entries
  <2>1. /\ node' \in [Handle -> FileNode \cup DirNode \cup {NoNode}]
        /\ \A h \in Handle : node'[h].first = 0 => node'[h].size = 0
    BY <1>1 DEF Types
  <2>2. QED
    BY <1>3, <2>1, QuietStep
<1>5. \A f \in Cluster : FileStart(f)' => FileStart(f)
  BY <1>4 DEF FileStart
<1>6. \A f \in Cluster : DirStart(f)' => DirStart(f)
  BY <1>4, BetweenOps DEF DirStart
<1>7. Starts' /\ Apart'
  <2>1. \A f \in Cluster : Known(f) => Start(fat', f) /\ Start(disk_fat', f)
    BY <1>1, <1>3 DEF Starts
  <2>2. QED
    BY <1>1, <1>5, <1>6, <2>1, StartsKept
<1>8. QED
  BY <1>4, <1>7, BetweenOps DEF Inv

(* The cluster that will extend a chain is marked and belongs to none yet. *)
LEMMA ExtendAllocStep ==
  ASSUME Inv, extend_alloc
  PROVE  Inv'
<1>1. op.pc = "extend" /\ UNCHANGED <<disk, node, written>>
  BY Zenon DEF extend_alloc
<1>2. CASE AllocFails /\ op' = Idle
  BY <1>1, <1>2, AllocFailsStep
<1>3. ASSUME NEW c \in Cluster, AllocOk(c), op' = [op EXCEPT !.pc = "link", !.at = c]
      PROVE  Inv'
  <2>1. Types /\ Tables /\ Starts /\ Apart /\ Extending /\ Creating /\ Writing
    BY DEF Inv
  <2>2. fat \in Table /\ disk_fat \in Table /\ op \in CreateOp \cup WriteOp \cup {Idle, Overrun}
    BY <2>1 DEF Types
  <2>3. /\ fat' \in Table /\ disk_fat' \in Table /\ Tables' /\ Keeps(fat, fat')
        /\ \A f : Start(fat, f) => Start(fat', f) /\ Start(disk_fat', f)
        /\ fat[c] = FREE /\ \A d \in Cluster : fat'[d] = IF d = c THEN EOC ELSE fat[d]
        /\ Start(fat', c) /\ Start(disk_fat', c)
    BY <1>3, <2>1, <2>2, Marked
  <2>4. op \in CreateOp \/ op \in WriteOp
    BY <1>1, <2>2, OpKinds
  <2>5. /\ op \in CreateOp => op' \in CreateOp /\ op'.dir = op.dir /\ op'.first = op.first
        /\ op \in WriteOp => /\ op' \in WriteOp /\ op'.h = op.h /\ op'.skip = op.skip
                             /\ op'.pos = op.pos /\ op'.cur = op.cur
        /\ op'.pc = "link" /\ op'.at = c /\ op'.last = op.last
    <3>1. CASE op \in CreateOp
      <4>1. op' \in CreateOp /\ op'.dir = op.dir /\ op'.first = op.first
        BY <1>3, <3>1 DEF CreateOp
      <4>2. op'.pc = "link" /\ op'.at = c /\ op'.last = op.last
        BY <1>3, <3>1 DEF CreateOp
      <4>3. op \notin WriteOp
        BY <2>2, <3>1, OpKinds
      <4>4. QED
        BY <4>1, <4>2, <4>3
    <3>2. CASE op \in WriteOp
      <4>1. /\ op' \in WriteOp /\ op'.h = op.h /\ op'.skip = op.skip
            /\ op'.pos = op.pos /\ op'.cur = op.cur
        BY <1>3, <3>2 DEF WriteOp
      <4>2. op'.pc = "link" /\ op'.at = c /\ op'.last = op.last
        BY <1>3, <3>2 DEF WriteOp
      <4>3. op \notin CreateOp
        BY <2>2, <3>2, OpKinds
      <4>4. QED
        BY <4>1, <4>2, <4>3
    <3>3. QED
      BY <2>4, <3>1, <3>2
  <2>6. Types' /\ EntriesTyped' /\ Tables' /\ Stored' /\ Entries' = Entries
    <3>1. /\ node' \in [Handle -> FileNode \cup DirNode \cup {NoNode}]
          /\ \A h \in Handle : node'[h].first = 0 => node'[h].size = 0
      BY <1>1, <2>1 DEF Types
    <3>2. disk' = disk /\ written' = written /\ op' \in CreateOp \cup WriteOp \cup {Idle, Overrun}
      BY <1>1, <2>4, <2>5
    <3>3. QED
      BY <2>3, <3>1, <3>2, QuietStep
  <2>7. \A f \in Cluster : FileStart(f)' => FileStart(f)
    BY <1>1, <2>6 DEF FileStart
  <2>8. \A f \in Cluster : DirStart(f)' => DirStart(f)
    BY <1>1, <2>5, <2>6 DEF DirStart
  <2>9. Starts' /\ Apart'
    <3>1. \A f \in Cluster : Known(f) => Start(fat', f) /\ Start(disk_fat', f)
      BY <2>1, <2>3 DEF Starts
    <3>2. QED
      BY <2>1, <2>7, <2>8, <3>1, StartsKept
  <2>10. Extending'
    <3>1. op.last \in Cluster /\ fat[op.last] = EOC
      BY <1>1, <2>1 DEF Extending
    <3>2. op.last # c /\ fat'[op.last] = EOC
      BY <2>3, <3>1, Numbers
    <3>3. ~ FileStart(c)' /\ ~ DirStart(c)'
      <4>1. ~ Known(c)
        BY <2>1, <2>3 DEF Starts, Start
      <4>2. QED
        BY <2>7, <2>8, <4>1 DEF Known
    <3>4. ~ Known(op.at)'
      BY <2>5, <3>3 DEF Known, FileStart, DirStart
    <3>5. Start(fat', op'.at) /\ fat'[op'.at] = EOC /\ disk_fat'[op'.at] # FREE
      BY <2>3, <2>5 DEF Start
    <3>6. QED
      BY <2>5, <3>1, <3>2, <3>4, <3>5 DEF Extending
  <2>11. Creating'
    <3> SUFFICES ASSUME op' \in CreateOp PROVE Creating'
      BY DEF Creating
    <3>1. op \in CreateOp /\ op'.dir = op.dir /\ op'.first = op.first
      <4>1. op' \notin WriteOp
        BY <2>6, OpKinds DEF CreateOp, WriteOp
      <4>2. QED
        BY <2>4, <2>5, <4>1
    <3>2. op.dir \in Dirs /\ op.dir \in Cluster
      BY <2>1, <3>1, DirsKnown DEF Creating
    <3>3. (op.dir \in Dirs)'
      BY <1>1, <3>1, <3>2 DEF Dirs
    <3>4. PICK k \in Nat : Nth(fat, op.dir, k, op.last)
      BY <1>1, <2>1, <3>1 DEF Creating
    <3>5. Nth(fat', op'.dir, k, op'.last)
      BY <2>2, <2>3, <2>5, <3>1, <3>2, <3>4, NthKept
    <3>6. op'.first = 0
      BY <1>1, <2>1, <3>1 DEF Creating
    <3>7. QED
      BY <2>5, <3>3, <3>5, <3>6 DEF Creating
  <2>12. Writing'
    <3> SUFFICES ASSUME op' \in WriteOp PROVE Writing'
      BY DEF Writing
    <3>1. /\ op \in WriteOp /\ op'.h = op.h /\ op'.skip = op.skip
          /\ op'.pos = op.pos /\ op'.cur = op.cur
      <4>1. op' \notin CreateOp
        BY DEF CreateOp, WriteOp
      <4>2. QED
        BY <2>4, <2>5, <4>1
    <3>2. /\ node[op.h].kind = "file" /\ node[op.h].first \in Cluster
          /\ op.skip <= op.pos \div UNITS /\ op.last = op.cur /\ op.skip > 0
          /\ Nth(fat, node[op.h].first, op.pos \div UNITS + 1 - op.skip, op.cur)
      BY <1>1, <2>1, <3>1 DEF Writing
    <3>3. Nth(fat', node[op.h].first, op.pos \div UNITS + 1 - op.skip, op.cur)
      BY <2>2, <2>3, <3>2, NthKept
    <3>4. QED
      BY <1>1, <2>5, <3>1, <3>2, <3>3 DEF Writing
  <2>13. QED
    BY <2>6, <2>9, <2>10, <2>11, <2>12 DEF Inv
<1>4. QED
  BY <1>2, <1>3, Zenon DEF extend_alloc

(* It is linked to the end of the chain, and other chains stay apart from  *)
(* it.                                                                     *)
LEMMA ExtendLinkStep ==
  ASSUME Inv, extend_link
  PROVE  Inv'
<1>1. /\ op.pc = "link"
      /\ fat' = [fat EXCEPT ![op.last] = op.at]
      /\ FatPartlyWritten
      /\ op' = [op EXCEPT !.pc = op.then]
      /\ UNCHANGED <<disk, node, written>>
  BY DEF extend_link
<1>2. Types /\ Tables /\ Starts /\ Apart /\ Extending /\ Creating /\ Writing
  BY DEF Inv
<1>3. fat \in Table /\ disk_fat \in Table /\ op \in CreateOp \cup WriteOp \cup {Idle, Overrun}
  BY <1>2 DEF Types
<1>4. /\ op.last \in Cluster /\ fat[op.last] = EOC
      /\ Start(fat, op.at) /\ fat[op.at] = EOC /\ disk_fat[op.at] # FREE
      /\ ~Known(op.at) /\ op.at # op.last
  BY <1>1, <1>2 DEF Extending
<1>5. /\ fat' \in Table /\ disk_fat' \in Table /\ Tables' /\ Keeps(fat, fat')
      /\ \A f : Start(fat, f) /\ f # op.at => Start(fat', f)
      /\ \A f : Start(fat, f) /\ f # op.at /\ Start(disk_fat, f) => Start(disk_fat', f)
      /\ fat'[op.last] = op.at /\ op.at \in Cluster
  BY <1>1, <1>2, <1>3, <1>4, LinkedTable
<1>6. op \in CreateOp \/ op \in WriteOp
  BY <1>1, <1>3, OpKinds
<1>7. ASSUME op \in CreateOp
      PROVE  /\ op' \in CreateOp \cup WriteOp /\ op'.pc \notin {"dir_init", "entry"}
             /\ Creating' /\ Writing' /\ Extending'
  <2>1. op.then = "clear" /\ op \notin WriteOp
    BY <1>3, <1>7, OpKinds
  <2>2. op' \in CreateOp
    BY <1>1, <1>7, <2>1 DEF CreateOp
  <2>3. op'.pc = "clear" /\ op'.dir = op.dir /\ op'.at = op.at /\ op'.first = op.first
    BY <1>1, <1>7, <2>1 DEF CreateOp
  <2>4. op' \notin WriteOp
    BY <2>3 DEF WriteOp
  <2>5. op.dir \in Dirs /\ DirStart(op.dir) /\ op.dir \in Cluster /\ Start(fat, op.dir)
    <3>1. op.dir \in Dirs
      BY <1>2, <1>7 DEF Creating
    <3>2. DirStart(op.dir) /\ op.dir \in Cluster
      BY <1>2, <3>1, DirsKnown
    <3>3. QED
      BY <1>2, <3>1, <3>2 DEF Starts, Known
  <2>6. Start(fat', op.dir)
    BY <1>4, <1>5, <2>5 DEF Known
  <2>7. PICK k \in Nat : Nth(fat, op.dir, k, op.last)
    BY <1>1, <1>2, <1>7 DEF Creating
  <2>8. Nth(fat', op.dir, k, op.last)
    BY <1>3, <1>5, <2>5, <2>7, NthKept
  <2>9. Nth(fat', op.dir, k + 1, op.at)
    <3>1. Linked(fat')
      BY <1>5 DEF Tables, Linked
    <3>2. QED
      BY <1>5, <2>6, <2>8, <3>1, NthNext
  <2>10. (op.dir \in Dirs)'
    BY <1>1, <2>3, <2>5 DEF Dirs
  <2>11. Creating'
    <3>1. \E n \in Nat : Nth(fat', op'.dir, n, op'.at)
      BY <2>3, <2>9
    <3>2. op'.first = 0
      BY <1>1, <1>2, <1>7, <2>3 DEF Creating
    <3>3. QED
      BY <2>3, <2>10, <3>1, <3>2 DEF Creating
  <2>12. Writing' /\ Extending'
    BY <2>3, <2>4 DEF Writing, Extending
  <2>13. QED
    BY <2>2, <2>3, <2>11, <2>12
<1>8. ASSUME op \in WriteOp
      PROVE  /\ op' \in CreateOp \cup WriteOp /\ op'.pc \notin {"dir_init", "entry"}
             /\ Creating' /\ Writing' /\ Extending'
  <2>1. op.then = "extended" /\ op \notin CreateOp
    BY <1>3, <1>8, OpKinds
  <2>2. op' \in WriteOp
    BY <1>1, <1>8, <2>1 DEF WriteOp
  <2>3. /\ op'.pc = "extended" /\ op'.h = op.h /\ op'.cur = op.cur /\ op'.at = op.at
        /\ op'.skip = op.skip /\ op'.pos = op.pos
    BY <1>1, <1>8, <2>1 DEF WriteOp
  <2>4. op' \notin CreateOp
    BY <2>3 DEF CreateOp
  <2>5. /\ node[op.h].kind = "file" /\ node[op.h].first \in Cluster
        /\ op.skip <= op.pos \div UNITS /\ op.last = op.cur /\ op.skip > 0
        /\ Nth(fat, node[op.h].first, op.pos \div UNITS + 1 - op.skip, op.cur)
    BY <1>1, <1>2, <1>8 DEF Writing
  <2>6. Nth(fat', node[op.h].first, op.pos \div UNITS + 1 - op.skip, op.cur)
    BY <1>3, <1>5, <2>5, NthKept
  <2>7. Writing'
    BY <1>1, <1>5, <2>3, <2>5, <2>6 DEF Writing
  <2>8. Creating' /\ Extending'
    BY <2>3, <2>4 DEF Creating, Extending
  <2>9. QED
    BY <2>2, <2>3, <2>7, <2>8
<1>9. /\ op' \in CreateOp \cup WriteOp \cup {Idle, Overrun} /\ op'.pc \notin {"dir_init", "entry"}
      /\ Creating' /\ Writing' /\ Extending'
  BY <1>6, <1>7, <1>8
<1>10. Types' /\ EntriesTyped' /\ Tables' /\ Stored' /\ Entries' = Entries
  <2>1. /\ node' \in [Handle -> FileNode \cup DirNode \cup {NoNode}]
        /\ \A h \in Handle : node'[h].first = 0 => node'[h].size = 0
    BY <1>1, <1>2 DEF Types
  <2>2. QED
    BY <1>1, <1>5, <1>9, <2>1, QuietStep
<1>11. \A f \in Cluster : FileStart(f)' => FileStart(f)
  BY <1>1, <1>10 DEF FileStart
<1>12. \A f \in Cluster : DirStart(f)' => DirStart(f)
  BY <1>1, <1>9, <1>10 DEF DirStart
<1>13. Starts' /\ Apart'
  <2>1. \A f \in Cluster : Known(f) => Start(fat', f) /\ Start(disk_fat', f)
    BY <1>1, <1>2, <1>4, <1>5 DEF Starts
  <2>2. QED
    BY <1>2, <1>11, <1>12, <2>1, StartsKept
<1>14. QED
  BY <1>9, <1>10, <1>13 DEF Inv

(* Where one cluster in no chain becomes a start, starts stay as they must *)
(* be.                                                                     *)
LEMMA StartsGrown ==
  ASSUME Starts, Apart, NEW c \in Cluster, ~Known(c),
         Start(fat', c), Start(disk_fat', c), ~ (FileStart(c)' /\ DirStart(c)'),
         \A f \in Cluster : FileStart(f)' => FileStart(f) \/ f = c,
         \A f \in Cluster : DirStart(f)' => DirStart(f) \/ f = c,
         \A f \in Cluster : Known(f) => Start(fat', f) /\ Start(disk_fat', f)
  PROVE  Starts' /\ Apart'
<1>1. \A f \in Cluster : Known(f)' => Known(f) \/ f = c
  BY DEF Known
<1>2. Starts'
  <2> SUFFICES ASSUME NEW f \in Cluster, Known(f)'
               PROVE  Start(fat', f) /\ Start(disk_fat', f)
    BY DEF Starts, Start
  <2>1. QED
    BY <1>1
<1>3. Apart'
  <2> SUFFICES ASSUME NEW f \in Cluster PROVE ~ (FileStart(f)' /\ DirStart(f)')
    BY DEF Apart
  <2>1. QED
    BY DEF Apart
<1>4. QED
  BY <1>2, <1>3

(* A new directory gets a cluster of its own.                              *)
LEMMA CreateDirAllocStep ==
  ASSUME Inv, create_dir_alloc
  PROVE  Inv'
<1>1. op.pc = "dir_alloc" /\ UNCHANGED <<disk, node, written>>
  BY Zenon DEF create_dir_alloc
<1>2. CASE AllocFails /\ op' = Idle
  BY <1>1, <1>2, AllocFailsStep
<1>3. ASSUME NEW c \in Cluster, AllocOk(c), op' = [op EXCEPT !.pc = "dir_init", !.first = c]
      PROVE  Inv'
  <2>1. Types /\ Tables /\ Starts /\ Apart /\ Creating
    BY DEF Inv
  <2>2. fat \in Table /\ disk_fat \in Table /\ op \in CreateOp \cup WriteOp \cup {Idle, Overrun}
    BY <2>1 DEF Types
  <2>3. /\ fat' \in Table /\ disk_fat' \in Table /\ Tables' /\ Keeps(fat, fat')
        /\ \A f : Start(fat, f) => Start(fat', f) /\ Start(disk_fat', f)
        /\ fat[c] = FREE /\ Start(fat', c) /\ Start(disk_fat', c)
    BY <1>3, <2>1, <2>2, Marked
  <2>4. op \in CreateOp
    BY <1>1, <2>2, OpKinds
  <2>5. op' \in CreateOp
    BY <1>3, <2>4 DEF CreateOp
  <2>6. /\ op'.pc = "dir_init" /\ op'.first = c /\ op'.dir = op.dir /\ op'.at = op.at
        /\ op'.kind = op.kind
    BY <1>3, <2>4 DEF CreateOp
  <2>7. Types' /\ EntriesTyped' /\ Tables' /\ Stored' /\ Entries' = Entries
    <3>1. /\ node' \in [Handle -> FileNode \cup DirNode \cup {NoNode}]
          /\ \A h \in Handle : node'[h].first = 0 => node'[h].size = 0
      BY <1>1, <2>1 DEF Types
    <3>2. disk' = disk /\ written' = written /\ op' \in CreateOp \cup WriteOp \cup {Idle, Overrun}
      BY <1>1, <2>5
    <3>3. QED
      BY <2>3, <3>1, <3>2, QuietStep
  <2>8. ~Known(c)
    BY <2>1, <2>3 DEF Starts, Start
  <2>9. \A f \in Cluster : FileStart(f)' => FileStart(f)
    BY <1>1, <2>7 DEF FileStart
  <2>10. \A f \in Cluster : DirStart(f)' => DirStart(f) \/ f = c
    BY <1>1, <2>6, <2>7 DEF DirStart
  <2>11. Starts' /\ Apart'
    <3>1. \A f \in Cluster : Known(f) => Start(fat', f) /\ Start(disk_fat', f)
      BY <2>1, <2>3 DEF Starts
    <3>2. ~ FileStart(c)'
      BY <2>8, <2>9 DEF Known
    <3>3. QED
      BY <2>1, <2>3, <2>8, <2>9, <2>10, <3>1, <3>2, StartsGrown
  <2>12. Creating'
    <3>1. op.dir \in Dirs /\ op.dir \in Cluster
      BY <2>1, <2>4, DirsKnown DEF Creating
    <3>2. (op.dir \in Dirs)'
      BY <1>1, <2>6, <3>1 DEF Dirs
    <3>3. PICK k \in Nat : Nth(fat, op.dir, k, op.at)
      BY <1>1, <2>1, <2>4 DEF Creating
    <3>4. Nth(fat', op'.dir, k, op'.at)
      BY <2>2, <2>3, <2>6, <3>1, <3>3, NthKept
    <3>5. \E n \in Nat : Nth(fat', op'.dir, n, op'.at)
      BY <3>4
    <3>6. op'.kind = "dir" /\ op'.first # 0
      BY <1>1, <2>1, <2>4, <2>6, Numbers DEF Creating, FREE
    <3>7. QED
      BY <2>6, <3>2, <3>5, <3>6 DEF Creating
  <2>13. Writing' /\ Extending'
    <3>1. op' \notin WriteOp
      BY <2>6 DEF WriteOp
    <3>2. QED
      BY <2>6, <3>1 DEF Writing, Extending
  <2>14. QED
    BY <2>7, <2>11, <2>12, <2>13 DEF Inv
<1>4. QED
  BY <1>2, <1>3, Zenon DEF create_dir_alloc

(* An empty file gets a cluster of its own, in its node.                   *)
LEMMA WriteFirstStep ==
  ASSUME Inv, write_first
  PROVE  Inv'
<1>1. op.pc = "first" /\ UNCHANGED <<disk, written>>
  BY Zenon DEF write_first
<1>2. CASE AllocFails /\ op' = Idle /\ UNCHANGED node
  BY <1>1, <1>2, AllocFailsStep
<1>3. ASSUME NEW c \in Cluster, AllocOk(c), op' = [op EXCEPT !.pc = "walk", !.cur = c],
             node' = [node EXCEPT ![op.h].first = c]
      PROVE  Inv'
  <2>1. Types /\ Tables /\ Starts /\ Apart /\ Writing
    BY DEF Inv
  <2>2. fat \in Table /\ disk_fat \in Table /\ op \in CreateOp \cup WriteOp \cup {Idle, Overrun}
    BY <2>1 DEF Types
  <2>3. /\ fat' \in Table /\ disk_fat' \in Table /\ Tables' /\ Keeps(fat, fat')
        /\ \A f : Start(fat, f) => Start(fat', f) /\ Start(disk_fat', f)
        /\ fat[c] = FREE /\ Start(fat', c) /\ Start(disk_fat', c)
    BY <1>3, <2>1, <2>2, Marked
  <2>4. op \in WriteOp
    BY <1>1, <2>2, OpKinds
  <2>5. op' \in WriteOp /\ op.h \in Handle /\ op.pos \in Nat
    BY <1>3, <2>4 DEF WriteOp
  <2>6. /\ op'.pc = "walk" /\ op'.cur = c /\ op'.h = op.h /\ op'.pos = op.pos
        /\ op'.skip = op.skip
    BY <1>3, <2>4 DEF WriteOp
  <2>7. node[op.h].kind = "file" /\ op.skip = op.pos \div UNITS
    BY <1>1, <2>1, <2>4 DEF Writing
  <2>8. node \in [Handle -> FileNode \cup DirNode \cup {NoNode}]
    BY <2>1 DEF Types
  <2>9. node[op.h] \in FileNode
    BY <2>5, <2>7, <2>8 DEF FileNode, DirNode, NoNode
  <2> DEFINE new == [node[op.h] EXCEPT !.first = c]
  <2>10. new \in FileNode /\ new.kind = "file" /\ new.first = c
    BY <2>9 DEF FileNode
  <2>11. node' = [node EXCEPT ![op.h] = new]
    BY <1>3
  <2> HIDE DEF new
  <2>12. \A h \in Handle : node'[h] = IF h = op.h THEN new ELSE node[h]
    BY <2>8, <2>11
  <2>13. Types' /\ EntriesTyped' /\ Tables' /\ Stored' /\ Entries' = Entries
    <3>1. node' \in [Handle -> FileNode \cup DirNode \cup {NoNode}]
      BY <2>8, <2>10, <2>11
    <3>2. \A h \in Handle : node'[h].first = 0 => node'[h].size = 0
      BY <2>1, <2>10, <2>12, Numbers DEF Types, FREE
    <3>3. disk' = disk /\ written' = written /\ op' \in CreateOp \cup WriteOp \cup {Idle, Overrun}
      BY <1>1, <2>5
    <3>4. QED
      BY <2>3, <3>1, <3>2, <3>3, QuietStep
  <2>14. ~Known(c)
    BY <2>1, <2>3 DEF Starts, Start
  <2>15. \A f \in Cluster : FileStart(f)' => FileStart(f) \/ f = c
    BY <1>1, <2>10, <2>12, <2>13 DEF FileStart
  <2>16. \A f \in Cluster : DirStart(f)' => DirStart(f)
    BY <1>1, <2>6, <2>10, <2>12, <2>13 DEF DirStart
  <2>17. Starts' /\ Apart'
    <3>1. \A f \in Cluster : Known(f) => Start(fat', f) /\ Start(disk_fat', f)
      BY <2>1, <2>3 DEF Starts
    <3>2. ~ DirStart(c)'
      BY <2>14, <2>16 DEF Known
    <3>3. QED
      BY <2>1, <2>3, <2>14, <2>15, <2>16, <3>1, <3>2, StartsGrown
  <2>18. Writing'
    <3>1. op'.pos \div UNITS + 1 - op'.skip = 1 /\ op'.skip <= op'.pos \div UNITS
      <4>1. op.pos \div UNITS \in Nat
        BY <2>5, Numbers
      <4>2. QED
        BY <2>6, <2>7, <4>1
    <3>2. node'[op'.h].kind = "file" /\ node'[op'.h].first = c
      BY <2>5, <2>6, <2>10, <2>12
    <3>3. Nth(fat', c, 1, c)
      BY <2>3, NthFirst
    <3>4. QED
      BY <2>6, <3>1, <3>2, <3>3 DEF Writing
  <2>19. Creating' /\ Extending'
    <3>1. op' \notin CreateOp
      BY <2>6 DEF CreateOp
    <3>2. QED
      BY <2>6, <3>1 DEF Creating, Extending
  <2>20. QED
    BY <2>13, <2>17, <2>18, <2>19 DEF Inv
<1>4. QED
  BY <1>2, <1>3, Zenon DEF write_first

(* A write never leaves the chain of its file, whose last cluster is       *)
(* marked as the end.                                                      *)
LEMMA WritePlace ==
  ASSUME Inv, op \in WriteOp, op.pc # "first"
  PROVE  /\ op.h \in Handle /\ op.pos \in Nat /\ op.skip \in Nat
         /\ node[op.h].kind = "file" /\ FileStart(node[op.h].first)
         /\ Start(fat, node[op.h].first)
         /\ Nth(fat, node[op.h].first, op.pos \div UNITS + 1 - op.skip, op.cur)
         /\ op.cur \in Cluster /\ fat[op.cur] # FREE
<1>1. Types /\ Tables /\ Starts /\ Writing
  BY DEF Inv
<1>2. fat \in Table /\ Linked(fat)
  BY <1>1 DEF Types, Tables
<1>3. op.h \in Handle /\ op.pos \in Nat /\ op.skip \in Nat
  BY DEF WriteOp
<1>4. /\ node[op.h].kind = "file" /\ node[op.h].first \in Cluster
      /\ Nth(fat, node[op.h].first, op.pos \div UNITS + 1 - op.skip, op.cur)
  BY <1>1 DEF Writing
<1>5. FileStart(node[op.h].first)
  BY <1>3, <1>4 DEF FileStart
<1>6. Start(fat, node[op.h].first)
  BY <1>1, <1>4, <1>5 DEF Starts, Known
<1>7. op.cur \in Cluster
  BY <1>2, <1>4, NthKept DEF Keeps
<1>8. fat[op.cur] # FREE
  BY <1>2, <1>4, <1>6, ChainEnds DEF Nth
<1>9. QED
  BY <1>3, <1>4, <1>5, <1>6, <1>7, <1>8

(* The next cluster of the file is one place on.                           *)
LEMMA WriteMoves ==
  ASSUME Inv, op \in WriteOp, op.pc # "first", op.skip > 0,
         op.skip <= op.pos \div UNITS, fat[op.cur] \in Cluster
  PROVE  /\ op.skip - 1 \in Nat
         /\ op.skip - 1 <= op.pos \div UNITS
         /\ Nth(fat, node[op.h].first, op.pos \div UNITS + 1 - (op.skip - 1), fat[op.cur])
<1>1. /\ op.pos \in Nat /\ op.skip \in Nat
      /\ Start(fat, node[op.h].first)
      /\ Nth(fat, node[op.h].first, op.pos \div UNITS + 1 - op.skip, op.cur)
  BY WritePlace
<1>2. fat \in Table /\ Linked(fat)
  BY DEF Inv, Types, Tables
<1>3. Nth(fat, node[op.h].first, (op.pos \div UNITS + 1 - op.skip) + 1, fat[op.cur])
  BY <1>1, <1>2, NthNext
<1>4. op.pos \div UNITS \in Nat
  BY <1>1, Numbers
<1>5. (op.pos \div UNITS + 1 - op.skip) + 1 = op.pos \div UNITS + 1 - (op.skip - 1)
  BY <1>1, <1>4
<1>6. QED
  BY <1>1, <1>3, <1>4, <1>5

(* A write walks one cluster on, or finds that its file ends there.        *)
LEMMA WriteWalkStep ==
  ASSUME Inv, write_walk
  PROVE  Inv'
<1>1. /\ op.pc = "walk" /\ UNCHANGED <<fat, disk_fat, disk, node, written>>
      /\ op' = IF op.skip = 0 THEN [op EXCEPT !.pc = "data"]
               ELSE IF fat[op.cur] \in Cluster
                 THEN [op EXCEPT !.cur = fat[op.cur], !.skip = op.skip - 1]
               ELSE [op EXCEPT !.pc = "extend", !.last = op.cur]
  BY DEF write_walk
<1>2. Types /\ Writing
  BY DEF Inv
<1>3. op \in WriteOp
  BY <1>1, <1>2, OpKinds DEF Types
<1>4. /\ op.h \in Handle /\ op.pos \in Nat /\ op.skip \in Nat
      /\ node[op.h].kind = "file" /\ node[op.h].first \in Cluster
      /\ Nth(fat, node[op.h].first, op.pos \div UNITS + 1 - op.skip, op.cur)
      /\ op.cur \in Cluster /\ fat[op.cur] # FREE
      /\ op.skip <= op.pos \div UNITS
  BY <1>1, <1>2, <1>3, WritePlace DEF FileStart, Writing
<1>5. /\ op' \in WriteOp /\ op'.pc \in {"walk", "data", "extend"} /\ Extending' /\ Writing'
  <2>1. CASE op.skip = 0
    <3>1. op' = [op EXCEPT !.pc = "data"]
      BY <1>1, <2>1
    <3>2. op' \in WriteOp
      BY <1>3, <3>1 DEF WriteOp
    <3>3. /\ op'.pc = "data" /\ op'.h = op.h /\ op'.pos = op.pos /\ op'.skip = op.skip
          /\ op'.cur = op.cur
      BY <1>3, <3>1 DEF WriteOp
    <3>4. Extending'
      BY <3>3 DEF Extending
    <3>5. Writing'
      BY <1>1, <1>4, <2>1, <3>3 DEF Writing
    <3>6. QED
      BY <3>2, <3>3, <3>4, <3>5
  <2>2. CASE op.skip # 0 /\ fat[op.cur] \in Cluster
    <3>1. op' = [op EXCEPT !.cur = fat[op.cur], !.skip = op.skip - 1]
      BY <1>1, <2>2
    <3>2. /\ op.skip - 1 \in Nat /\ op.skip - 1 <= op.pos \div UNITS
          /\ Nth(fat, node[op.h].first, op.pos \div UNITS + 1 - (op.skip - 1), fat[op.cur])
      BY <1>1, <1>3, <1>4, <2>2, WriteMoves
    <3>3. op' \in WriteOp
      BY <1>3, <2>2, <3>1, <3>2 DEF WriteOp
    <3>4. /\ op'.pc = "walk" /\ op'.h = op.h /\ op'.pos = op.pos /\ op'.skip = op.skip - 1
          /\ op'.cur = fat[op.cur]
      BY <1>1, <1>3, <3>1 DEF WriteOp
    <3>5. Extending'
      BY <3>4 DEF Extending
    <3>6. Writing'
      BY <1>1, <1>4, <3>2, <3>4 DEF Writing
    <3>7. QED
      BY <3>3, <3>4, <3>5, <3>6
  <2>3. CASE op.skip # 0 /\ fat[op.cur] \notin Cluster
    <3>1. op' = [op EXCEPT !.pc = "extend", !.last = op.cur]
      BY <1>1, <2>3
    <3>2. op' \in WriteOp
      BY <1>3, <1>4, <3>1 DEF WriteOp
    <3>3. /\ op'.pc = "extend" /\ op'.h = op.h /\ op'.pos = op.pos /\ op'.skip = op.skip
          /\ op'.cur = op.cur /\ op'.last = op.cur
      BY <1>3, <3>1 DEF WriteOp
    <3>4. fat[op.cur] = EOC
      BY <1>2, <1>4, <2>3 DEF Types, Table
    <3>5. Extending'
      BY <1>1, <1>4, <3>3, <3>4 DEF Extending
    <3>6. Writing'
      BY <1>1, <1>4, <2>3, <3>3 DEF Writing
    <3>7. QED
      BY <3>2, <3>3, <3>5, <3>6
  <2>4. QED
    BY <2>1, <2>2, <2>3
<1>6. /\ Types' /\ EntriesTyped' /\ Tables' /\ Stored' /\ Starts' /\ Apart'
  BY <1>1, <1>5, OnlyOp
<1>7. Creating'
  <2>1. op' \notin CreateOp
    BY <1>5 DEF CreateOp, WriteOp
  <2>2. QED
    BY <2>1 DEF Creating
<1>8. QED
  BY <1>5, <1>6, <1>7 DEF Inv

(* A write goes on in the cluster that its file was extended by.           *)
LEMMA WriteExtendedStep ==
  ASSUME Inv, write_extended
  PROVE  Inv'
<1>1. /\ op.pc = "extended" /\ UNCHANGED <<fat, disk_fat, disk, node, written>>
      /\ op' = [op EXCEPT !.pc = "walk", !.cur = op.at, !.skip = op.skip - 1]
  BY DEF write_extended
<1>2. Types /\ Writing
  BY DEF Inv
<1>3. op \in WriteOp
  BY <1>1, <1>2, OpKinds DEF Types
<1>4. /\ node[op.h].kind = "file" /\ node[op.h].first \in Cluster
      /\ op.skip <= op.pos \div UNITS /\ op.skip > 0
      /\ fat[op.cur] = op.at /\ op.at \in Cluster
  BY <1>1, <1>2, <1>3 DEF Writing
<1>5. /\ op.skip - 1 \in Nat /\ op.skip - 1 <= op.pos \div UNITS
      /\ Nth(fat, node[op.h].first, op.pos \div UNITS + 1 - (op.skip - 1), op.at)
  BY <1>1, <1>3, <1>4, WriteMoves
<1>6. op' \in WriteOp
  BY <1>1, <1>3, <1>5 DEF WriteOp
<1>7. /\ op'.pc = "walk" /\ op'.h = op.h /\ op'.pos = op.pos /\ op'.skip = op.skip - 1
      /\ op'.cur = op.at
  BY <1>1, <1>3 DEF WriteOp
<1>8. Writing' /\ Extending'
  BY <1>1, <1>4, <1>5, <1>7 DEF Writing, Extending
<1>9. Creating'
  <2>1. op' \notin CreateOp
    BY <1>7 DEF CreateOp
  <2>2. QED
    BY <2>1 DEF Creating
<1>10. /\ Types' /\ EntriesTyped' /\ Tables' /\ Stored' /\ Starts' /\ Apart'
  BY <1>1, <1>6, <1>7, OnlyOp
<1>11. QED
  BY <1>8, <1>9, <1>10 DEF Inv

(* A directory is written: what it then holds are entries it held before   *)
(* or what the write says, and no file of another chain changes.           *)
LEMMA DirWrite ==
  ASSUME Inv, NEW c, NEW d \in Cluster, DirStart(d), NEW k, Nth(fat, d, k, c),
         NEW units, WriteCluster(c, units),
         UNCHANGED <<fat, disk_fat, node, written>>,
         op' \in CreateOp \cup WriteOp \cup {Idle, Overrun},
         \A f \in Cluster : op'.pc \in {"dir_init", "entry"} /\ op'.first = f => DirStart(f),
         \A i \in 0 .. UNITS - 1 :
           units[i].t = "entry" /\ units[i].name \in Name =>
             \/ units[i] \in Entries
             \/ units[i].kind = "file" /\ units[i].first = 0 /\ units[i].size = 0
             \/ units[i].kind = "dir" /\ DirStart(units[i].first) /\ units[i].size \in Nat
  PROVE  Types' /\ EntriesTyped' /\ Tables' /\ Starts' /\ Apart' /\ Stored'
<1>1. Types /\ EntriesTyped /\ Tables /\ Starts /\ Apart /\ Stored
  BY DEF Inv
<1>2. /\ fat \in Table /\ disk = [x \in Cluster |-> disk[x]]
      /\ Keeps(fat, fat') /\ fat' \in Table
  BY <1>1 DEF Types, Keeps
<1>3. c \in Cluster
  BY <1>2, NthKept
<1>4. /\ disk' = [x \in Cluster |-> disk'[x]]
      /\ \A x \in Cluster : x # c => disk'[x] = disk[x]
      /\ \A i \in 0 .. UNITS - 1 : disk'[c][i] \in {disk[c][i], units[i]}
  <2>1. PICK K \in SUBSET (0 .. UNITS - 1) :
          disk' = [disk EXCEPT ![c] = Moved(disk[c], units, K)]
    BY DEF WriteCluster
  <2>2. \A x \in Cluster :
          disk'[x] = IF x = c THEN Moved(disk[c], units, K) ELSE disk[x]
    BY <1>2, <2>1
  <2>3. disk' = [x \in Cluster |-> disk'[x]]
    BY <1>2, <2>1
  <2>4. QED
    BY <1>3, <2>2, <2>3 DEF Moved
<1>5. ASSUME NEW e \in Entries'
      PROVE  \/ e \in Entries
             \/ e.kind = "file" /\ e.first = 0 /\ e.size = 0
             \/ e.kind = "dir" /\ DirStart(e.first) /\ e.size \in Nat
  <2>1. /\ e \in UNION {{disk'[x][i] : i \in 0 .. UNITS - 1} : x \in Cluster}
        /\ e.t = "entry" /\ e.name \in Name
    BY DEF Entries, EntriesOn
  <2>2. PICK x \in Cluster, i \in 0 .. UNITS - 1 : e = disk'[x][i]
    BY <2>1
  <2>3. CASE e = disk[x][i]
    BY <2>1, <2>2, <2>3 DEF Entries, EntriesOn
  <2>4. CASE e = units[i]
    BY <2>1, <2>2, <2>4
  <2>5. e \in {disk[x][i], units[i]}
    BY <1>4, <2>2
  <2>6. QED
    BY <2>3, <2>4, <2>5
<1>6. EntriesTyped'
  <2> SUFFICES ASSUME NEW e \in Entries'
               PROVE  /\ e.kind \in {"file", "dir"} /\ e.first \in Cluster \cup {0} /\ e.size \in Nat
                      /\ e.first = 0 => e.kind = "file" /\ e.size = 0
    BY DEF EntriesTyped
  <2>1. CASE e \in Entries
    BY <1>1, <2>1 DEF EntriesTyped
  <2>2. CASE e.kind = "file" /\ e.first = 0 /\ e.size = 0
    BY <2>2
  <2>3. CASE e.kind = "dir" /\ DirStart(e.first) /\ e.size \in Nat
    <3>1. e.first \in Cluster /\ e.first # 0
      BY <2>3, Numbers DEF DirStart, FREE
    <3>2. QED
      BY <2>3, <3>1
  <2>4. QED
    BY <1>5, <2>1, <2>2, <2>3
<1>7. \A f \in Cluster : FileStart(f)' => FileStart(f)
  <2> SUFFICES ASSUME NEW f \in Cluster, FileStart(f)' PROVE FileStart(f)
    OBVIOUS
  <2>1. f # 0
    BY Numbers DEF FREE
  <2>2. CASE \E e \in Entries' : e.kind = "file" /\ e.first = f
    BY <1>5, <2>1, <2>2 DEF FileStart
  <2>3. QED
    BY <2>2 DEF FileStart
<1>8. \A f \in Cluster : DirStart(f)' => DirStart(f)
  <2> SUFFICES ASSUME NEW f \in Cluster, DirStart(f)' PROVE DirStart(f)
    OBVIOUS
  <2>1. CASE \E e \in Entries' : e.kind = "dir" /\ e.first = f
    <3>1. PICK e \in Entries' : e.kind = "dir" /\ e.first = f
      BY <2>1
    <3>2. e \in Entries => DirStart(f)
      BY <3>1 DEF DirStart
    <3>3. DirStart(e.first) => DirStart(f)
      BY <3>1
    <3>4. QED
      BY <1>5, <3>1, <3>2, <3>3
  <2>2. CASE op'.pc \in {"dir_init", "entry"} /\ op'.first = f
    BY <2>2
  <2>3. QED
    BY <2>1, <2>2 DEF DirStart
<1>9. Starts' /\ Apart'
  <2>1. \A f \in Cluster : Known(f) => Start(fat', f) /\ Start(disk_fat', f)
    BY <1>1 DEF Starts
  <2>2. QED
    BY <1>1, <1>7, <1>8, <2>1, StartsKept
<1>10. Types' /\ Tables'
  <2>1. Types'
    BY <1>1, <1>4 DEF Types
  <2>2. QED
    BY <1>1, <2>1 DEF Tables, Lags, Keeps, Linked
<1>11. Stored'
  <2>1. ASSUME NEW f \in Cluster, DOMAIN written[f] # {}, NEW x \in Cluster,
               NEW n \in Nat, Nth(fat, f, n, x)
        PROVE  disk'[x] = disk[x]
    <3>1. FileStart(f) /\ f # d
      BY <1>1, <2>1 DEF FileStart, Apart
    <3>2. Start(fat, f) /\ Start(fat, d)
      BY <1>1, <3>1 DEF Starts, Known
    <3>3. x # c
      BY <1>1, <1>2, <2>1, <3>1, <3>2, ChainsApart DEF Nth, Tables
    <3>4. QED
      BY <1>4, <3>3
  <2>2. written' = written
    OBVIOUS
  <2>3. QED
    BY <1>1, <1>2, <2>1, <2>2, StoredKept
<1>12. QED
  BY <1>6, <1>9, <1>10, <1>11

(* Where fat32_create stands once it has a cluster to write to.            *)
LEMMA CreatePlace ==
  ASSUME Inv, op.pc \in {"clear", "dir_init", "entry"}
  PROVE  /\ op \in CreateOp /\ op.dir \in Dirs /\ op.dir \in Cluster /\ DirStart(op.dir)
         /\ \E k \in Nat : Nth(fat, op.dir, k, op.at)
<1>1. Types /\ Creating
  BY DEF Inv
<1>2. op \in CreateOp
  BY <1>1, OpKinds DEF Types
<1>3. op.dir \in Dirs /\ \E k \in Nat : Nth(fat, op.dir, k, op.at)
  BY <1>1, <1>2 DEF Creating
<1>4. QED
  BY <1>1, <1>2, <1>3, DirsKnown

(* The cluster a directory was extended by is cleared.                     *)
LEMMA CreateClearStep ==
  ASSUME Inv, create_clear
  PROVE  Inv'
<1> DEFINE units == [i \in 0 .. UNITS - 1 |-> Zero]
<1>1. /\ op.pc = "clear" /\ WriteCluster(op.at, units)
      /\ op' = [op EXCEPT !.pc = AfterRoom(op.kind)]
      /\ UNCHANGED <<fat, disk_fat, node, written>>
  BY DEF create_clear
<1>2. Creating
  BY DEF Inv
<1>3. op \in CreateOp /\ op.dir \in Dirs /\ op.dir \in Cluster /\ DirStart(op.dir)
  BY <1>1, CreatePlace
<1>4. PICK k \in Nat : Nth(fat, op.dir, k, op.at)
  BY <1>1, CreatePlace
<1>5. op' \in CreateOp
  BY <1>1, <1>3 DEF CreateOp, AfterRoom
<1>6. /\ op'.pc = AfterRoom(op.kind) /\ op'.dir = op.dir /\ op'.at = op.at /\ op'.first = op.first
      /\ op'.kind = op.kind
  BY <1>1, <1>3 DEF CreateOp
<1>7. op.first = 0 /\ op.kind \in {"file", "dir"}
  BY <1>1, <1>2, <1>3 DEF Creating, CreateOp
<1>8. \A i \in 0 .. UNITS - 1 : units[i].t # "entry"
  BY DEF Zero
<1>9. /\ op'.pc \in {"dir_alloc", "entry"}
      /\ op'.pc = "dir_alloc" <=> op'.kind = "dir"
  BY <1>6, <1>7 DEF AfterRoom
<1>10. Types' /\ EntriesTyped' /\ Tables' /\ Starts' /\ Apart' /\ Stored'
  <2>1. \A f \in Cluster : op'.first # f
    BY <1>6, <1>7, Numbers DEF FREE
  <2> HIDE DEF units
  <2>2. QED
    BY <1>1, <1>3, <1>4, <1>5, <1>8, <2>1, DirWrite
<1>11. Creating'
  <2>1. (op.dir \in Dirs)'
    BY <1>1, <1>3, <1>6 DEF Dirs
  <2>2. \E n \in Nat : Nth(fat', op'.dir, n, op'.at)
    BY <1>1, <1>4, <1>6
  <2>3. op'.first = 0
    BY <1>6, <1>7
  <2>4. op'.pc \in {"dir_init", "entry"} => (op'.kind = "dir" <=> op'.first # 0)
    BY <1>9, <2>3
  <2>5. op'.pc \notin {"extend", "link"} /\ (op'.pc \in {"dir_alloc", "dir_init"} => op'.kind = "dir")
    BY <1>9
  <2>6. QED
    BY <2>1, <2>2, <2>3, <2>4, <2>5 DEF Creating
<1>12. Writing' /\ Extending'
  <2>1. op' \notin WriteOp
    BY <1>9 DEF WriteOp
  <2>2. QED
    BY <1>9, <2>1 DEF Writing, Extending
<1>13. QED
  BY <1>10, <1>11, <1>12 DEF Inv

(* A new directory gets its two entries, which no name finds.              *)
LEMMA CreateDirInitStep ==
  ASSUME Inv, create_dir_init
  PROVE  Inv'
<1> DEFINE up    == IF op.dir = Root THEN 0 ELSE op.dir
           units == [i \in 0 .. UNITS - 1 |->
                       IF i = 0 THEN Entry(Dot, "dir", op.first, 0)
                       ELSE IF i = 1 THEN Entry(DotDot, "dir", up, 0)
                       ELSE Zero]
<1>1. /\ op.pc = "dir_init" /\ WriteCluster(op.first, units)
      /\ op' = [op EXCEPT !.pc = "entry"]
      /\ UNCHANGED <<fat, disk_fat, node, written>>
  BY DEF create_dir_init
<1>2. Creating
  BY DEF Inv
<1>3. op \in CreateOp /\ op.dir \in Dirs /\ op.dir \in Cluster /\ DirStart(op.dir)
  BY <1>1, CreatePlace
<1>4. PICK k \in Nat : Nth(fat, op.dir, k, op.at)
  BY <1>1, CreatePlace
<1>5. op' \in CreateOp
  BY <1>1, <1>3 DEF CreateOp
<1>6. /\ op'.pc = "entry" /\ op'.dir = op.dir /\ op'.at = op.at /\ op'.first = op.first
      /\ op'.kind = op.kind
  BY <1>1, <1>3 DEF CreateOp
<1>7. op.kind = "dir" /\ op.first # 0 /\ op.first \in Cluster
  <2>1. op.kind = "dir" /\ op.first # 0
    BY <1>1, <1>2, <1>3 DEF Creating
  <2>2. op.first \in Cluster \cup {0}
    BY <1>3 DEF CreateOp
  <2>3. QED
    BY <2>1, <2>2
<1>8. DirStart(op.first)
  BY <1>1, <1>7 DEF DirStart
<1>9. Nth(fat, op.first, 1, op.first)
  BY <1>7, NthFirst DEF Inv, Types
<1>10. \A i \in 0 .. UNITS - 1 : ~ (units[i].t = "entry" /\ units[i].name \in Name)
  <2> HIDE DEF up
  <2>1. Entry(Dot, "dir", op.first, 0).name = Dot /\ Entry(DotDot, "dir", up, 0).name = DotDot
    BY DEF Entry
  <2>2. Dot \notin Name /\ DotDot \notin Name
    BY FormattedDisk
  <2>3. Zero.t # "entry"
    BY DEF Zero
  <2>4. QED
    BY <2>1, <2>2, <2>3
<1>11. Types' /\ EntriesTyped' /\ Tables' /\ Starts' /\ Apart' /\ Stored'
  <2>1. \A f \in Cluster : op'.first = f => DirStart(f)
    BY <1>6, <1>8
  <2> HIDE DEF units
  <2>2. QED
    BY <1>1, <1>5, <1>7, <1>8, <1>9, <1>10, <2>1, DirWrite
<1>12. Creating'
  <2>1. (op.dir \in Dirs)'
    BY <1>1, <1>3, <1>6 DEF Dirs
  <2>2. \E n \in Nat : Nth(fat', op'.dir, n, op'.at)
    BY <1>1, <1>4, <1>6
  <2>3. op'.kind = "dir" /\ op'.first # 0
    BY <1>6, <1>7
  <2>4. QED
    BY <1>6, <2>1, <2>2, <2>3 DEF Creating
<1>13. Writing' /\ Extending'
  <2>1. op' \notin WriteOp
    BY <1>6 DEF WriteOp
  <2>2. QED
    BY <1>6, <2>1 DEF Writing, Extending
<1>14. QED
  BY <1>11, <1>12, <1>13 DEF Inv

(* An entry is written: a file of no cluster, or the directory just made.  *)
LEMMA CreateEntryStep ==
  ASSUME Inv, create_entry
  PROVE  Inv'
<1> DEFINE last  == op.slot + Slots[op.name] - 1
           new   == Entry(op.name, op.kind, op.first, 0)
           units == [i \in 0 .. UNITS - 1 |->
                       IF i = last THEN new
                       ELSE IF i \in op.slot .. last THEN LongPart(op.name)
                       ELSE disk[op.at][i]]
<1>1. /\ op.pc = "entry" /\ WriteCluster(op.at, units)
      /\ op' = Idle
      /\ UNCHANGED <<fat, disk_fat, node, written>>
  BY DEF create_entry
<1>2. Creating /\ fat \in Table
  BY DEF Inv, Types
<1>3. op \in CreateOp /\ op.dir \in Dirs /\ op.dir \in Cluster /\ DirStart(op.dir)
  BY <1>1, CreatePlace
<1>4. PICK k \in Nat : Nth(fat, op.dir, k, op.at)
  BY <1>1, CreatePlace
<1>5. op.at \in Cluster
  BY <1>2, <1>3, <1>4, NthKept DEF Keeps
<1>6. /\ new.kind = op.kind /\ new.first = op.first /\ new.size = 0
      /\ LongPart(op.name).t # "entry"
  BY DEF Entry, LongPart
<1>7. \/ op.kind = "file" /\ op.first = 0
      \/ op.kind = "dir" /\ DirStart(op.first)
  <2>1. op.kind \in {"file", "dir"} /\ op.first \in Cluster \cup {0}
    BY <1>3 DEF CreateOp
  <2>2. op.kind = "dir" <=> op.first # 0
    BY <1>1, <1>2, <1>3 DEF Creating
  <2>3. op.first \in Cluster => DirStart(op.first)
    BY <1>1 DEF DirStart
  <2>4. QED
    BY <2>1, <2>2, <2>3
<1> HIDE DEF new
<1>8. ASSUME NEW i \in 0 .. UNITS - 1, units[i].t = "entry", units[i].name \in Name
      PROVE  \/ units[i] \in Entries
             \/ units[i].kind = "file" /\ units[i].first = 0 /\ units[i].size = 0
             \/ units[i].kind = "dir" /\ DirStart(units[i].first) /\ units[i].size \in Nat
  <2> HIDE DEF last
  <2>1. CASE i = last
    <3>1. units[i] = new
      BY <2>1
    <3> HIDE DEF units
    <3>2. QED
      BY <1>6, <1>7, <3>1
  <2>2. CASE i # last
    <3>1. units[i] = LongPart(op.name) \/ units[i] = disk[op.at][i]
      BY <2>2
    <3> HIDE DEF units
    <3>2. units[i] = disk[op.at][i]
      BY <1>6, <1>8, <3>1
    <3>3. units[i] \in Entries
      BY <1>5, <1>8, <3>2 DEF Entries, EntriesOn
    <3>4. QED
      BY <3>3
  <2>3. QED
    BY <2>1, <2>2
<1>9. Types' /\ EntriesTyped' /\ Tables' /\ Starts' /\ Apart' /\ Stored'
  <2>1. op' \in CreateOp \cup WriteOp \cup {Idle, Overrun} /\ op'.pc = "idle"
    BY <1>1, BetweenOps
  <2> HIDE DEF units
  <2>2. QED
    BY <1>1, <1>3, <1>4, <1>8, <2>1, DirWrite
<1>10. QED
  BY <1>1, <1>9, BetweenOps DEF Inv

(* Of two numbers, Min and Max are one and not beyond the other.           *)
LEMMA MinMaxOfTwo ==
  ASSUME NEW a \in Nat, NEW b \in Nat
  PROVE  /\ Min({a, b}) \in {a, b} /\ Min({a, b}) <= a /\ Min({a, b}) <= b
         /\ Max({a, b}) \in {a, b}
<1>1. Min({a, b}) \in {a, b} /\ \A s \in {a, b} : Min({a, b}) <= s
  BY MinOfSet
<1>2. \E x \in {a, b} : \A y \in {a, b} : x >= y
  <2>1. CASE a >= b
    BY <2>1
  <2>2. CASE ~ (a >= b)
    BY <2>2
  <2>3. QED
    BY <2>1, <2>2
<1>3. Max({a, b}) \in {a, b}
  BY <1>2 DEF Max
<1>4. QED
  BY <1>1, <1>3

(* How much of a cluster one round of a write changes.                     *)
Part(pos, left) == Min({UNITS - (pos % UNITS), left})

(* The units that round changes.                                           *)
Units(pos, left) == (pos % UNITS) .. (pos % UNITS) + Part(pos, left) - 1

(* One round of a write stays inside one cluster: its positions are the    *)
(* units it changes, and a round after it starts with the next cluster.    *)
LEMMA OneCluster ==
  ASSUME NEW pos \in Nat, NEW left \in Nat
  PROVE  LET n   == Part(pos, left)
             end == pos + n
         IN  /\ n \in Nat /\ n <= left
             /\ \A p \in pos .. end - 1 :
                  p \in Nat /\ p \div UNITS = pos \div UNITS /\ (p % UNITS) \in Units(pos, left)
             /\ \A p \in Nat : p \div UNITS = pos \div UNITS /\ p \notin pos .. end - 1 =>
                  (p % UNITS) \notin Units(pos, left)
             /\ n < left => end \div UNITS = pos \div UNITS + 1
             /\ ~NeedsRead(pos, left) => \A i \in 0 .. UNITS - 1 : i \in Units(pos, left)
<1> DEFINE n   == Part(pos, left)
           off == pos % UNITS
           q   == pos \div UNITS
<1>1. UNITS \in Nat /\ UNITS > 0
  BY Numbers
<1>2. off \in 0 .. UNITS - 1 /\ q \in Nat /\ pos = UNITS * q + off
  BY <1>1
<1>3. UNITS - off \in Nat
  <2> HIDE DEF off
  <2>1. QED
    BY <1>1, <1>2
<1>4. n \in {UNITS - off, left} /\ n <= UNITS - off /\ n <= left
  BY <1>3, MinMaxOfTwo DEF Part
<1> HIDE DEF n
<1>5. n \in Nat
  BY <1>3, <1>4
<1>6. ASSUME NEW p \in pos .. (pos + n) - 1
      PROVE  /\ p \in Nat /\ p \div UNITS = q
             /\ (p % UNITS) \in off .. off + n - 1
  <2> DEFINE r == off + (p - pos)
  <2>1. p \in Nat /\ r \in off .. off + n - 1 /\ r \in 0 .. UNITS - 1 /\ p = UNITS * q + r
    <3> HIDE DEF off, q
    <3>1. UNITS * q \in Nat
      BY <1>1, <1>2
    <3>2. QED
      BY <1>1, <1>2, <1>4, <1>5, <3>1
  <2> HIDE DEF off, q, r
  <2>2. p \div UNITS = q /\ (p % UNITS) = r
    BY <1>1, <1>2, <2>1
  <2>3. QED
    BY <2>1, <2>2
<1>7. ASSUME NEW p \in Nat, p \div UNITS = q, p \notin pos .. (pos + n) - 1
      PROVE  (p % UNITS) \notin off .. off + n - 1
  <2>1. p = UNITS * q + (p % UNITS) /\ (p % UNITS) \in 0 .. UNITS - 1
    BY <1>1, <1>7
  <2> DEFINE r == p % UNITS
  <2> HIDE DEF off, q, r
  <2>2. UNITS * q \in Nat /\ r \in Nat
    BY <1>1, <1>2, <2>1 DEF r
  <2>3. p = UNITS * q + r
    BY <2>1 DEF r
  <2>4. r \notin off .. off + n - 1
    BY <1>2, <1>5, <1>7, <2>2, <2>3
  <2>5. QED
    BY <2>4 DEF r
<1>8. ASSUME n < left PROVE (pos + n) \div UNITS = q + 1
  <2> HIDE DEF off, q
  <2>1. n = UNITS - off
    BY <1>4, <1>5, <1>8
  <2>2. UNITS * (q + 1) = UNITS * q + UNITS /\ UNITS * q \in Nat
    BY <1>1, <1>2
  <2>3. pos + n = UNITS * (q + 1) + 0 /\ pos + n \in Nat
    BY <1>1, <1>2, <1>5, <2>1, <2>2
  <2>4. q + 1 \in Nat /\ 0 \in 0 .. UNITS - 1
    BY <1>1, <1>2
  <2> DEFINE e == pos + n
             k == q + 1
  <2>5. e \in Nat /\ k \in Nat /\ e = UNITS * k + 0
    BY <2>3, <2>4
  <2> HIDE DEF e, k
  <2>6. e \div UNITS = k
    BY <1>1, <2>5
  <2>7. QED
    BY <2>6 DEF e, k
<1>9. ASSUME ~NeedsRead(pos, left), NEW i \in 0 .. UNITS - 1
      PROVE  i \in off .. off + n - 1
  <2>1. off = 0 /\ ~ (left < UNITS)
    BY <1>9 DEF NeedsRead
  <2> HIDE DEF off
  <2>2. n = UNITS
    BY <1>1, <1>4, <2>1
  <2>3. QED
    BY <1>1, <2>1, <2>2
<1>10. Units(pos, left) = off .. off + n - 1
  BY DEF Units, n
<1> HIDE DEF off
<1>11. QED
  BY <1>4, <1>5, <1>6, <1>7, <1>8, <1>9, <1>10 DEF n

(* One cluster of a file is changed where the write says and nowhere else, *)
(* unless the read before it failed; then what it held counts as lost.     *)
LEMMA WriteDataStep ==
  ASSUME Inv, write_data
  PROVE  Inv'
<1> DEFINE n    == Part(op.pos, op.left)
           new  == Units(op.pos, op.left)
           Changed(old) ==
             [i \in 0 .. UNITS - 1 |-> IF i \in new THEN Data(op.byte) ELSE old[i]]
           junk == [i \in 0 .. UNITS - 1 |-> Junk]
           end  == op.pos + n
           here == op.pos .. end - 1
           f    == node[op.h].first
           W    == written[f]
           Rest == {p \in DOMAIN W : p \div UNITS = op.pos \div UNITS} \ here
           More(lost) == [p \in (DOMAIN W \ lost) \cup here |->
                            IF p \in here THEN {op.byte} ELSE W[p]]
           Both(lost) == [p \in DOMAIN W \ lost |->
                            IF p \in here THEN W[p] \cup {op.byte} ELSE W[p]]
           Done(old, lost) ==
             /\ disk' = [disk EXCEPT ![op.cur] = Changed(old)]
             /\ written' = [written EXCEPT ![f] = More(lost)]
             /\ IF n < op.left
                  THEN /\ op' = [op EXCEPT !.pc = "walk", !.skip = 1, !.pos = end,
                                           !.left = op.left - n]
                       /\ UNCHANGED node
                  ELSE /\ op' = Idle
                       /\ node' = [node EXCEPT ![op.h].size = Max({node[op.h].size, end})]
           Failed(old, lost) ==
             /\ \E K \in SUBSET (0 .. UNITS - 1) :
                  disk' = [disk EXCEPT ![op.cur] = Moved(disk[op.cur], Changed(old), K)]
             /\ written' = [written EXCEPT ![f] = Both(lost)]
             /\ op' = Idle
             /\ UNCHANGED node
           Write(old, lost) == Done(old, lost) \/ Failed(old, lost)
<1>1. op.pc = "data" /\ UNCHANGED <<fat, disk_fat>>
  BY DEF write_data
<1>2. IF NeedsRead(op.pos, op.left)
        THEN Write(disk[op.cur], {}) \/ Write(junk, Rest)
        ELSE Write(junk, {})
  BY DEF write_data, Part, Units
<1>3. /\ Types /\ EntriesTyped /\ Tables /\ Starts /\ Apart /\ Writing /\ Stored
      /\ fat \in Table /\ Linked(fat)
  BY DEF Inv, Types, Tables
<1>4. op \in WriteOp /\ op \notin CreateOp
  BY <1>1, <1>3, OpKinds DEF Types
<1>5. op.left \in Nat /\ op.skip = 0
  BY <1>1, <1>3, <1>4 DEF Writing, WriteOp
<1>6. /\ op.h \in Handle /\ op.pos \in Nat
      /\ node[op.h].kind = "file" /\ FileStart(f) /\ Start(fat, f) /\ f \in Cluster
      /\ Nth(fat, f, op.pos \div UNITS + 1, op.cur) /\ op.cur \in Cluster
  <2>1. op.pos \div UNITS + 1 - 0 = op.pos \div UNITS + 1
    <3>1. op.pos \in Nat /\ op.pos \div UNITS \in Nat
      BY <1>4, Numbers DEF WriteOp
    <3>2. QED
      BY <3>1
  <2>2. QED
    BY <1>1, <1>4, <1>5, <2>1, WritePlace DEF FileStart
<1>7. /\ n \in Nat /\ n <= op.left
      /\ \A p \in here :
           p \in Nat /\ p \div UNITS = op.pos \div UNITS /\ (p % UNITS) \in new
      /\ \A p \in Nat : p \div UNITS = op.pos \div UNITS /\ p \notin here =>
           (p % UNITS) \notin new
      /\ n < op.left => end \div UNITS = op.pos \div UNITS + 1
      /\ ~NeedsRead(op.pos, op.left) => \A i \in 0 .. UNITS - 1 : i \in new
  <2>1. op.pos \in Nat /\ op.left \in Nat
    BY <1>5, <1>6
  <2> HIDE DEF f, Write, Changed, junk
  <2>2. QED
    BY <2>1, OneCluster
<1>8. end \in Nat
  <2> HIDE DEF n
  <2>1. QED
    BY <1>6, <1>7
<1>9. ASSUME NEW old
      PROVE  /\ \A i \in 0 .. UNITS - 1 :
                  Changed(old)[i] = IF i \in new THEN Data(op.byte) ELSE old[i]
             /\ \A K : \A i \in 0 .. UNITS - 1 :
                  Moved(disk[op.cur], Changed(old), K)[i] \in {disk[op.cur][i], Changed(old)[i]}
  <2> HIDE DEF new
  <2>1. QED
    BY DEF Moved
<1>10. \A p \in DOMAIN W : p \in Nat /\ (p % UNITS) \in 0 .. UNITS - 1
  <2>1. DOMAIN W \subseteq Nat
    BY <1>3, <1>6 DEF Types
  <2> HIDE DEF W
  <2>2. QED
    BY <2>1, Quotient
<1> HIDE DEF n, new, Changed, W
<1>11. ASSUME NEW old, NEW lost, Write(old, lost), old \in {disk[op.cur], junk},
              \A p \in DOMAIN W \ lost :
                p \div UNITS = op.pos \div UNITS /\ p \notin here =>
                  old[p % UNITS] = disk[op.cur][p % UNITS]
       PROVE  Inv'
  <2>1. /\ disk' = [c \in Cluster |-> disk'[c]]
        /\ \A c \in Cluster : c # op.cur => disk'[c] = disk[c]
        /\ \A i \in 0 .. UNITS - 1 :
             disk'[op.cur][i] \in {disk[op.cur][i], Changed(old)[i]}
        /\ Done(old, lost) => disk'[op.cur] = Changed(old)
    <3>1. disk = [c \in Cluster |-> disk[c]]
      BY <1>3 DEF Types
    <3> HIDE DEF f, end, here, junk, More, Both
    <3>2. CASE Done(old, lost)
      BY <1>6, <3>1, <3>2
    <3>3. CASE Failed(old, lost) /\ ~Done(old, lost)
      <4>1. PICK K \in SUBSET (0 .. UNITS - 1) :
              disk' = [disk EXCEPT ![op.cur] = Moved(disk[op.cur], Changed(old), K)]
        BY <3>3
      <4> DEFINE m == Moved(disk[op.cur], Changed(old), K)
      <4>2. \A i \in 0 .. UNITS - 1 : m[i] \in {disk[op.cur][i], Changed(old)[i]}
        BY <1>9
      <4>3. disk' = [disk EXCEPT ![op.cur] = m]
        BY <4>1
      <4> HIDE DEF m, Done
      <4>4. QED
        BY <1>6, <3>1, <3>3, <4>2, <4>3
    <3>4. QED
      BY <1>11, <3>2, <3>3
  <2>2. /\ written' = [g \in Cluster |-> written'[g]]
        /\ \A g \in Cluster : g # f => written'[g] = written[g]
        /\ Done(old, lost) => written'[f] = More(lost)
        /\ ~Done(old, lost) => written'[f] = Both(lost)
    <3>1. written = [g \in Cluster |-> written[g]]
      BY <1>3 DEF Types
    <3> HIDE DEF More, Both, f, end, junk
    <3>2. CASE Done(old, lost)
      BY <1>6, <3>1, <3>2
    <3>3. CASE Failed(old, lost) /\ ~Done(old, lost)
      <4>1. written' = [written EXCEPT ![f] = Both(lost)]
        BY <3>3
      <4> HIDE DEF Done
      <4>2. QED
        BY <1>6, <3>1, <3>3, <4>1
    <3>4. QED
      BY <1>11, <3>2, <3>3
  <2>3. ASSUME NEW p \in DOMAIN written'[f], p \in here
        PROVE  \/ op.byte \in written'[f][p] /\ Done(old, lost)
               \/ /\ op.byte \in written'[f][p] /\ p \in DOMAIN W
                  /\ W[p] \subseteq written'[f][p]
    <3> HIDE DEF f, end, here
    <3>1. CASE Done(old, lost)
      BY <2>2, <2>3, <3>1
    <3>2. CASE ~Done(old, lost)
      <4> HIDE DEF Done
      <4>1. QED
        BY <2>2, <2>3, <3>2
    <3>3. QED
      BY <3>1, <3>2
  <2>4. ASSUME NEW p \in DOMAIN written'[f], p \notin here
        PROVE  p \in DOMAIN W \ lost /\ written'[f][p] = W[p]
    <3> HIDE DEF f, end, here, Done
    <3>1. QED
      BY <2>2, <2>4
  <2>5. \A g \in Cluster : DOMAIN written'[g] \subseteq Nat
    <3>1. \A g \in Cluster : DOMAIN written[g] \subseteq Nat
      BY <1>3 DEF Types
    <3>2. DOMAIN written'[f] \subseteq Nat
      <4> HIDE DEF f, here
      <4>1. QED
        BY <1>7, <1>10, <2>4
    <3> HIDE DEF f
    <3>3. QED
      BY <2>2, <3>1, <3>2
  <2>6. /\ node' \in [Handle -> FileNode \cup DirNode \cup {NoNode}]
        /\ \A h \in Handle : node'[h].kind = node[h].kind /\ node'[h].first = node[h].first
        /\ \A h \in Handle : node'[h].first = 0 => node'[h].size = 0
    <3>1. /\ node \in [Handle -> FileNode \cup DirNode \cup {NoNode}]
          /\ \A h \in Handle : node[h].first = 0 => node[h].size = 0
      BY <1>3 DEF Types
    <3>2. CASE UNCHANGED node
      BY <3>1, <3>2
    <3>3. CASE node' = [node EXCEPT ![op.h].size = Max({node[op.h].size, end})]
      <4>1. node[op.h] \in FileNode
        BY <1>6, <3>1 DEF FileNode, DirNode, NoNode
      <4> DEFINE size == Max({node[op.h].size, end})
                 grown == [node[op.h] EXCEPT !.size = size]
      <4>2. size \in Nat
        <5>1. node[op.h].size \in Nat
          BY <4>1 DEF FileNode
        <5> HIDE DEF end
        <5>2. QED
          BY <1>8, <5>1, MinMaxOfTwo
      <4> HIDE DEF size
      <4>3. grown \in FileNode /\ grown.kind = node[op.h].kind /\ grown.first = node[op.h].first
        BY <4>1, <4>2 DEF FileNode
      <4>4. node' = [node EXCEPT ![op.h] = grown]
        BY <3>3 DEF size
      <4> HIDE DEF grown
      <4>5. \A h \in Handle : node'[h] = IF h = op.h THEN grown ELSE node[h]
        BY <3>1, <4>4
      <4>6. node' \in [Handle -> FileNode \cup DirNode \cup {NoNode}]
        BY <3>1, <4>3, <4>4
      <4>7. f # 0
        BY <1>6, Numbers DEF FREE
      <4>8. QED
        BY <3>1, <4>3, <4>5, <4>6, <4>7
    <3>4. UNCHANGED node \/ node' = [node EXCEPT ![op.h].size = Max({node[op.h].size, end})]
      <4> HIDE DEF f, end, More, Both
      <4>1. QED
        BY <1>11
    <3>5. QED
      BY <3>2, <3>3, <3>4
  <2>7. ASSUME NEW e \in Entries' PROVE e \in Entries
    <3>1. e \in UNION {{disk'[c][i] : i \in 0 .. UNITS - 1} : c \in Cluster}
          /\ e.t = "entry" /\ e.name \in Name
      BY DEF Entries, EntriesOn
    <3>2. PICK c \in Cluster, i \in 0 .. UNITS - 1 : e = disk'[c][i]
      BY <3>1
    <3>3. Data(op.byte).t # "entry" /\ junk[i].t # "entry"
      BY DEF Data, Junk
    <3>4. CASE e = disk[c][i]
      BY <3>1, <3>4 DEF Entries, EntriesOn
    <3>5. CASE c = op.cur /\ e # disk[c][i]
      <4>1. e = Data(op.byte) \/ e = old[i]
        BY <1>9, <2>1, <3>2, <3>5
      <4>2. old[i] = disk[c][i] \/ old[i] = junk[i]
        BY <1>11, <3>5
      <4> HIDE DEF junk
      <4>3. QED
        BY <3>1, <3>3, <3>5, <4>1, <4>2
    <3>6. QED
      BY <2>1, <3>2, <3>4, <3>5
  <2>8. EntriesTyped'
    BY <1>3, <2>7 DEF EntriesTyped
  <2>9. /\ op' \in CreateOp \cup WriteOp \cup {Idle, Overrun} /\ op'.pc \in {"idle", "walk"}
        /\ Extending' /\ Creating' /\ Writing'
    <3>1. CASE op' = Idle
      BY <3>1, BetweenOps
    <3>2. CASE /\ n < op.left /\ UNCHANGED node
               /\ op' = [op EXCEPT !.pc = "walk", !.skip = 1, !.pos = end, !.left = op.left - n]
      <4>1. op.left - n \in Nat
        BY <1>5, <1>7
      <4>2. op' \in WriteOp
        <5> HIDE DEF end
        <5>1. QED
          BY <1>4, <1>8, <3>2, <4>1 DEF WriteOp
      <4>3. /\ op'.pc = "walk" /\ op'.skip = 1 /\ op'.pos = end /\ op'.h = op.h /\ op'.cur = op.cur
        <5> HIDE DEF end
        <5>1. QED
          BY <1>4, <3>2 DEF WriteOp
      <4>4. end \div UNITS = op.pos \div UNITS + 1 /\ op.pos \div UNITS \in Nat
        BY <1>6, <1>7, <3>2, Numbers
      <4>5. op'.pos \div UNITS + 1 - op'.skip = op.pos \div UNITS + 1 /\ op'.skip <= op'.pos \div UNITS
        <5> HIDE DEF end
        <5>1. QED
          BY <4>3, <4>4
      <4>6. node'[op'.h] = node[op.h]
        BY <3>2, <4>3
      <4>7. Writing'
        <5> HIDE DEF end
        <5>1. QED
          BY <1>1, <1>6, <4>3, <4>5, <4>6 DEF Writing
      <4>8. op' \notin CreateOp
        BY <4>3 DEF CreateOp
      <4>9. QED
        BY <4>2, <4>3, <4>7, <4>8 DEF Extending, Creating
    <3>3. \/ op' = Idle
          \/ /\ n < op.left /\ UNCHANGED node
             /\ op' = [op EXCEPT !.pc = "walk", !.skip = 1, !.pos = end, !.left = op.left - n]
      <4> HIDE DEF f, end, More, Both
      <4>1. QED
        BY <1>11
    <3>4. QED
      BY <3>1, <3>2, <3>3
  <2>10. Types' /\ Tables'
    <3>1. Types'
      BY <1>1, <1>3, <2>1, <2>2, <2>5, <2>6, <2>9 DEF Types
    <3>2. QED
      BY <1>1, <1>3, <3>1 DEF Tables, Lags, Keeps, Linked
  <2>11. Starts' /\ Apart'
    <3>1. \A g \in Cluster : FileStart(g)' => FileStart(g)
      <4> SUFFICES ASSUME NEW g \in Cluster, FileStart(g)' PROVE FileStart(g)
        OBVIOUS
      <4>1. CASE g = f
        BY <1>6, <4>1
      <4>2. CASE g # f
        BY <2>2, <2>6, <2>7, <4>2 DEF FileStart
      <4>3. QED
        BY <4>1, <4>2
    <3>2. \A g \in Cluster : DirStart(g)' => DirStart(g)
      BY <2>6, <2>7, <2>9 DEF DirStart
    <3>3. \A g \in Cluster : Known(g) => Start(fat', g) /\ Start(disk_fat', g)
      BY <1>1, <1>3 DEF Starts
    <3>4. QED
      BY <1>3, <3>1, <3>2, <3>3, StartsKept
  <2>12. Stored'
    <3> SUFFICES ASSUME NEW g \in Cluster, NEW p \in DOMAIN written'[g]
                 PROVE  \E c \in Cluster, byte \in written'[g][p] :
                          /\ Nth(fat', g, p \div UNITS + 1, c)
                          /\ disk'[c][p % UNITS] = Data(byte)
      BY DEF Stored
    <3>1. p \in Nat /\ (p % UNITS) \in 0 .. UNITS - 1
      BY <2>5, Quotient
    <3>2. ASSUME p \in DOMAIN written[g], written[g][p] \subseteq written'[g][p],
                 g = f /\ p \div UNITS = op.pos \div UNITS =>
                   disk'[op.cur][p % UNITS] = disk[op.cur][p % UNITS]
          PROVE  \E c \in Cluster, byte \in written'[g][p] :
                   /\ Nth(fat', g, p \div UNITS + 1, c)
                   /\ disk'[c][p % UNITS] = Data(byte)
      <4>1. PICK c \in Cluster, byte \in written[g][p] :
              Nth(fat, g, p \div UNITS + 1, c) /\ disk[c][p % UNITS] = Data(byte)
        BY <1>3, <3>2 DEF Stored
      <4>2. CASE c # op.cur
        BY <1>1, <2>1, <3>2, <4>1, <4>2
      <4>3. CASE c = op.cur
        <5>1. Start(fat, g)
          <6>1. FileStart(g)
            BY <3>2 DEF FileStart
          <6>2. QED
            BY <1>3, <6>1 DEF Starts, Known
        <5>2. g = f /\ p \div UNITS + 1 = op.pos \div UNITS + 1
          BY <1>3, <1>6, <4>1, <4>3, <5>1, ChainsApart DEF Nth
        <5>3. p \div UNITS = op.pos \div UNITS
          <6>1. p \div UNITS \in Nat /\ op.pos \div UNITS \in Nat
            BY <1>6, <3>1, Quotient
          <6>2. QED
            BY <5>2, <6>1
        <5>4. disk'[c][p % UNITS] = disk[c][p % UNITS]
          BY <3>2, <4>3, <5>2, <5>3
        <5>5. QED
          BY <1>1, <3>2, <4>1, <5>4
      <4>4. QED
        BY <4>2, <4>3
    <3>3. CASE g = f /\ p \in here
      <4>1. p \div UNITS = op.pos \div UNITS /\ (p % UNITS) \in new
        BY <1>7, <3>3
      <4>2. Changed(old)[p % UNITS] = Data(op.byte)
        BY <1>9, <3>1, <4>1
      <4>3. op.byte \in written'[g][p]
        BY <2>3, <3>3
      <4>4. CASE disk'[op.cur][p % UNITS] = Data(op.byte)
        BY <1>1, <1>6, <3>3, <4>1, <4>3, <4>4
      <4>5. CASE disk'[op.cur][p % UNITS] # Data(op.byte)
        <5>1. disk'[op.cur][p % UNITS] = disk[op.cur][p % UNITS]
          BY <2>1, <3>1, <4>2, <4>5
        <5>2. ~Done(old, lost)
          <6> HIDE DEF Done
          <6>1. QED
            BY <2>1, <4>2, <4>5
        <5>3. p \in DOMAIN W /\ W[p] \subseteq written'[f][p]
          <6> HIDE DEF Done, f, here
          <6>1. QED
            BY <2>3, <3>3, <5>2
        <5>4. QED
          BY <3>2, <3>3, <5>1, <5>3 DEF W
      <4>6. QED
        BY <4>4, <4>5
    <3>4. CASE g = f /\ p \notin here
      <4>1. p \in DOMAIN W \ lost /\ written'[g][p] = W[p]
        BY <2>4, <3>4
      <4>2. ASSUME p \div UNITS = op.pos \div UNITS
            PROVE  disk'[op.cur][p % UNITS] = disk[op.cur][p % UNITS]
        <5>1. old[p % UNITS] = disk[op.cur][p % UNITS]
          BY <1>11, <3>4, <4>1, <4>2
        <5>2. (p % UNITS) \notin new
          BY <1>7, <3>1, <3>4, <4>2
        <5>3. Changed(old)[p % UNITS] = disk[op.cur][p % UNITS]
          BY <1>9, <3>1, <5>1, <5>2
        <5>4. QED
          BY <2>1, <3>1, <5>3
      <4>3. QED
        BY <3>2, <3>4, <4>1, <4>2 DEF W
    <3>5. CASE g # f
      BY <2>2, <3>2, <3>5
    <3>6. QED
      BY <3>3, <3>4, <3>5
  <2>13. QED
    BY <2>8, <2>9, <2>10, <2>11, <2>12 DEF Inv
<1>12. CASE NeedsRead(op.pos, op.left) /\ Write(disk[op.cur], {})
  <2> DEFINE cur == disk[op.cur]
  <2>1. Write(cur, {}) /\ cur \in {disk[op.cur], junk}
    BY <1>12
  <2>2. \A p \in DOMAIN W \ {} : cur[p % UNITS] = disk[op.cur][p % UNITS]
    OBVIOUS
  <2> HIDE DEF cur, Write
  <2>3. QED
    BY <1>11, <2>1, <2>2
<1>13. CASE NeedsRead(op.pos, op.left) /\ Write(junk, Rest)
  <2>1. \A p \in DOMAIN W \ Rest : ~ (p \div UNITS = op.pos \div UNITS /\ p \notin here)
    <3> HIDE DEF here
    <3>1. QED
      OBVIOUS
  <2> HIDE DEF Write, Rest, here, junk
  <2>2. QED
    BY <1>11, <1>13, <2>1
<1>14. CASE ~NeedsRead(op.pos, op.left) /\ Write(junk, {})
  <2>1. \A p \in DOMAIN W \ {} : ~ (p \div UNITS = op.pos \div UNITS /\ p \notin here)
    <3> HIDE DEF here
    <3>1. QED
      BY <1>7, <1>10, <1>14
  <2> HIDE DEF Write, here, junk
  <2>2. QED
    BY <1>11, <1>14, <2>1
<1>15. QED
  <2> HIDE DEF Write, Rest, junk
  <2>1. QED
    BY <1>2, <1>12, <1>13, <1>14

(* Behind the page nothing more is promised than what was.                 *)
LEMMA OverrunStep ==
  ASSUME Inv, alloc_behind_cache
  PROVE  Inv'
<1>1. op' = Overrun /\ UNCHANGED <<fat, disk_fat, disk, node, written>>
  BY DEF alloc_behind_cache
<1>2. op'.pc = "overrun" /\ op' \notin CreateOp /\ op' \notin WriteOp
  BY <1>1 DEF Overrun, CreateOp, WriteOp
<1>3. /\ Types' /\ EntriesTyped' /\ Tables' /\ Stored' /\ Starts' /\ Apart'
  BY <1>1, <1>2, OnlyOp
<1>4. Extending' /\ Creating' /\ Writing'
  BY <1>2 DEF Extending, Creating, Writing
<1>5. QED
  BY <1>3, <1>4 DEF Inv

(* After a stop the chains are those on disk, and a file keeps what was    *)
(* written as far as its chain still goes.                                 *)
LEMMA CrashStep ==
  ASSUME Inv, crash_and_mount
  PROVE  Inv'
<1>1. /\ fat' = disk_fat /\ node' = [h \in Handle |-> NoNode] /\ op' = Idle
      /\ written' = [f \in Cluster |->
                       [p \in {q \in DOMAIN written[f] :
                                 q < Len(Chain(disk_fat, f)) * UNITS} |-> written[f][p]]]
      /\ UNCHANGED <<disk_fat, disk>>
  BY DEF crash_and_mount
<1>2. Types /\ EntriesTyped /\ Tables /\ Starts /\ Apart /\ Stored
  BY DEF Inv
<1>3. ASSUME NEW f \in Cluster
      PROVE  /\ DOMAIN written'[f] = {q \in DOMAIN written[f] :
                                        q < Len(Chain(disk_fat, f)) * UNITS}
             /\ \A p \in DOMAIN written'[f] : written'[f][p] = written[f][p]
  BY <1>1
<1>4. NoNode.kind = "none" /\ NoNode.size = 0
  BY DEF NoNode
<1>5. Types'
  <2>1. op' \in CreateOp \cup WriteOp \cup {Idle, Overrun}
    BY <1>1, BetweenOps
  <2>2. written' = [f \in Cluster |-> written'[f]]
    BY <1>1
  <2>3. \A f \in Cluster : DOMAIN written'[f] \subseteq Nat
    BY <1>2, <1>3 DEF Types
  <2>4. /\ node' \in [Handle -> FileNode \cup DirNode \cup {NoNode}]
        /\ \A h \in Handle : node'[h].first = 0 => node'[h].size = 0
    BY <1>1, <1>4
  <2>5. fat' \in Table /\ disk_fat' \in Table 
        /\ disk' = [c \in Cluster |-> disk'[c]]
    BY <1>1, <1>2 DEF Types
  <2>6. QED
    BY <2>1, <2>2, <2>3, <2>4, <2>5 DEF Types
<1>6. Entries' = Entries
  BY <1>1 DEF Entries
<1>7. EntriesTyped' /\ Tables'
  BY <1>1, <1>2, <1>6 DEF EntriesTyped, Tables, Lags, Keeps, Linked
<1>8. Starts' /\ Apart'
  <2>1. \A h \in Handle : node'[h].kind = "none"
    BY <1>1, <1>4
  <2>2. \A f \in Cluster : FileStart(f)' => FileStart(f)
    BY <1>3, <1>6, <2>1 DEF FileStart
  <2>3. \A f \in Cluster : DirStart(f)' => DirStart(f)
    BY <1>1, <1>6, <2>1, BetweenOps DEF DirStart
  <2>4. \A f \in Cluster : Known(f) => Start(fat', f) /\ Start(disk_fat', f)
    BY <1>1, <1>2 DEF Starts
  <2>5. QED
    BY <1>2, <2>2, <2>3, <2>4, StartsKept
<1>9. Stored'
  <2> SUFFICES ASSUME NEW f \in Cluster, NEW p \in DOMAIN written'[f]
               PROVE  \E c \in Cluster, byte \in written'[f][p] :
                        /\ Nth(fat', f, p \div UNITS + 1, c)
                        /\ disk'[c][p % UNITS] = Data(byte)
    BY DEF Stored
  <2>1. /\ p \in DOMAIN written[f] /\ written'[f][p] = written[f][p]
        /\ p < Len(Chain(disk_fat, f)) * UNITS /\ p \in Nat
    BY <1>2, <1>3 DEF Types
  <2>2. PICK c \in Cluster, byte \in written[f][p] :
          Nth(fat, f, p \div UNITS + 1, c) /\ disk[c][p % UNITS] = Data(byte)
    BY <1>1, <1>2, <2>1 DEF Stored
  <2>3. disk_fat \in Table /\ fat \in Table
    BY <1>2 DEF Types
  <2>4. p \div UNITS + 1 \in 1 .. Len(Chain(disk_fat, f))
    <3> DEFINE len == Len(Chain(disk_fat, f))
    <3>1. len \in Nat
      BY <2>3, ChainFacts, Numbers
    <3>2. p < len * UNITS
      BY <2>1
    <3> HIDE DEF len
    <3>3. p \div UNITS + 1 \in 1 .. len
      BY <2>1, <3>1, <3>2, InChain
    <3>4. QED
      BY <3>3 DEF len
  <2>5. Chain(fat, f)[p \div UNITS + 1] = Chain(disk_fat, f)[p \div UNITS + 1]
    BY <1>2, <2>3, <2>4, ChainPrefix DEF Tables, Lags, Keeps
  <2>6. Nth(disk_fat, f, p \div UNITS + 1, c)
    BY <2>2, <2>4, <2>5 DEF Nth
  <2>7. QED
    BY <1>1, <2>1, <2>2, <2>6
<1>10. QED
  BY <1>1, <1>5, <1>7, <1>8, <1>9, BetweenOps DEF Inv

(* A sound volume just mounted satisfies the invariant.                    *)
LEMMA InitInv == Init => Inv
<1> SUFFICES ASSUME Init PROVE Inv
  OBVIOUS
<1>1. /\ fat = FirstFat /\ disk_fat = FirstFat /\ disk = FirstDisk
      /\ node = [h \in Handle |-> NoNode] /\ op = Idle
      /\ written = [f \in Cluster |-> <<>>]
  BY DEF Init
<1> DEFINE found  == EntriesOn(FirstDisk)
           At(k)  == {e.first : e \in {d \in found : d.kind = k}}
           linked == {c \in Cluster : FirstFat[c] \in Cluster}
<1>2. /\ FirstDisk = [c \in Cluster |-> FirstDisk[c]]
      /\ \A e \in found : e.kind \in {"file", "dir"} /\ e.size \in Nat
      /\ \A e \in found : e.first = 0 => e.kind = "file" /\ e.size = 0
      /\ At("file") \cap (At("dir") \cup {Root}) = {}
      /\ \A f \in {Root} \cup At("dir") \cup (At("file") \ {0}) :
           f \in Cluster /\ FirstFat[f] # FREE /\ \A c \in linked : FirstFat[c] # f
      /\ \A c \in linked : FirstFat[FirstFat[c]] # FREE
      /\ \A c, d \in linked : FirstFat[c] = FirstFat[d] => c = d
  BY FormattedDisk
<1>3. found = Entries
  BY <1>1 DEF Entries
<1> HIDE DEF found
<1>4. ASSUME NEW e \in found
      PROVE  e.first \in At(e.kind) /\ (e.first # 0 => e.first \in Cluster)
  BY <1>2
<1>5. Idle.pc = "idle" /\ Idle \notin CreateOp /\ Idle \notin WriteOp
  BY DEF Idle, CreateOp, WriteOp
<1>6. NoNode.kind = "none" /\ NoNode.size = 0
  BY DEF NoNode
<1>7. \A f \in Cluster : DOMAIN written[f] = {}
  BY <1>1
<1>8. Types
  <2>1. fat \in Table /\ disk_fat \in Table
    BY <1>1, FilesAreCached DEF Table
  <2>2. disk = [c \in Cluster |-> disk[c]]
    BY <1>1, <1>2
  <2>3. /\ node \in [Handle -> FileNode \cup DirNode \cup {NoNode}]
        /\ \A h \in Handle : node[h].first = 0 => node[h].size = 0
    BY <1>1, <1>6
  <2>4. written = [f \in Cluster |-> written[f]]
    BY <1>1
  <2>5. QED
    BY <1>1, <1>7, <2>1, <2>2, <2>3, <2>4 DEF Types
<1>9. EntriesTyped
  BY <1>2, <1>3, <1>4 DEF EntriesTyped
<1>10. Linked(FirstFat)
  BY <1>2 DEF Linked
<1>11. Tables
  BY <1>1, <1>10 DEF Tables, Lags, Keeps, Linked
<1>12. \A h \in Handle : node[h].kind = "none"
  BY <1>1, <1>6
<1>13. ASSUME NEW f \in Cluster, FileStart(f) PROVE f \in At("file") \ {0}
  <2>1. PICK e \in found : e.kind = "file" /\ e.first = f
    BY <1>3, <1>7, <1>12, <1>13 DEF FileStart
  <2>2. f # 0
    BY Numbers DEF FREE
  <2>3. QED
    BY <1>4, <2>1, <2>2
<1>14. ASSUME NEW f \in Cluster, DirStart(f) PROVE f \in At("dir") \cup {Root}
  <2>1. f = Root \/ \E e \in found : e.kind = "dir" /\ e.first = f
    BY <1>1, <1>3, <1>5, <1>12, <1>14 DEF DirStart
  <2>2. QED
    BY <1>4, <2>1
<1>15. Starts
  <2> SUFFICES ASSUME NEW f \in Cluster, Known(f) PROVE Start(FirstFat, f)
    BY <1>1 DEF Starts
  <2>1. f \in {Root} \cup At("dir") \cup (At("file") \ {0})
    BY <1>13, <1>14 DEF Known
  <2>2. FirstFat[f] # FREE /\ \A c \in linked : FirstFat[c] # f
    BY <1>2, <2>1
  <2>3. QED
    BY <2>2 DEF Start
<1>16. Apart
  BY <1>2, <1>13, <1>14 DEF Apart
<1>17. Extending /\ Creating /\ Writing
  BY <1>1, <1>5 DEF Extending, Creating, Writing
<1>18. Stored
  BY <1>7 DEF Stored
<1>19. QED
  BY <1>8, <1>9, <1>11, <1>15, <1>16, <1>17, <1>18 DEF Inv

-----------------------------------------------------------------------------
(* Theorems                                                                *)

(* What the disk says a file or a directory starts with.                   *)
LEMMA StartsOnDisk ==
  ASSUME Inv, NEW f \in {Root} \cup Firsts(Entries)
  PROVE  f \in Cluster /\ Known(f)
<1>1. EntriesTyped
  BY DEF Inv
<1>2. CASE f = Root
  BY <1>2, Numbers DEF Known, DirStart
<1>3. CASE f \in Firsts(Entries)
  <2>1. PICK e \in Entries : e.first = f /\ f # 0
    BY <1>3 DEF Firsts
  <2>2. f \in Cluster /\ e.kind \in {"file", "dir"}
    BY <1>1, <2>1 DEF EntriesTyped
  <2>3. QED
    BY <2>1, <2>2 DEF Known, FileStart, DirStart
<1>4. QED
  BY <1>2, <1>3

(* Every step of the file system, every failure and every stop keeps the   *)
(* invariant.                                                              *)
THEOREM Invariance == Spec => []Inv
<1>1. Inv /\ [Next]_vars => Inv'
  <2> SUFFICES ASSUME Inv, [Next]_vars PROVE Inv'
    OBVIOUS
  <2>1. ASSUME NEW dir \in Dirs, NEW name \in Name, NEW kind \in {"file", "dir"},
               fat32_create(dir, name, kind)
        PROVE  Inv'
    BY <2>1, CreateStep
  <2>2. ASSUME NEW dir \in Dirs, NEW name \in Name, NEW h \in Handle,
               fat32_finddir(h, dir, name)
        PROVE  Inv'
    BY <2>2, FinddirStep
  <2>3. ASSUME NEW h \in Handle, fat32_close(h) PROVE Inv'
    BY <2>3, CloseStep
  <2>4. ASSUME NEW h \in Handle, NEW offset \in 0 .. MaxEnd, NEW count \in WriteSizes,
               NEW byte \in Byte, fat32_write(h, offset, count, byte)
        PROVE  Inv'
    BY <2>4, WriteStep
  <2>5. CASE extend_alloc
    BY <2>5, ExtendAllocStep
  <2>6. CASE extend_link
    BY <2>6, ExtendLinkStep
  <2>7. CASE create_clear
    BY <2>7, CreateClearStep
  <2>8. CASE create_dir_alloc
    BY <2>8, CreateDirAllocStep
  <2>9. CASE create_dir_init
    BY <2>9, CreateDirInitStep
  <2>10. CASE create_entry
    BY <2>10, CreateEntryStep
  <2>11. CASE write_first
    BY <2>11, WriteFirstStep
  <2>12. CASE write_walk
    BY <2>12, WriteWalkStep
  <2>13. CASE write_extended
    BY <2>13, WriteExtendedStep
  <2>14. CASE write_data
    BY <2>14, WriteDataStep
  <2>18. CASE alloc_behind_cache
    BY <2>18, OverrunStep
  <2>15. CASE crash_and_mount
    BY <2>15, CrashStep
  <2>16. CASE UNCHANGED vars
    <3>1. Inv = Inv'
      BY <2>16 DEF vars, Inv, Types, EntriesTyped, Entries, Tables, Linked, Lags, Keeps,
                   Starts, Apart, Known, FileStart, DirStart, Start, Extending, Creating,
                   Dirs, Writing, Stored, Nth
    <3>2. QED
      BY <3>1
  <2>17. QED
    BY <2>1, <2>2, <2>3, <2>4, <2>5, <2>6, <2>7, <2>8, <2>9, <2>10, <2>11, <2>12,
       <2>13, <2>14, <2>18, <2>15, <2>16 DEF Next
<1>2. QED
  BY InitInv, <1>1, PTL DEF Spec

(* ChainsDisjoint: no allocation, failure or stop gives a cluster of one   *)
(* directory or open file to another, if those on the volume at first lie  *)
(* in the cached part of its FAT, until the allocator searches behind it.  *)
THEOREM OwnersKept == Spec => []ChainsDisjoint
<1>1. Inv => ChainsDisjoint
  <2> SUFFICES ASSUME Inv PROVE ChainsDisjoint
    OBVIOUS
  <2> DEFINE firsts == {Root} \cup Firsts(Entries) \cup Firsts({node[h] : h \in Handle})
  <2>1. Types /\ EntriesTyped /\ Tables /\ Starts
    BY DEF Inv
  <2>2. ASSUME NEW f \in firsts PROVE Start(fat, f)
    <3>1. CASE f \in {Root} \cup Firsts(Entries)
      BY <2>1, <3>1, StartsOnDisk DEF Starts
    <3>2. CASE f \in Firsts({node[h] : h \in Handle})
      <4>1. PICK h \in Handle : node[h].first = f /\ f # 0
        BY <3>2 DEF Firsts
      <4>2. node[h] \in FileNode \cup DirNode \cup {NoNode}
        BY <2>1 DEF Types
      <4>3. f \in Cluster /\ node[h].kind \in {"file", "dir"}
        BY <4>1, <4>2 DEF FileNode, DirNode, NoNode
      <4>4. Known(f)
        BY <4>1, <4>3 DEF Known, FileStart, DirStart
      <4>5. QED
        BY <2>1, <4>3, <4>4 DEF Starts
    <3>3. QED
      BY <3>1, <3>2
  <2>3. fat \in Table /\ Linked(fat)
    BY <2>1 DEF Types, Tables
  <2>4. SoundChains(fat, firsts)
    <3> HIDE DEF firsts
    <3>1. QED
      BY <2>2, <2>3, SoundTable
  <2>5. QED
    BY <2>4 DEF ChainsDisjoint
<1>2. QED
  BY Invariance, <1>1, PTL

(* CrashConsistent: whatever was done, failed or was cut short, what is on *)
(* the disk is a sound file system, as far as the cached part of the FAT   *)
(* reaches.                                                                *)
THEOREM DiskSound == Spec => []CrashConsistent
<1>1. Inv => CrashConsistent
  <2> SUFFICES ASSUME Inv PROVE CrashConsistent
    OBVIOUS
  <2> DEFINE firsts == {Root} \cup Firsts(Entries)
  <2>1. Types /\ EntriesTyped /\ Tables /\ Starts
    BY DEF Inv
  <2>2. ASSUME NEW f \in firsts PROVE Start(disk_fat, f)
    BY <2>1, <2>2, StartsOnDisk DEF Starts
  <2>3. disk_fat \in Table /\ Linked(disk_fat)
    BY <2>1 DEF Types, Tables
  <2>4. SoundChains(disk_fat, firsts)
    <3> HIDE DEF firsts
    <3>1. QED
      BY <2>2, <2>3, SoundTable
  <2>5. QED
    BY <2>4 DEF CrashConsistent
<1>2. QED
  BY Invariance, <1>1, PTL

(* ReadsReturnWrites: below a node's size a read returns the byte written  *)
(* there last, or that of a write that failed since, through whichever     *)
(* node; only what surrounds a rewrite whose read failed is excepted.      *)
THEOREM ReadBack == Spec => []ReadsReturnWrites
<1>1. Inv => ReadsReturnWrites
  <2> SUFFICES ASSUME Inv, NEW h \in Handle, node[h].kind = "file",
                      NEW pos \in 0 .. node[h].size - 1, pos \in DOMAIN written[node[h].first]
               PROVE  \E byte \in written[node[h].first][pos] :
                        fat32_read(h, pos) = Data(byte)
    BY DEF ReadsReturnWrites
  <2>1. Types /\ Stored
    BY DEF Inv
  <2>2. node[h].first \in Cluster \cup {0} /\ node[h].size \in Nat
    <3>1. node[h] \in FileNode \cup DirNode \cup {NoNode}
      BY <2>1 DEF Types
    <3>2. QED
      BY <3>1 DEF FileNode, DirNode, NoNode
  <2>3. node[h].first # 0
    <3>1. node[h].first = 0 => node[h].size = 0
      BY <2>1 DEF Types
    <3>2. QED
      BY <2>2, <3>1
  <2>4. PICK c \in Cluster, byte \in written[node[h].first][pos] :
          /\ Nth(fat, node[h].first, pos \div UNITS + 1, c)
          /\ disk[c][pos % UNITS] = Data(byte)
    BY <2>1, <2>2, <2>3 DEF Stored
  <2>5. QED
    BY <2>4 DEF Nth, fat32_read
<1>2. QED
  BY Invariance, <1>1, PTL
=============================================================================
