------------------------ MODULE FetchExecutionProofs ------------------------
(***************************************************************************)
(* Proofs about FetchExecution, for all plans: the order of                 *)
(* orderSequenceByDependencies, the tree that is executed and what the walk *)
(* of it guarantees, whatever the scheduler comes up with, and that what    *)
(* the scheduler itself builds is valid and never slower than the waves.    *)
(***************************************************************************)
EXTENDS FetchExecution, FiniteSetTheorems, WellFoundedInduction, TLAPS

-----------------------------------------------------------------------------
(* Dependencies.                                                            *)

\* DependsOn is the least closed set that holds the dependencies of a fetch.
LEMMA DependsOnLeast ==
    ASSUME NEW g, NEW f \in DOMAIN g
    PROVE  /\ g[f] \subseteq DependsOn(g, f)
           /\ DependsOn(g, f) \subseteq Mentioned(g)
           /\ Closed(g, DependsOn(g, f))
           /\ \A S : g[f] \subseteq S /\ Closed(g, S) => DependsOn(g, f) \subseteq S
<1> DEFINE closed == {S \in SUBSET Mentioned(g) : g[f] \subseteq S /\ Closed(g, S)}
<1>1. DependsOn(g, f) = {d \in Mentioned(g) : \A S \in closed : d \in S}
  BY DEF DependsOn
<1>2. \A e \in DOMAIN g : g[e] \subseteq Mentioned(g)
  BY DEF Mentioned
<1>3. g[f] \subseteq DependsOn(g, f)
  BY <1>1, <1>2
<1>4. Closed(g, DependsOn(g, f))
  <2> SUFFICES ASSUME NEW e \in DependsOn(g, f) \cap DOMAIN g, NEW d \in g[e]
               PROVE  d \in DependsOn(g, f)
    BY DEF Closed
  <2>1. ASSUME NEW S \in closed PROVE d \in S
    BY <1>1, <2>1 DEF Closed
  <2> QED BY <1>1, <1>2, <2>1
<1>5. ASSUME NEW S, g[f] \subseteq S, Closed(g, S)
      PROVE  DependsOn(g, f) \subseteq S
  <2>1. Closed(g, S \cap Mentioned(g))
    BY <1>2, <1>5 DEF Closed
  <2>2. S \cap Mentioned(g) \in closed
    BY <1>2, <1>5, <2>1
  <2> QED BY <1>1, <2>2
<1> QED BY <1>1, <1>3, <1>4, <1>5

\* What f depends on, its dependencies depend on, or is one of them.
LEMMA DependsOnUnfolds ==
    ASSUME NEW g, NEW f \in DOMAIN g, NEW x \in DependsOn(g, f)
    PROVE  x \in g[f] \/ \E y \in Parents(g, f) : x \in DependsOn(g, y)
<1> DEFINE S == g[f] \cup UNION {DependsOn(g, y) : y \in Parents(g, f)}
<1>1. ASSUME NEW e \in S \cap DOMAIN g PROVE g[e] \subseteq S
  <2>1. CASE e \in g[f]
    BY <1>1, <2>1, DependsOnLeast DEF Parents
  <2>2. CASE e \notin g[f]
    <3>1. PICK y \in Parents(g, f) : e \in DependsOn(g, y)
      BY <1>1, <2>2
    <3> QED BY <1>1, <3>1, DependsOnLeast DEF Parents, Closed
  <2> QED BY <2>1, <2>2
<1>2. Closed(g, S)
  BY <1>1 DEF Closed
<1>3. DependsOn(g, f) \subseteq S
  BY <1>2, DependsOnLeast
<1> QED BY <1>3

\* Depending on is transitive.
LEMMA DependsOnTransitive ==
    ASSUME NEW g, NEW f \in DOMAIN g, NEW d \in DependsOn(g, f) \cap DOMAIN g
    PROVE  DependsOn(g, d) \subseteq DependsOn(g, f)
BY DependsOnLeast DEF Closed

\* In an acyclic graph no fetch depends on itself.
LEMMA DependsOnIrreflexive ==
    ASSUME NEW g, Acyclic(g), NEW f \in DOMAIN g
    PROVE  f \notin DependsOn(g, f)
<1> SUFFICES ASSUME f \in DependsOn(g, f) PROVE FALSE
  OBVIOUS
<1> DEFINE S == {x \in DOMAIN g : x \in DependsOn(g, f) /\ f \in DependsOn(g, x)}
<1>1. PICK e \in S : g[e] \cap S = {}
  BY DEF Acyclic
<1>2. CASE f \in g[e]
  BY <1>1, <1>2
<1>3. CASE f \notin g[e]
  <2>1. PICK y \in Parents(g, e) : f \in DependsOn(g, y)
    BY <1>1, <1>3, DependsOnUnfolds
  <2>2. y \in DependsOn(g, f)
    BY <1>1, <2>1, DependsOnLeast DEF Closed, Parents
  <2> QED BY <1>1, <2>1, <2>2 DEF Parents
<1> QED BY <1>2, <1>3

\* A fetch depends on more fetches than each of those it depends on.
LEMMA DependsOnMore ==
    ASSUME NEW g, IsFiniteSet(Mentioned(g)), Acyclic(g),
           NEW a \in DOMAIN g, NEW b \in DOMAIN g, a \in DependsOn(g, b)
    PROVE  Cardinality(DependsOn(g, a)) < Cardinality(DependsOn(g, b))
<1>1. DependsOn(g, a) \subseteq DependsOn(g, b) /\ DependsOn(g, a) # DependsOn(g, b)
  BY DependsOnTransitive, DependsOnIrreflexive
<1>2. IsFiniteSet(DependsOn(g, b))
  BY DependsOnLeast, FS_Subset
<1>3. IsFiniteSet(DependsOn(g, a))
  BY <1>1, <1>2, FS_Subset
<1>4. /\ Cardinality(DependsOn(g, a)) \in Nat
      /\ Cardinality(DependsOn(g, b)) \in Nat
  BY <1>2, <1>3, FS_CardinalityType
<1>5. /\ Cardinality(DependsOn(g, a)) <= Cardinality(DependsOn(g, b))
      /\ Cardinality(DependsOn(g, a)) # Cardinality(DependsOn(g, b))
  BY <1>1, <1>2, FS_Subset
<1> QED BY <1>4, <1>5

\* The comparison of orderSequenceByDependencies is by number of dependencies and
\* then by id.
LEMMA ComesFirstIsLexicographic ==
    ASSUME NEW g, IsFiniteSet(Mentioned(g)), Acyclic(g),
           NEW a \in DOMAIN g, NEW b \in DOMAIN g
    PROVE  /\ Cardinality(DependsOn(g, a)) \in Nat
           /\ ComesFirst(g, a, b) <=>
                \/ Cardinality(DependsOn(g, a)) < Cardinality(DependsOn(g, b))
                \/ Cardinality(DependsOn(g, a)) = Cardinality(DependsOn(g, b)) /\ a < b
<1> DEFINE na == Cardinality(DependsOn(g, a))
           nb == Cardinality(DependsOn(g, b))
<1>1. na \in Nat /\ nb \in Nat
  BY DependsOnLeast, FS_Subset, FS_CardinalityType
<1>2. a \in DependsOn(g, b) => na < nb
  BY DependsOnMore
<1>3. b \in DependsOn(g, a) => nb < na
  BY DependsOnMore
<1>4. DependsOn(g, a) = DependsOn(g, b) => na = nb
  OBVIOUS
<1> HIDE DEF na, nb
<1>5. ComesFirst(g, a, b) <=> (na < nb) \/ (na = nb /\ a < b)
  <2>1. CASE DependsOn(g, a) = DependsOn(g, b)
    BY <1>1, <1>4, <2>1 DEF ComesFirst
  <2>2. CASE DependsOn(g, a) # DependsOn(g, b) /\ a \in DependsOn(g, b)
    BY <1>1, <1>2, <2>2 DEF ComesFirst
  <2>3. CASE DependsOn(g, a) # DependsOn(g, b) /\ b \in DependsOn(g, a) /\ a \notin DependsOn(g, b)
    BY <1>1, <1>3, <2>3 DEF ComesFirst
  <2>4. CASE DependsOn(g, a) # DependsOn(g, b) /\ a \notin DependsOn(g, b) /\ b \notin DependsOn(g, a)
    BY <1>1, <2>4 DEF ComesFirst, na, nb
  <2> QED BY <2>1, <2>2, <2>3, <2>4
<1> QED BY <1>1, <1>5 DEF na, nb

-----------------------------------------------------------------------------
(* Waves.                                                                   *)

\* A set of naturals has a least member.
LEMMA LeastNatural ==
    ASSUME NEW T, T \subseteq Nat, T # {}
    PROVE  \E m \in T : \A n \in T : m <= n
<1>1. PICK m \in T : \A n \in T : ~(<<n, m>> \in OpToRel(<, Nat))
  BY NatLessThanWellFounded, WFMin, Zenon
<1>2. \A n \in T : ~(n < m)
  BY <1>1 DEF OpToRel
<1> QED BY <1>2

\* Each fetch of the waves is in one of them, behind its dependencies.
Layered(g, ws) ==
    \A i \in DOMAIN ws : \A f \in ws[i] :
        /\ \A d \in Parents(g, f) : \E j \in 1..(i - 1) : d \in ws[j]
        /\ \A j \in DOMAIN ws : f \in ws[j] => j = i

\* All fetches are in a wave.
Covers(ws, g) == \A f \in DOMAIN g : \E i \in DOMAIN ws : f \in ws[i]

\* All dependencies are in the graph.
Inside(g) == \A f \in DOMAIN g : g[f] \subseteq DOMAIN g

\* No fetch of the waves could be in an earlier one.
Tight(g, ws) ==
    \A i \in DOMAIN ws : i > 1 => \A f \in ws[i] : \E d \in Parents(g, f) : d \in ws[i - 1]

\* What the earlier waves provide for is in a wave.
Saturated(g, ws) ==
    \A i \in DOMAIN ws : \A f \in DOMAIN g :
        g[f] \subseteq UNION {ws[j] : j \in 1..(i - 1)} => \E j \in 1..i : f \in ws[j]

\* A graph that can be put into waves is acyclic.
LEMMA LayeredIsAcyclic ==
    ASSUME NEW g, NEW ws \in Seq(SUBSET DOMAIN g), Layered(g, ws), Covers(ws, g)
    PROVE  Acyclic(g)
<1> SUFFICES ASSUME NEW S \in SUBSET DOMAIN g, S # {}
             PROVE  \E f \in S : g[f] \cap S = {}
  BY DEF Acyclic
<1> DEFINE T == {i \in DOMAIN ws : ws[i] \cap S # {}}
<1>1. T \subseteq Nat /\ T # {}
  BY DEF Covers
<1>2. PICK i \in T : \A n \in T : i <= n
  BY <1>1, LeastNatural
<1>3. PICK f \in S : f \in ws[i]
  BY <1>2
<1>4. ASSUME NEW d \in g[f] \cap S PROVE FALSE
  <2>1. PICK j \in 1..(i - 1) : d \in ws[j]
    BY <1>2, <1>3, <1>4 DEF Layered, Parents
  <2>2. j \in DOMAIN ws
    BY <1>2, <2>1
  <2> QED BY <1>2, <1>4, <2>1, <2>2
<1> QED BY <1>3, <1>4

\* The Sequence of Parallel nodes made of such waves is a valid schedule.
LEMMA WavesAreValid ==
    ASSUME NEW g, DOMAIN g \subseteq Nat,
           NEW ws \in Seq(SUBSET DOMAIN g), Layered(g, ws), Covers(ws, g)
    PROVE  ValidSchedule(TreeInWaves(ws), g)
<1> DEFINE path(i, f) == << <<"sequence", i>>, <<"parallel", f>> >>
           t == TreeInWaves(ws)
<1>1. ASSUME NEW a \in t
      PROVE  \E i \in DOMAIN ws : a.id \in ws[i] /\ a = Leaf(a.id, path(i, a.id))
  BY <1>1 DEF TreeInWaves, Leaf
<1>2. ASSUME NEW i \in DOMAIN ws, NEW f \in ws[i]
      PROVE  Leaf(f, path(i, f)) \in t /\ Leaf(f, path(i, f)).id = f
  <2>1. Leaf(f, path(i, f)) \in {Leaf(e, path(i, e)) : e \in ws[i]}
    BY <1>2
  <2>2. {Leaf(e, path(i, e)) : e \in ws[i]} \subseteq t
    BY <1>2 DEF TreeInWaves
  <2> QED BY <2>1, <2>2 DEF Leaf
<1>3. FetchIDs(t) = DOMAIN g
  <2>1. ASSUME NEW f \in FetchIDs(t) PROVE f \in DOMAIN g
    <3>1. PICK a \in t : a.id = f
      BY <2>1 DEF FetchIDs
    <3>2. PICK i \in DOMAIN ws : a.id \in ws[i]
      BY <1>1
    <3> QED BY <3>1, <3>2
  <2>2. ASSUME NEW f \in DOMAIN g PROVE f \in FetchIDs(t)
    BY <1>2, <2>2 DEF FetchIDs, Covers
  <2> QED BY <2>1, <2>2
<1>4. ASSUME NEW a \in t, NEW b \in t, a.id = b.id PROVE a = b
  <2>1. PICK i \in DOMAIN ws : a.id \in ws[i] /\ a = Leaf(a.id, path(i, a.id))
    BY <1>1
  <2>2. PICK j \in DOMAIN ws : b.id \in ws[j] /\ b = Leaf(b.id, path(j, b.id))
    BY <1>1
  <2>3. i = j
    BY <1>4, <2>1, <2>2 DEF Layered
  <2> QED BY <1>4, <2>1, <2>2, <2>3
<1>5. ASSUME NEW f \in DOMAIN g, NEW d \in Parents(g, f)
      PROVE  d \in Predecessors(t, f)
  <2>1. PICK i \in DOMAIN ws : f \in ws[i]
    BY DEF Covers
  <2>2. PICK j \in 1..(i - 1) : d \in ws[j]
    BY <2>1, <1>5 DEF Layered
  <2>3. j \in DOMAIN ws /\ i \in Int /\ j < i
    BY <2>1, <2>2
  <2>4. Precedes(path(j, d), path(i, f))
    <3>1. 1 \in DOMAIN path(j, d) \cap DOMAIN path(i, f)
      OBVIOUS
    <3>2. path(j, d)[1] = <<"sequence", j>> /\ path(i, f)[1] = <<"sequence", i>>
      OBVIOUS
    <3>3. /\ path(j, d)[1][1] = "sequence" /\ path(i, f)[1][1] = "sequence"
          /\ path(j, d)[1][2] < path(i, f)[1][2]
      BY <2>3, <3>2
    <3>4. \A m \in 1..(1 - 1) : path(j, d)[m] = path(i, f)[m]
      OBVIOUS
    <3> HIDE DEF path
    <3> QED BY <3>1, <3>3, <3>4 DEF Precedes
  <2>5. /\ Leaf(d, path(j, d)) \in t /\ Leaf(d, path(j, d)).id = d
        /\ Leaf(f, path(i, f)) \in t /\ Leaf(f, path(i, f)).id = f
        /\ Leaf(d, path(j, d)).path = path(j, d) /\ Leaf(f, path(i, f)).path = path(i, f)
    BY <1>2, <2>1, <2>2, <2>3 DEF Leaf
  <2>6. d \in FetchIDs(t)
    BY <1>3, <1>5 DEF Parents
  <2> HIDE DEF path, t
  <2> QED BY <2>4, <2>5, <2>6 DEF Predecessors
<1>6. ASSUME NEW a \in t PROVE a.path \in Paths
  <2>1. PICK i \in DOMAIN ws : a.id \in ws[i] /\ a = Leaf(a.id, path(i, a.id))
    BY <1>1
  <2>2. a.path = path(i, a.id) /\ i \in Nat /\ a.id \in Nat
    BY <2>1 DEF Leaf
  <2>3. path(i, a.id) \in Paths
    BY <2>2 DEF Paths
  <2> QED BY <2>2, <2>3
<1> QED BY <1>3, <1>4, <1>5, <1>6 DEF ValidSchedule

-----------------------------------------------------------------------------
(* Paths.                                                                  *)

\* Two paths part: neither leads on from the other.
Parted(p, q) == \E k \in DOMAIN p \cap DOMAIN q : p[k] # q[k]

\* What a path is followed by changes nothing of the path.
LEMMA ConcatAt ==
    ASSUME NEW p \in Paths, NEW u \in Paths
    PROVE  /\ p \o u \in Paths /\ Len(p \o u) = Len(p) + Len(u)
           /\ Len(p) \in Nat /\ Len(u) \in Nat
           /\ DOMAIN p = 1..Len(p) /\ DOMAIN u = 1..Len(u)
           /\ DOMAIN (p \o u) = 1..(Len(p) + Len(u))
           /\ \A k \in 1..Len(p) : (p \o u)[k] = p[k]
           /\ \A k \in 1..Len(u) : (p \o u)[Len(p) + k] = u[k]
BY DEF Paths

\* Where paths part, what follows them parts as well, and in the same way.
LEMMA LeadOn ==
    ASSUME NEW p \in Paths, NEW q \in Paths, NEW u \in Paths, NEW v \in Paths
    PROVE  /\ Parted(p, q) => Parted(p \o u, q \o v)
           /\ Precedes(p, q) => Precedes(p \o u, q \o v)
           /\ Parted(p, q) /\ Precedes(p \o u, q \o v) => Precedes(p, q)
<1>1. /\ Len(p) \in Nat /\ Len(q) \in Nat /\ Len(u) \in Nat /\ Len(v) \in Nat
      /\ DOMAIN p = 1..Len(p) /\ DOMAIN q = 1..Len(q)
      /\ DOMAIN (p \o u) = 1..(Len(p) + Len(u)) /\ DOMAIN (q \o v) = 1..(Len(q) + Len(v))
      /\ \A k \in 1..Len(p) : (p \o u)[k] = p[k]
      /\ \A k \in 1..Len(q) : (q \o v)[k] = q[k]
  BY ConcatAt
<1>2. ASSUME NEW k \in DOMAIN p \cap DOMAIN q
      PROVE  /\ k \in DOMAIN (p \o u) \cap DOMAIN (q \o v)
             /\ k \in Nat
             /\ \A j \in 1..k : (p \o u)[j] = p[j] /\ (q \o v)[j] = q[j]
  BY <1>1, <1>2
<1> DEFINE pu == p \o u
           qv == q \o v
<1> HIDE DEF pu, qv
<1>3. \A k \in DOMAIN p \cap DOMAIN q :
          /\ k \in DOMAIN pu \cap DOMAIN qv /\ k \in Nat /\ k \in 1..k
          /\ \A j \in 1..k : pu[j] = p[j] /\ qv[j] = q[j]
  BY <1>1, <1>2 DEF pu, qv
<1>4. \A k \in Nat : \A j \in 1..(k - 1) : j \in 1..k
  OBVIOUS
<1>5. Parted(p, q) => Parted(pu, qv)
  BY <1>3 DEF Parted
<1>6. ASSUME Precedes(p, q) PROVE Precedes(pu, qv)
  <2>1. PICK k \in DOMAIN p \cap DOMAIN q :
          /\ \A j \in 1..(k - 1) : p[j] = q[j]
          /\ p[k][1] = "sequence" /\ q[k][1] = "sequence" /\ p[k][2] < q[k][2]
    BY <1>6 DEF Precedes
  <2>2. \A j \in 1..(k - 1) : pu[j] = qv[j]
    BY <1>3, <1>4, <2>1
  <2> QED BY <1>3, <2>1, <2>2 DEF Precedes
<1>7. ASSUME Parted(p, q), Precedes(pu, qv) PROVE Precedes(p, q)
  <2>1. PICK k \in DOMAIN pu \cap DOMAIN qv :
          /\ \A j \in 1..(k - 1) : pu[j] = qv[j]
          /\ pu[k][1] = "sequence" /\ qv[k][1] = "sequence" /\ pu[k][2] < qv[k][2]
    BY <1>7 DEF Precedes
  <2>2. PICK l \in DOMAIN p \cap DOMAIN q : p[l] # q[l]
    BY <1>7 DEF Parted
  <2>3. pu[l] # qv[l] /\ l \in Nat /\ l \in 1..Len(p) /\ l \in 1..Len(q)
    BY <1>1, <1>3, <2>2
  <2>4. k \in Nat /\ 1 <= k /\ k <= l
    <3>1. k \in Nat /\ 1 <= k
      BY <1>1, <2>1 DEF pu, qv
    <3>2. l \in 1..(k - 1) => FALSE
      BY <2>1, <2>3
    <3> QED BY <1>1, <2>3, <3>1, <3>2
  <2>5. k \in DOMAIN p \cap DOMAIN q
    BY <1>1, <2>3, <2>4
  <2>6. \A j \in 1..(k - 1) : p[j] = q[j]
    BY <1>3, <1>4, <2>1, <2>4, <2>5
  <2>7. pu[k] = p[k] /\ qv[k] = q[k]
    BY <1>3, <2>5
  <2> QED BY <2>1, <2>5, <2>6, <2>7 DEF Precedes
<1> QED BY <1>5, <1>6, <1>7 DEF pu, qv

\* Paths that lead on from the same one part if what follows does, and in the same way.
LEMMA LeadOff ==
    ASSUME NEW p \in Paths, NEW u \in Paths, NEW v \in Paths
    PROVE  /\ Parted(u, v) => Parted(p \o u, p \o v)
           /\ Precedes(u, v) <=> Precedes(p \o u, p \o v)
<1> DEFINE pu == p \o u
           pv == p \o v
           n  == Len(p)
<1>1. /\ n \in Nat /\ Len(u) \in Nat /\ Len(v) \in Nat
      /\ DOMAIN u = 1..Len(u) /\ DOMAIN v = 1..Len(v)
      /\ DOMAIN pu = 1..(n + Len(u)) /\ DOMAIN pv = 1..(n + Len(v))
      /\ \A k \in 1..n : pu[k] = p[k] /\ pv[k] = p[k]
      /\ \A k \in 1..Len(u) : pu[n + k] = u[k]
      /\ \A k \in 1..Len(v) : pv[n + k] = v[k]
  BY ConcatAt
<1> HIDE DEF pu, pv, n
<1>2. ASSUME NEW k \in DOMAIN u \cap DOMAIN v
      PROVE  n + k \in DOMAIN pu \cap DOMAIN pv /\ pu[n + k] = u[k] /\ pv[n + k] = v[k]
  BY <1>1, <1>2
<1>3. Parted(u, v) => Parted(pu, pv)
  BY <1>2 DEF Parted
<1>4. ASSUME Precedes(u, v) PROVE Precedes(pu, pv)
  <2>1. PICK k \in DOMAIN u \cap DOMAIN v :
          /\ \A j \in 1..(k - 1) : u[j] = v[j]
          /\ u[k][1] = "sequence" /\ v[k][1] = "sequence" /\ u[k][2] < v[k][2]
    BY <1>4 DEF Precedes
  <2>2. ASSUME NEW j \in 1..((n + k) - 1) PROVE pu[j] = pv[j]
    <3>1. CASE j \in 1..n
      BY <1>1, <3>1
    <3>2. CASE j \notin 1..n
      <4>1. j - n \in 1..(k - 1) /\ j = n + (j - n)
        BY <1>1, <2>1, <3>2
      <4>2. j - n \in DOMAIN u \cap DOMAIN v
        BY <1>1, <2>1, <4>1
      <4> QED BY <1>2, <2>1, <4>1, <4>2
    <3> QED BY <3>1, <3>2
  <2>3. /\ n + k \in DOMAIN pu \cap DOMAIN pv
        /\ pu[n + k][1] = "sequence" /\ pv[n + k][1] = "sequence"
        /\ pu[n + k][2] < pv[n + k][2]
    BY <1>2, <2>1
  <2> DEFINE l == n + k
  <2>4. \A j \in 1..(l - 1) : pu[j] = pv[j]
    BY <2>2
  <2>5. /\ l \in DOMAIN pu \cap DOMAIN pv
        /\ pu[l][1] = "sequence" /\ pv[l][1] = "sequence"
        /\ pu[l][2] < pv[l][2]
    BY <2>3
  <2> HIDE DEF l
  <2> QED BY <2>4, <2>5 DEF Precedes
<1>5. ASSUME Precedes(pu, pv) PROVE Precedes(u, v)
  <2>1. PICK k \in DOMAIN pu \cap DOMAIN pv :
          /\ \A j \in 1..(k - 1) : pu[j] = pv[j]
          /\ pu[k][1] = "sequence" /\ pv[k][1] = "sequence" /\ pu[k][2] < pv[k][2]
    BY <1>5 DEF Precedes
  <2>2. CASE k \in 1..n
    <3>1. pu[k] = p[k] /\ pv[k] = p[k]
      BY <1>1, <2>2
    <3>2. p \in Seq({"sequence", "parallel"} \X Nat) /\ k \in 1..Len(p)
      BY <2>2 DEF Paths, n
    <3>3. p[k] \in {"sequence", "parallel"} \X Nat
      BY <3>2
    <3> QED BY <2>1, <3>1, <3>3
  <2>3. CASE k \notin 1..n
    <3>1. k - n \in DOMAIN u \cap DOMAIN v /\ k = n + (k - n)
      BY <1>1, <2>1, <2>3
    <3>2. ASSUME NEW j \in 1..(k - n - 1) PROVE u[j] = v[j]
      <4>1. n + j \in 1..(k - 1) /\ j \in DOMAIN u \cap DOMAIN v
        BY <1>1, <2>1, <3>1
      <4> QED BY <1>2, <2>1, <4>1
    <3> QED BY <1>2, <2>1, <3>1, <3>2 DEF Precedes
  <2> QED BY <2>2, <2>3
<1> QED BY <1>3, <1>4, <1>5 DEF pu, pv

\* Paths that part at a Sequence are ordered.
LEMMA PrecedesIsOrder ==
    ASSUME NEW p \in Paths, NEW q \in Paths, NEW r \in Paths
    PROVE  /\ ~Precedes(p, p)
           /\ Precedes(p, q) /\ Precedes(q, r) => Precedes(p, r)
<1> DEFINE Steps == {"sequence", "parallel"} \X Nat
<1> USE DEF Paths
<1>1. \A x \in Steps : x[2] \in Nat
  OBVIOUS
<1>2. /\ \A k \in DOMAIN p : p[k] \in Steps /\ p[k][2] \in Nat
      /\ \A k \in DOMAIN q : q[k] \in Steps /\ q[k][2] \in Nat
      /\ \A k \in DOMAIN r : r[k] \in Steps /\ r[k][2] \in Nat
  BY <1>1
<1>3. ~Precedes(p, p)
  BY <1>2 DEF Precedes
<1>4. ASSUME Precedes(p, q), Precedes(q, r) PROVE Precedes(p, r)
  <2>1. PICK k \in DOMAIN p \cap DOMAIN q :
          /\ \A j \in 1..(k - 1) : p[j] = q[j]
          /\ p[k][1] = "sequence" /\ q[k][1] = "sequence" /\ p[k][2] < q[k][2]
    BY <1>4 DEF Precedes
  <2>2. PICK l \in DOMAIN q \cap DOMAIN r :
          /\ \A j \in 1..(l - 1) : q[j] = r[j]
          /\ q[l][1] = "sequence" /\ r[l][1] = "sequence" /\ q[l][2] < r[l][2]
    BY <1>4 DEF Precedes
  <2>3. /\ k \in 1..Len(p) /\ k \in 1..Len(q) /\ l \in 1..Len(q) /\ l \in 1..Len(r)
        /\ Len(p) \in Nat /\ Len(q) \in Nat /\ Len(r) \in Nat
        /\ DOMAIN p = 1..Len(p) /\ DOMAIN r = 1..Len(r)
    <3>1. /\ Len(p) \in Nat /\ Len(q) \in Nat /\ Len(r) \in Nat
          /\ DOMAIN p = 1..Len(p) /\ DOMAIN q = 1..Len(q) /\ DOMAIN r = 1..Len(r)
      OBVIOUS
    <3> QED BY <3>1
  <2>4. CASE k < l
    <3>0. k \in 1..(l - 1) /\ k \in 1..Len(r) /\ k \in 1..Len(p)
      <4>1. /\ k \in Int /\ l \in Int /\ Len(r) \in Int
            /\ 1 <= k /\ l <= Len(r) /\ k \in 1..Len(p)
        BY <2>3
      <4> HIDE DEF Steps
      <4> QED BY <4>1, <2>4
    <3>1. q[k] = r[k] /\ k \in DOMAIN p \cap DOMAIN r
      BY <2>2, <2>3, <3>0
    <3>2. \A j \in 1..(k - 1) : p[j] = r[j]
      BY <2>1, <2>2, <2>3, <2>4
    <3> QED BY <2>1, <3>1, <3>2 DEF Precedes
  <2>5. CASE l < k
    <3>0. l \in 1..(k - 1) /\ l \in 1..Len(r) /\ l \in 1..Len(p)
      <4>1. /\ k \in Int /\ l \in Int /\ Len(p) \in Int
            /\ 1 <= l /\ k <= Len(p) /\ l \in 1..Len(r)
        BY <2>3
      <4> HIDE DEF Steps
      <4> QED BY <4>1, <2>5
    <3>1. p[l] = q[l] /\ l \in DOMAIN p \cap DOMAIN r
      BY <2>1, <2>3, <3>0
    <3>2. \A j \in 1..(l - 1) : p[j] = r[j]
      BY <2>1, <2>2, <2>3, <2>5
    <3> QED BY <2>2, <3>1, <3>2 DEF Precedes
  <2>6. CASE k = l
    <3>1. k \in DOMAIN p \cap DOMAIN r
      BY <2>1, <2>2, <2>6
    <3>2. \A j \in 1..(k - 1) : p[j] = r[j]
      BY <2>1, <2>2, <2>6
    <3>3. p[k][2] < r[k][2]
      BY <1>2, <2>1, <2>2, <2>6
    <3> QED BY <2>1, <2>2, <2>6, <3>1, <3>2, <3>3 DEF Precedes
  <2> QED BY <2>3, <2>4, <2>5, <2>6
<1> QED BY <1>3, <1>4

-----------------------------------------------------------------------------
(* The calls of schedule.                                                  *)

\* The lowest id of some fetches.
LEMMA FirstIsLeast ==
    ASSUME NEW S, S \subseteq Nat, S # {}
    PROVE  First(S) \in S /\ \A e \in S : First(S) <= e
BY LeastNatural DEF First

\* The component of a fetch holds it and is left by no dependency.
LEMMA ComponentIsJoined ==
    ASSUME NEW g, NEW S, NEW f \in S
    PROVE  /\ f \in Component(g, S, f) /\ Component(g, S, f) \subseteq S
           /\ Joined(g, S, Component(g, S, f))
           /\ \A C \in SUBSET S : f \in C /\ Joined(g, S, C) => Component(g, S, f) \subseteq C
<1>1. f \in Component(g, S, f) /\ Component(g, S, f) \subseteq S
  BY DEF Component
<1>2. \A C \in SUBSET S : f \in C /\ Joined(g, S, C) => Component(g, S, f) \subseteq C
  BY DEF Component
<1>3. ASSUME NEW a \in Component(g, S, f), NEW b \in S \ Component(g, S, f)
      PROVE  a \notin g[b] /\ b \notin g[a]
  <2>1. PICK C \in SUBSET S : f \in C /\ Joined(g, S, C) /\ b \notin C
    BY <1>3 DEF Component
  <2>2. a \in C
    BY <1>2, <1>3, <2>1
  <2> QED BY <1>3, <2>1, <2>2 DEF Joined
<1> QED BY <1>1, <1>2, <1>3 DEF Joined

\* Components have no fetch in common.
LEMMA ComponentsAreApart ==
    ASSUME NEW g, NEW S, NEW P \in WeaklyConnectedComponents(g, S),
           NEW Q \in WeaklyConnectedComponents(g, S), P \cap Q # {}
    PROVE  P = Q
<1>1. ASSUME NEW f \in S, NEW e \in Component(g, S, f)
      PROVE  Component(g, S, e) = Component(g, S, f)
  <2> DEFINE F == Component(g, S, f)
             E == Component(g, S, e)
  <2>1. /\ e \in S /\ f \in F /\ e \in E /\ F \subseteq S /\ E \subseteq S
        /\ Joined(g, S, F) /\ Joined(g, S, E)
        /\ \A C \in SUBSET S : f \in C /\ Joined(g, S, C) => F \subseteq C
        /\ \A C \in SUBSET S : e \in C /\ Joined(g, S, C) => E \subseteq C
    BY <1>1, ComponentIsJoined
  <2> HIDE DEF E, F
  <2>2. E \subseteq F
    BY <1>1, <2>1 DEF F
  <2>3. Joined(g, S, F \ E)
    BY <2>1 DEF Joined
  <2>4. f \in E
    BY <1>1, <2>1, <2>3 DEF F
  <2>5. F \subseteq E
    BY <2>1, <2>4
  <2> QED BY <2>2, <2>5 DEF E, F
<1>2. PICK p \in S : P = Component(g, S, p)
  BY DEF WeaklyConnectedComponents
<1>3. PICK q \in S : Q = Component(g, S, q)
  BY DEF WeaklyConnectedComponents
<1>4. PICK e \in P \cap Q : TRUE
  OBVIOUS
<1> QED BY <1>1, <1>2, <1>3, <1>4

\* Each fetch is in a component, with what it depends on directly.
LEMMA ComponentsCover ==
    ASSUME NEW g, NEW S
    PROVE  /\ \A f \in S : \E P \in WeaklyConnectedComponents(g, S) : f \in P
           /\ \A P \in WeaklyConnectedComponents(g, S) :
                P # {} /\ P \subseteq S /\ \A f \in P : g[f] \cap S \subseteq P
<1>1. \A f \in S : \E P \in WeaklyConnectedComponents(g, S) : f \in P
  BY ComponentIsJoined DEF WeaklyConnectedComponents
<1>2. ASSUME NEW P \in WeaklyConnectedComponents(g, S)
      PROVE  P # {} /\ P \subseteq S /\ \A f \in P : g[f] \cap S \subseteq P
  <2>1. PICK p \in S : P = Component(g, S, p)
    BY <1>2 DEF WeaklyConnectedComponents
  <2> QED BY <2>1, ComponentIsJoined DEF Joined
<1> QED BY <1>1, <1>2

\* A fetch that is no root is reached from one.
LEMMA ReachedFromRoot ==
    ASSUME NEW g, Acyclic(g), NEW S \in SUBSET DOMAIN g, NEW d \in S \ ReadyRoots(g, S)
    PROVE  DependsOn([e \in S |-> g[e] \cap S], d) \cap ReadyRoots(g, S) # {}
<1> DEFINE w == [e \in S |-> g[e] \cap S]
           T == {x \in S : x \in DependsOn(w, d)}
<1>1. g[d] \cap S \subseteq T /\ g[d] \cap S # {}
  <2>1. w[d] \subseteq DependsOn(w, d) /\ w[d] = g[d] \cap S
    BY DependsOnLeast
  <2> QED BY <2>1 DEF ReadyRoots
<1>2. \A x \in T : g[x] \cap S \subseteq T
  <2>1. Closed(w, DependsOn(w, d))
    BY DependsOnLeast
  <2> QED BY <2>1 DEF Closed
<1>3. T \in SUBSET DOMAIN g /\ T # {}
  BY <1>1
<1>4. PICK m \in T : g[m] \cap T = {}
  BY <1>3 DEF Acyclic
<1>5. g[m] \cap S = {}
  BY <1>2, <1>4
<1> QED BY <1>4, <1>5 DEF ReadyRoots

\* What a root inlines depends on nothing else than the root and what it inlines.
LEMMA ExclusiveIsClosed ==
    ASSUME NEW g, Acyclic(g), NEW S \in SUBSET DOMAIN g, NEW r \in ReadyRoots(g, S),
           NEW f \in Exclusive(g, S, r), NEW d \in g[f] \cap S
    PROVE  d = r \/ d \in Exclusive(g, S, r)
<1> DEFINE w == [e \in S |-> g[e] \cap S]
<1>1. DependsOn(w, f) \cap ReadyRoots(g, S) = {r} /\ f \in S /\ f \in DOMAIN w /\ DOMAIN w = S
  BY DEF Exclusive
<1>2. d \in w[f] /\ d \in DependsOn(w, f)
  BY <1>1, DependsOnLeast
<1>3. CASE d \in ReadyRoots(g, S)
  BY <1>1, <1>2, <1>3
<1>4. CASE d \notin ReadyRoots(g, S)
  <2>1. DependsOn(w, d) \subseteq DependsOn(w, f)
    BY <1>1, <1>2, DependsOnTransitive
  <2>2. DependsOn(w, d) \cap ReadyRoots(g, S) # {}
    BY <1>4, ReachedFromRoot
  <2>3. DependsOn(w, d) \cap ReadyRoots(g, S) = {r}
    BY <1>1, <2>1, <2>2
  <2> QED BY <1>4, <2>3 DEF Exclusive
<1> QED BY <1>3, <1>4

\* Calls that do the work of c among them: each for a part of its fetches at a place
\* of its own below that of c, and behind those for what its fetches depend on.
\* Without inlining roots come before the others, and nothing else before anything.
Splits(g, c, K) ==
    /\ \A d \in K : /\ d.set # {} /\ d.set \subseteq c.set /\ d.inline = c.inline
                    /\ \E way \in Paths : d.path = c.path \o way
    /\ \A f \in c.set : \E d \in K : f \in d.set
    /\ \A d, e \in K : d # e => d.set \cap e.set = {} /\ Parted(d.path, e.path)
    /\ \A d \in K : \A f \in d.set : \A x \in g[f] \cap c.set :
         x \in d.set \/ \E e \in K : x \in e.set /\ Precedes(e.path, d.path)
    /\ ~c.inline => \A d, e \in K : Precedes(e.path, d.path) =>
         /\ e.set \subseteq ReadyRoots(g, c.set)
         /\ d.set \cap ReadyRoots(g, c.set) = {}

\* A call, for more than nothing, of fetches of the graph.
IsCall(g, c) ==
    /\ c.set # {} /\ c.set \subseteq DOMAIN g /\ c.path \in Paths
    /\ c.inline \in BOOLEAN

\* The calls made in place of c: a call for one fetch is done.
InPlaceOf(g, c) == IF IsSingle(c) THEN {c} ELSE {d \in Subcalls(g, c) : d.set # {}}

\* The steps to a part, to a root or what it inlines, and to the rest.
ToPart(P) == << <<"parallel", First(P)>> >>
ToBranch(r, i) == << <<"sequence", 1>>, <<"parallel", r>>, <<"sequence", i>> >>
ToRest == << <<"sequence", 2>> >>

\* Where the steps part, and which come first.
LEMMA StepsPart ==
    ASSUME NEW P, NEW Q, First(P) \in Nat, First(Q) \in Nat,
           NEW r \in Nat, NEW s \in Nat, NEW i \in 1..2, NEW j \in 1..2
    PROVE  /\ ToPart(P) \in Paths /\ ToBranch(r, i) \in Paths /\ ToRest \in Paths
           /\ First(P) # First(Q) => Parted(ToPart(P), ToPart(Q))
           /\ ~Precedes(ToPart(P), ToPart(Q))
           /\ r # s \/ i # j => Parted(ToBranch(r, i), ToBranch(s, j))
           /\ Parted(ToBranch(r, i), ToRest) /\ Parted(ToRest, ToBranch(r, i))
           /\ Precedes(ToBranch(r, i), ToRest) /\ ~Precedes(ToRest, ToBranch(r, i))
           /\ Precedes(ToBranch(r, i), ToBranch(s, j)) <=> r = s /\ i < j
<1> DEFINE p == ToPart(P)
           q == ToPart(Q)
           u == ToBranch(r, i)
           v == ToBranch(s, j)
           w == ToRest
<1>1. /\ p \in Paths /\ u \in Paths /\ w \in Paths
  BY DEF Paths, ToPart, ToBranch, ToRest
<1>2. /\ DOMAIN p = {1} /\ DOMAIN q = {1} /\ DOMAIN w = {1}
      /\ DOMAIN u = {1, 2, 3} /\ DOMAIN v = {1, 2, 3}
      /\ p[1] = <<"parallel", First(P)>> /\ q[1] = <<"parallel", First(Q)>>
      /\ w[1] = <<"sequence", 2>>
      /\ u[1] = <<"sequence", 1>> /\ u[2] = <<"parallel", r>> /\ u[3] = <<"sequence", i>>
      /\ v[1] = <<"sequence", 1>> /\ v[2] = <<"parallel", s>> /\ v[3] = <<"sequence", j>>
  BY DEF ToPart, ToBranch, ToRest
<1>3. /\ p[1][1] = "parallel" /\ p[1][2] = First(P) /\ q[1][1] = "parallel" /\ q[1][2] = First(Q)
      /\ w[1][1] = "sequence" /\ w[1][2] = 2
      /\ u[1][1] = "sequence" /\ u[1][2] = 1 /\ u[2][1] = "parallel" /\ u[2][2] = r
      /\ u[3][1] = "sequence" /\ u[3][2] = i
      /\ v[1][1] = "sequence" /\ v[1][2] = 1 /\ v[2][1] = "parallel" /\ v[2][2] = s
      /\ v[3][1] = "sequence" /\ v[3][2] = j
  BY <1>2
<1> HIDE DEF p, q, u, v, w
<1>4. 1..(1 - 1) = {} /\ 1..(2 - 1) = {1} /\ 1..(3 - 1) = {1, 2}
  OBVIOUS
<1>5. First(P) # First(Q) => Parted(p, q)
  BY <1>2, <1>3 DEF Parted
<1>6. ~Precedes(p, q)
  BY <1>2, <1>3 DEF Precedes
<1>7. r # s \/ i # j => Parted(u, v)
  BY <1>2, <1>3 DEF Parted
<1>8. Parted(u, w) /\ Parted(w, u)
  BY <1>2, <1>3 DEF Parted
<1>9. Precedes(u, w)
  BY <1>2, <1>3, <1>4 DEF Precedes
<1>10. ~Precedes(w, u)
  BY <1>2, <1>3 DEF Precedes
<1>11. ASSUME r = s, i < j PROVE Precedes(u, v)
  <2>1. u[1] = v[1] /\ u[2] = v[2]
    BY <1>2, <1>11
  <2> QED BY <1>2, <1>3, <1>4, <1>11, <2>1 DEF Precedes
<1>12. ASSUME Precedes(u, v) PROVE r = s /\ i < j
  <2>1. PICK k \in {1, 2, 3} : /\ \A l \in 1..(k - 1) : u[l] = v[l]
                               /\ u[k][1] = "sequence" /\ v[k][1] = "sequence" /\ u[k][2] < v[k][2]
    BY <1>2, <1>12 DEF Precedes
  <2>2. k = 3
    BY <1>3, <2>1
  <2>3. u[2] = v[2]
    BY <1>4, <2>1, <2>2
  <2> QED BY <1>3, <2>1, <2>2, <2>3
<1> QED BY <1>1, <1>5, <1>6, <1>7, <1>8, <1>9, <1>10, <1>11, <1>12 DEF p, q, u, v, w

\* The calls for components, which have nothing to do with each other.
LEMMA PartsSplit ==
    ASSUME NEW g, NEW c, IsCall(g, c), DOMAIN g \subseteq Nat,
           WeaklyConnectedComponents(g, c.set) # {c.set}
    PROVE  Splits(g, c, {d \in Subcalls(g, c) : d.set # {}})
<1> DEFINE parts == WeaklyConnectedComponents(g, c.set)
           of(P) == Call(P, c.path \o ToPart(P), c.inline)
           K == {d \in Subcalls(g, c) : d.set # {}}
<1>1. c.set \subseteq Nat /\ c.path \in Paths
  BY DEF IsCall
<1>2. /\ \A f \in c.set : \E P \in parts : f \in P
      /\ \A P \in parts : P # {} /\ P \subseteq c.set /\ \A f \in P : g[f] \cap c.set \subseteq P
      /\ \A P, Q \in parts : P # Q => P \cap Q = {}
  BY ComponentsCover, ComponentsAreApart
<1>3. \A P \in parts : First(P) \in P /\ First(P) \in Nat
  BY <1>1, <1>2, FirstIsLeast
<1>4. Subcalls(g, c) = {of(P) : P \in parts}
  BY DEF Subcalls, ToPart
<1>5. \A P : of(P).set = P /\ of(P).path = c.path \o ToPart(P) /\ of(P).inline = c.inline
  BY DEF Call
<1>6. /\ \A d \in K : \E P \in parts : /\ d = of(P) /\ d.set = P
                                       /\ d.path = c.path \o ToPart(P) /\ d.inline = c.inline
      /\ \A P \in parts : of(P) \in K /\ of(P).set = P
  <2>1. K = {d \in {of(P) : P \in parts} : d.set # {}}
    BY <1>4
  <2> HIDE DEF K, parts, of
  <2>2. ASSUME NEW d \in K
        PROVE  \E P \in parts : /\ d = of(P) /\ d.set = P
                               /\ d.path = c.path \o ToPart(P) /\ d.inline = c.inline
    <3>1. PICK P \in parts : d = of(P)
      BY <2>1
    <3> QED BY <1>5, <3>1
  <2>3. \A P \in parts : of(P) \in K /\ of(P).set = P
    BY <1>2, <1>5, <2>1
  <2> QED BY <2>2, <2>3
<1> HIDE DEF K, parts, of
<1>7. ASSUME NEW P \in parts, NEW Q \in parts
      PROVE  /\ ToPart(P) \in Paths
             /\ P # Q => Parted(c.path \o ToPart(P), c.path \o ToPart(Q))
             /\ ~Precedes(c.path \o ToPart(P), c.path \o ToPart(Q))
  <2>1. First(P) \in Nat /\ First(Q) \in Nat
    BY <1>3
  <2>2. P # Q => First(P) # First(Q)
    BY <1>2, <1>3
  <2>3. /\ ToPart(P) \in Paths /\ ToPart(Q) \in Paths
        /\ First(P) # First(Q) => Parted(ToPart(P), ToPart(Q))
        /\ ~Precedes(ToPart(P), ToPart(Q))
    <3>1. 1 \in 1..2 /\ 1 \in Nat
      OBVIOUS
    <3> QED BY <2>1, <3>1, StepsPart
  <2> QED BY <1>1, <2>2, <2>3, LeadOff
<1>8. \A d \in K : /\ d.set # {} /\ d.set \subseteq c.set /\ d.inline = c.inline
                   /\ \E way \in Paths : d.path = c.path \o way
  <2> SUFFICES ASSUME NEW d \in K
               PROVE  /\ d.set # {} /\ d.set \subseteq c.set /\ d.inline = c.inline
                      /\ \E way \in Paths : d.path = c.path \o way
    OBVIOUS
  <2>1. PICK P \in parts : d.set = P /\ d.path = c.path \o ToPart(P) /\ d.inline = c.inline
    BY <1>6
  <2>2. P # {} /\ P \subseteq c.set /\ ToPart(P) \in Paths
    BY <1>2, <1>7
  <2> QED BY <2>1, <2>2
<1>9. \A f \in c.set : \E d \in K : f \in d.set
  BY <1>2, <1>6
<1>10. \A d, e \in K : d # e => d.set \cap e.set = {} /\ Parted(d.path, e.path)
  <2> SUFFICES ASSUME NEW d \in K, NEW e \in K, d # e
               PROVE  d.set \cap e.set = {} /\ Parted(d.path, e.path)
    OBVIOUS
  <2>1. PICK P \in parts : d = of(P) /\ d.set = P /\ d.path = c.path \o ToPart(P)
    BY <1>6
  <2>2. PICK Q \in parts : e = of(Q) /\ e.set = Q /\ e.path = c.path \o ToPart(Q)
    BY <1>6
  <2>3. P # Q
    BY <2>1, <2>2
  <2> QED BY <1>2, <1>7, <2>1, <2>2, <2>3
<1>11. \A d \in K : \A f \in d.set : \A x \in g[f] \cap c.set : x \in d.set
  BY <1>2, <1>6
<1>12. \A d, e \in K : ~Precedes(e.path, d.path)
  BY <1>6, <1>7
<1> QED BY <1>8, <1>9, <1>10, <1>11, <1>12 DEF Splits, K

\* The calls for the roots, for what they inline and for the rest.
LEMMA RootsSplit ==
    ASSUME NEW g, Acyclic(g), NEW c, IsCall(g, c), DOMAIN g \subseteq Nat,
           WeaklyConnectedComponents(g, c.set) = {c.set}
    PROVE  Splits(g, c, {d \in Subcalls(g, c) : d.set # {}})
<1> DEFINE roots  == ReadyRoots(g, c.set)
           own(r) == IF c.inline THEN Exclusive(g, c.set, r) ELSE {}
           rest   == c.set \ (roots \cup UNION {own(r) : r \in roots})
           branch(r, i) == c.path \o ToBranch(r, i)
           behind == c.path \o ToRest
           K == {d \in Subcalls(g, c) : d.set # {}}
           IsRoot(d, r) == d = Call({r}, branch(r, 1), c.inline)
           IsOwn(d, r)  == d = Call(own(r), branch(r, 2), c.inline)
           IsRest(d)    == d = Call(rest, behind, c.inline)
<1>1. c.set \subseteq Nat /\ c.path \in Paths /\ c.set \in SUBSET DOMAIN g
  BY DEF IsCall
<1>2. Subcalls(g, c) = {Call({r}, branch(r, 1), c.inline) : r \in roots}
                         \cup {Call(own(r), branch(r, 2), c.inline) : r \in roots}
                         \cup {Call(rest, behind, c.inline)}
  BY DEF Subcalls, ToBranch, ToRest
<1>3. /\ roots \subseteq c.set /\ rest \subseteq c.set /\ rest \cap roots = {}
      /\ \A r \in roots : own(r) \subseteq c.set /\ own(r) \cap roots = {} /\ own(r) \cap rest = {}
      /\ \A r, s \in roots : r # s => own(r) \cap own(s) = {}
      /\ \A r \in roots : r \in Nat
      /\ \A f \in c.set : f \in roots \/ f \in rest \/ \E r \in roots : f \in own(r)
      /\ ~c.inline => \A r \in roots : own(r) = {}
  <2>1. roots \subseteq c.set /\ \A r \in roots : r \in Nat
    BY <1>1 DEF ReadyRoots
  <2>2. ASSUME NEW r \in roots
        PROVE  Exclusive(g, c.set, r) \subseteq c.set /\ Exclusive(g, c.set, r) \cap roots = {}
    BY DEF Exclusive
  <2>3. ASSUME NEW r \in roots, NEW s \in roots, r # s
        PROVE  Exclusive(g, c.set, r) \cap Exclusive(g, c.set, s) = {}
    <3> SUFFICES ASSUME NEW f \in Exclusive(g, c.set, r), f \in Exclusive(g, c.set, s) PROVE FALSE
      OBVIOUS
    <3>1. {r} = {s}
      BY DEF Exclusive
    <3> QED BY <2>3, <3>1
  <2>4. \A r \in roots : own(r) \subseteq c.set /\ own(r) \cap roots = {}
    BY <2>2
  <2>5. \A r, s \in roots : r # s => own(r) \cap own(s) = {}
    BY <2>3
  <2>6. ~c.inline => \A r \in roots : own(r) = {}
    OBVIOUS
  <2> HIDE DEF roots, own
  <2> QED BY <2>1, <2>4, <2>5, <2>6
<1>4. \A r \in roots : g[r] \cap c.set = {}
  BY DEF ReadyRoots
<1>5. \A r \in roots : \A f \in own(r) : \A x \in g[f] \cap c.set : x = r \/ x \in own(r)
  BY <1>1, ExclusiveIsClosed
<1>6. ASSUME NEW d
      PROVE  /\ \A r \in roots : IsRoot(d, r) => d.set = {r} /\ d.path = branch(r, 1)
             /\ \A r \in roots : IsOwn(d, r) => d.set = own(r) /\ d.path = branch(r, 2)
             /\ IsRest(d) => d.set = rest /\ d.path = behind
  <2>1. ASSUME NEW S, NEW way
        PROVE  Call(S, way, c.inline).set = S /\ Call(S, way, c.inline).path = way
    BY DEF Call
  <2> HIDE DEF roots, own, rest, branch, behind
  <2> QED BY <2>1
<1>7. ASSUME NEW d, NEW e
      PROVE  /\ \A r \in roots : IsRoot(d, r) /\ IsRoot(e, r) => d = e
             /\ \A r \in roots : IsOwn(d, r) /\ IsOwn(e, r) => d = e
             /\ IsRest(d) /\ IsRest(e) => d = e
  OBVIOUS
<1>8. \A d \in K : \/ \E r \in roots : IsRoot(d, r) \/ IsOwn(d, r)
                   \/ IsRest(d)
  BY <1>2
<1>9. /\ \A r \in roots : \E d \in K : IsRoot(d, r)
      /\ \A r \in roots : own(r) # {} => \E d \in K : IsOwn(d, r)
      /\ rest # {} => \E d \in K : IsRest(d)
  <2>1. \A r \in roots : /\ Call({r}, branch(r, 1), c.inline) \in Subcalls(g, c)
                         /\ Call(own(r), branch(r, 2), c.inline) \in Subcalls(g, c)
    BY <1>2
  <2>2. Call(rest, behind, c.inline) \in Subcalls(g, c)
    BY <1>2
  <2>3. \A S, way : Call(S, way, c.inline).set = S
    BY DEF Call
  <2>4. \A r \in roots : {r} # {}
    OBVIOUS
  <2> HIDE DEF roots, own, rest, branch, behind
  <2> QED BY <2>1, <2>2, <2>3, <2>4
<1>10. /\ behind \in Paths /\ \E way \in Paths : behind = c.path \o way
       /\ \A r \in roots : \A i \in 1..2 : \E way \in Paths : branch(r, i) = c.path \o way
  <2>1. ToRest \in Paths /\ ToRest \in Paths
    BY DEF Paths, ToRest
  <2>2. \A r \in roots : \A i \in 1..2 : ToBranch(r, i) \in Paths
    BY <1>3 DEF Paths, ToBranch
  <2> QED BY <1>1, <2>1, <2>2, ConcatAt
<1>11. ASSUME NEW r \in roots, NEW s \in roots, NEW i \in 1..2, NEW j \in 1..2
       PROVE  /\ r # s \/ i # j => Parted(branch(r, i), branch(s, j))
              /\ Parted(branch(r, i), behind) /\ Parted(behind, branch(r, i))
              /\ Precedes(branch(r, i), behind) /\ ~Precedes(behind, branch(r, i))
              /\ Precedes(branch(r, i), branch(s, j)) <=> r = s /\ i < j
  <2>1. /\ ToBranch(r, i) \in Paths /\ ToBranch(s, j) \in Paths /\ ToRest \in Paths
        /\ r # s \/ i # j => Parted(ToBranch(r, i), ToBranch(s, j))
        /\ Parted(ToBranch(r, i), ToRest) /\ Parted(ToRest, ToBranch(r, i))
        /\ Precedes(ToBranch(r, i), ToRest) /\ ~Precedes(ToRest, ToBranch(r, i))
        /\ Precedes(ToBranch(r, i), ToBranch(s, j)) <=> r = s /\ i < j
    <3>1. r \in Nat /\ s \in Nat /\ First({r}) \in Nat /\ First({s}) \in Nat
      BY <1>3, FirstIsLeast
    <3>2. ToBranch(s, j) \in Paths
      BY <3>1, StepsPart
    <3> QED BY <3>1, <3>2, StepsPart
  <2> HIDE DEF roots
  <2> QED BY <1>1, <2>1, LeadOff
<1>12. \A r, s \in roots :
          /\ r # s => Parted(branch(r, 1), branch(s, 1)) /\ Parted(branch(r, 2), branch(s, 2))
          /\ Parted(branch(r, 1), branch(s, 2)) /\ Parted(branch(r, 2), branch(s, 1))
          /\ Parted(branch(r, 1), behind) /\ Parted(behind, branch(r, 1))
          /\ Parted(branch(r, 2), behind) /\ Parted(behind, branch(r, 2))
          /\ Precedes(branch(r, 1), branch(r, 2)) /\ ~Precedes(branch(r, 1), branch(s, 1))
          /\ Precedes(branch(r, 1), behind) /\ Precedes(branch(r, 2), behind)
          /\ ~Precedes(behind, branch(r, 1)) /\ ~Precedes(behind, branch(r, 2))
  <2>1. 1 \in 1..2 /\ 2 \in 1..2 /\ 1 # 2 /\ ~(1 < 1) /\ 1 < 2
    OBVIOUS
  <2> HIDE DEF roots, branch, behind
  <2> QED BY <1>11, <2>1
<1>13. ~Precedes(behind, behind)
  BY <1>10, PrecedesIsOrder
<1>14. \A d \in K : d.set # {} /\ d.inline = c.inline
  BY <1>2 DEF Call
<1> HIDE DEF roots, own, rest, branch, behind, K, IsRoot, IsOwn, IsRest
<1>15. \A d \in K : /\ d.set # {} /\ d.set \subseteq c.set /\ d.inline = c.inline
                    /\ \E way \in Paths : d.path = c.path \o way
  <2> SUFFICES ASSUME NEW d \in K
               PROVE  d.set \subseteq c.set /\ \E way \in Paths : d.path = c.path \o way
    BY <1>14
  <2>1. CASE \E r \in roots : IsRoot(d, r)
    <3>1. PICK r \in roots : IsRoot(d, r)
      BY <2>1
    <3>2. 1 \in 1..2 /\ d.set = {r} /\ d.path = branch(r, 1)
      BY <1>6, <3>1
    <3>3. d.set \subseteq c.set
      BY <1>3, <3>2
    <3>4. \E way \in Paths : d.path = c.path \o way
      BY <1>10, <3>2
    <3> QED BY <3>3, <3>4
  <2>2. CASE \E r \in roots : IsOwn(d, r)
    <3>1. PICK r \in roots : IsOwn(d, r)
      BY <2>2
    <3>2. 2 \in 1..2 /\ d.set = own(r) /\ d.path = branch(r, 2)
      BY <1>6, <3>1
    <3>3. d.set \subseteq c.set
      BY <1>3, <3>2
    <3>4. \E way \in Paths : d.path = c.path \o way
      BY <1>10, <3>2
    <3> QED BY <3>3, <3>4
  <2>3. CASE IsRest(d)
    BY <1>3, <1>6, <1>10, <2>3
  <2> QED BY <1>8, <2>1, <2>2, <2>3
<1>16. \A f \in c.set : \E d \in K : f \in d.set
  <2> SUFFICES ASSUME NEW f \in c.set PROVE \E d \in K : f \in d.set
    OBVIOUS
  <2>1. CASE f \in roots
    BY <1>6, <1>9, <2>1
  <2>2. CASE f \in rest
    BY <1>6, <1>9, <2>2
  <2>3. CASE \E r \in roots : f \in own(r)
    BY <1>6, <1>9, <2>3
  <2> QED BY <1>3, <2>1, <2>2, <2>3
<1>17. \A d, e \in K : d # e => d.set \cap e.set = {} /\ Parted(d.path, e.path)
  <2> SUFFICES ASSUME NEW d \in K, NEW e \in K, d # e
               PROVE  d.set \cap e.set = {} /\ Parted(d.path, e.path)
    OBVIOUS
  <2>1. CASE IsRest(d) /\ ~IsRest(e)
    BY <1>3, <1>6, <1>8, <1>12, <2>1
  <2>2. CASE ~IsRest(d) /\ IsRest(e)
    BY <1>3, <1>6, <1>8, <1>12, <2>2
  <2>3. CASE ~IsRest(d) /\ ~IsRest(e)
    <3>1. PICK r \in roots : IsRoot(d, r) \/ IsOwn(d, r)
      BY <1>8, <2>3
    <3>2. PICK s \in roots : IsRoot(e, s) \/ IsOwn(e, s)
      BY <1>8, <2>3
    <3>3. CASE IsRoot(d, r) /\ IsRoot(e, s)
      <4>1. r # s /\ d.set = {r} /\ e.set = {s}
        BY <1>6, <1>7, <3>3
      <4> QED BY <1>6, <1>12, <3>3, <4>1
    <3>4. CASE IsRoot(d, r) /\ IsOwn(e, s)
      BY <1>3, <1>6, <1>12, <3>4
    <3>5. CASE IsOwn(d, r) /\ IsRoot(e, s)
      BY <1>3, <1>6, <1>12, <3>5
    <3>6. CASE IsOwn(d, r) /\ IsOwn(e, s)
      <4>1. r # s
        BY <1>7, <3>6
      <4> QED BY <1>3, <1>6, <1>12, <3>6, <4>1
    <3> QED BY <3>1, <3>2, <3>3, <3>4, <3>5, <3>6
  <2> QED BY <1>7, <2>1, <2>2, <2>3
<1>18. \A d \in K : \A f \in d.set : \A x \in g[f] \cap c.set :
          x \in d.set \/ \E e \in K : x \in e.set /\ Precedes(e.path, d.path)
  <2> SUFFICES ASSUME NEW d \in K, NEW f \in d.set, NEW x \in g[f] \cap c.set, x \notin d.set
               PROVE  \E e \in K : x \in e.set /\ Precedes(e.path, d.path)
    OBVIOUS
  <2>1. CASE \E r \in roots : IsRoot(d, r)
    BY <1>4, <1>6, <2>1
  <2>2. CASE \E r \in roots : IsOwn(d, r)
    <3>1. PICK r \in roots : IsOwn(d, r)
      BY <2>2
    <3>2. x = r
      BY <1>5, <1>6, <3>1
    <3>3. PICK e \in K : IsRoot(e, r)
      BY <1>9
    <3> QED BY <1>6, <1>12, <3>1, <3>2, <3>3
  <2>3. CASE IsRest(d)
    <3>1. CASE x \in roots
      <4>1. PICK e \in K : IsRoot(e, x)
        BY <1>9, <3>1
      <4> QED BY <1>6, <1>12, <2>3, <3>1, <4>1
    <3>2. CASE \E r \in roots : x \in own(r)
      <4>1. PICK r \in roots : x \in own(r)
        BY <3>2
      <4>2. PICK e \in K : IsOwn(e, r)
        BY <1>9, <4>1
      <4> QED BY <1>6, <1>12, <2>3, <4>1, <4>2
    <3> QED BY <1>3, <1>6, <2>3, <3>1, <3>2
  <2> QED BY <1>8, <2>1, <2>2, <2>3
<1>19. ASSUME ~c.inline, NEW d \in K, NEW e \in K, Precedes(e.path, d.path)
       PROVE  e.set \subseteq roots /\ d.set \cap roots = {}
  <2>1. \A k \in K : (\E r \in roots : IsRoot(k, r)) \/ IsRest(k)
    <3>1. \A k \in K : \A r \in roots : ~IsOwn(k, r)
      BY <1>3, <1>6, <1>14, <1>19
    <3> QED BY <1>8, <3>1
  <2>2. ~IsRest(e)
    BY <1>6, <1>12, <1>13, <1>19, <2>1
  <2>3. PICK r \in roots : IsRoot(e, r)
    BY <2>1, <2>2
  <2>4. IsRest(d)
    BY <1>6, <1>12, <1>19, <2>1, <2>3
  <2> QED BY <1>3, <1>6, <2>3, <2>4
<1> QED BY <1>15, <1>16, <1>17, <1>18, <1>19 DEF Splits, K, roots

\* Whatever calls are made in place of a call, they do its work.
LEMMA InPlaceSplits ==
    ASSUME NEW g, Acyclic(g), DOMAIN g \subseteq Nat, NEW c, IsCall(g, c)
    PROVE  Splits(g, c, InPlaceOf(g, c))
<1>1. CASE IsSingle(c)
  <2>1. c.path \in Paths /\ << >> \in Paths /\ c.path = c.path \o << >>
    BY DEF IsCall, Paths
  <2>2. ~Precedes(c.path, c.path)
    BY <2>1, PrecedesIsOrder
  <2> QED BY <1>1, <2>1, <2>2 DEF Splits, InPlaceOf, IsCall
<1>2. CASE ~IsSingle(c)
  BY <1>2, PartsSplit, RootsSplit DEF InPlaceOf
<1> QED BY <1>1, <1>2

\* The calls I stand for a tree that is to be built of all fetches: each fetch is in
\* one, what it depends on is in the same or put before it, and calls for fetches of
\* different components meet at the root.
SplitsUp(g, I) ==
    /\ \A x \in I : /\ IsCall(g, x) /\ 1 \in DOMAIN x.path
                    /\ \E C \in WeaklyConnectedComponents(g, DOMAIN g) :
                         x.set \subseteq C /\ x.path[1] = <<"parallel", First(C)>>
    /\ \A f \in DOMAIN g : \E x \in I : f \in x.set
    /\ \A x, y \in I : x # y => x.set \cap y.set = {} /\ Parted(x.path, y.path)
    /\ \A x \in I : \A f \in x.set : \A d \in Parents(g, f) :
         d \in x.set \/ \E y \in I : d \in y.set /\ Precedes(y.path, x.path)

\* Those calls, after each was done or made others.
Onward(g, I) == UNION {InPlaceOf(g, x) : x \in I}

\* What is made of a call is for some of its fetches, and below it.
LEMMA InPlaceIsBelow ==
    ASSUME NEW g, Acyclic(g), DOMAIN g \subseteq Nat, NEW c, IsCall(g, c),
           NEW d \in InPlaceOf(g, c)
    PROVE  /\ d.set # {} /\ d.set \subseteq c.set /\ d.inline = c.inline
           /\ \E way \in Paths : d.path = c.path \o way
<1>1. Splits(g, c, InPlaceOf(g, c))
  BY InPlaceSplits
<1> QED BY <1>1 DEF Splits

\* The paths of what is made of two calls part like those of the calls.
LEMMA OnwardParts ==
    ASSUME NEW g, Acyclic(g), DOMAIN g \subseteq Nat, NEW I, SplitsUp(g, I),
           NEW x \in I, NEW y \in I, x # y,
           NEW d \in InPlaceOf(g, x), NEW e \in InPlaceOf(g, y)
    PROVE  /\ d.set \cap e.set = {} /\ Parted(d.path, e.path)
           /\ Precedes(d.path, e.path) <=> Precedes(x.path, y.path)
<1>1. /\ x.set \cap y.set = {} /\ Parted(x.path, y.path)
      /\ IsCall(g, x) /\ IsCall(g, y)
  BY DEF SplitsUp
<1>2. PICK u \in Paths : d.path = x.path \o u
  BY <1>1, InPlaceIsBelow
<1>3. PICK v \in Paths : e.path = y.path \o v
  BY <1>1, InPlaceIsBelow
<1>4. x.path \in Paths /\ y.path \in Paths /\ d.set \subseteq x.set /\ e.set \subseteq y.set
  BY <1>1, InPlaceIsBelow DEF IsCall
<1> QED BY <1>1, <1>2, <1>3, <1>4, LeadOn

\* So a tree can still be built of them.
LEMMA OnwardSplitsUp ==
    ASSUME NEW g, Acyclic(g), DOMAIN g \subseteq Nat, NEW I, SplitsUp(g, I)
    PROVE  SplitsUp(g, Onward(g, I))
<1>0. \A x \in I : IsCall(g, x) /\ x.set \subseteq DOMAIN g
  BY DEF SplitsUp, IsCall
<1>1. /\ \A d \in Onward(g, I) : \E x \in I : d \in InPlaceOf(g, x)
      /\ \A x \in I : InPlaceOf(g, x) \subseteq Onward(g, I)
      /\ \A x \in I : Splits(g, x, InPlaceOf(g, x))
      /\ \A x \in I : \A d \in InPlaceOf(g, x) :
           d.set # {} /\ d.set \subseteq x.set /\ d.inline = x.inline
  BY <1>0, InPlaceSplits, InPlaceIsBelow DEF Onward
<1>2. ASSUME NEW d \in Onward(g, I)
      PROVE  /\ IsCall(g, d) /\ 1 \in DOMAIN d.path
             /\ \E C \in WeaklyConnectedComponents(g, DOMAIN g) :
                  d.set \subseteq C /\ d.path[1] = <<"parallel", First(C)>>
  <2>1. PICK x \in I : d \in InPlaceOf(g, x)
    BY <1>1
  <2>2. PICK way \in Paths : d.path = x.path \o way
    BY <1>0, <2>1, InPlaceIsBelow
  <2>3. PICK C \in WeaklyConnectedComponents(g, DOMAIN g) :
          x.set \subseteq C /\ x.path[1] = <<"parallel", First(C)>>
    BY DEF SplitsUp
  <2>4. x.path \in Paths /\ 1 \in DOMAIN x.path /\ x.inline \in BOOLEAN
    BY DEF SplitsUp, IsCall
  <2>5. d.path \in Paths /\ 1 \in DOMAIN d.path /\ d.path[1] = x.path[1]
    <3>1. /\ x.path \o way \in Paths /\ Len(x.path) \in Nat /\ Len(way) \in Nat
          /\ DOMAIN x.path = 1..Len(x.path)
          /\ DOMAIN (x.path \o way) = 1..(Len(x.path) + Len(way))
          /\ \A k \in 1..Len(x.path) : (x.path \o way)[k] = x.path[k]
      BY <2>4, ConcatAt
    <3>2. 1 \in 1..Len(x.path) /\ 1 \in 1..(Len(x.path) + Len(way))
      BY <2>4, <3>1
    <3> QED BY <2>2, <3>1, <3>2
  <2>6. d.set # {} /\ d.set \subseteq x.set /\ d.inline = x.inline /\ x.set \subseteq DOMAIN g
    BY <1>0, <1>1, <2>1
  <2>7. d.set \subseteq C
    BY <2>3, <2>6
  <2>8. IsCall(g, d)
    BY <2>4, <2>5, <2>6 DEF IsCall
  <2>9. d.path[1] = <<"parallel", First(C)>>
    BY <2>3, <2>5
  <2> QED BY <2>5, <2>7, <2>8, <2>9
<1>3. ASSUME NEW f \in DOMAIN g PROVE \E d \in Onward(g, I) : f \in d.set
  <2>1. PICK x \in I : f \in x.set
    BY DEF SplitsUp
  <2>2. PICK d \in InPlaceOf(g, x) : f \in d.set
    BY <1>1, <2>1 DEF Splits
  <2> QED BY <1>1, <2>2
<1>4. ASSUME NEW d \in Onward(g, I), NEW e \in Onward(g, I), d # e
      PROVE  d.set \cap e.set = {} /\ Parted(d.path, e.path)
  <2>1. PICK x \in I : d \in InPlaceOf(g, x)
    BY <1>1
  <2>2. PICK y \in I : e \in InPlaceOf(g, y)
    BY <1>1
  <2>3. CASE x = y
    BY <1>1, <1>4, <2>1, <2>2, <2>3 DEF Splits
  <2>4. CASE x # y
    BY <2>1, <2>2, <2>4, OnwardParts
  <2> QED BY <2>3, <2>4
<1>5. ASSUME NEW d \in Onward(g, I), NEW f \in d.set, NEW p \in Parents(g, f), p \notin d.set
      PROVE  \E e \in Onward(g, I) : p \in e.set /\ Precedes(e.path, d.path)
  <2>1. PICK x \in I : d \in InPlaceOf(g, x)
    BY <1>1
  <2>2. f \in x.set /\ p \in g[f]
    BY <1>1, <2>1 DEF Parents
  <2>3. CASE p \in x.set
    <3>0. Splits(g, x, InPlaceOf(g, x)) /\ p \in g[f] \cap x.set
      BY <1>1, <2>2, <2>3
    <3>1. PICK e \in InPlaceOf(g, x) : p \in e.set /\ Precedes(e.path, d.path)
      BY <1>5, <2>1, <3>0 DEF Splits
    <3> QED BY <1>1, <3>1
  <2>4. CASE p \notin x.set
    <3>1. PICK y \in I : p \in y.set /\ Precedes(y.path, x.path)
      BY <1>5, <2>2, <2>4 DEF SplitsUp
    <3>2. PICK e \in InPlaceOf(g, y) : p \in e.set
      BY <1>1, <3>1 DEF Splits
    <3>3. x # y
      BY <2>4, <3>1
    <3>4. Precedes(e.path, d.path)
      BY <2>1, <3>1, <3>2, <3>3, OnwardParts
    <3> QED BY <1>1, <3>2, <3>4
  <2> QED BY <2>3, <2>4
<1> QED BY <1>2, <1>3, <1>4, <1>5 DEF SplitsUp

\* Some wave comes after all that is put before a call, and not after the fetches of
\* the call.
InWaves(ws, I) ==
    \A x \in I : \E n \in Nat \ {0} :
        /\ \A i \in DOMAIN ws : \A f \in x.set : f \in ws[i] => n <= i
        /\ \A y \in I : Precedes(y.path, x.path) =>
             \A i \in DOMAIN ws : \A f \in y.set : f \in ws[i] => i < n

\* Without inlining no call is put behind one of a wave that is not earlier: among
\* the fetches of a call the roots are all in one wave, and the others are later.
LEMMA OnwardInWaves ==
    ASSUME NEW g, Acyclic(g), DOMAIN g \subseteq Nat, Inside(g), NEW I, SplitsUp(g, I),
           NEW ws \in Seq(SUBSET DOMAIN g), Layered(g, ws), Covers(ws, g), Tight(g, ws),
           InWaves(ws, I), \A x \in I : ~x.inline
    PROVE  InWaves(ws, Onward(g, I))
<1>0. \A x \in I : IsCall(g, x) /\ x.set \subseteq DOMAIN g
  BY DEF SplitsUp, IsCall
<1>1. /\ \A d \in Onward(g, I) : \E x \in I : d \in InPlaceOf(g, x)
      /\ \A x \in I : x.set \subseteq DOMAIN g
      /\ \A x \in I : Splits(g, x, InPlaceOf(g, x))
      /\ \A x \in I : \A d \in InPlaceOf(g, x) : d.set \subseteq x.set
  BY <1>0, InPlaceSplits, InPlaceIsBelow DEF Onward
<1> SUFFICES ASSUME NEW d \in Onward(g, I)
             PROVE  \E n \in Nat \ {0} :
                 /\ \A i \in DOMAIN ws : \A f \in d.set : f \in ws[i] => n <= i
                 /\ \A e \in Onward(g, I) : Precedes(e.path, d.path) =>
                      \A i \in DOMAIN ws : \A f \in e.set : f \in ws[i] => i < n
  BY DEF InWaves
<1>2. PICK x \in I : d \in InPlaceOf(g, x)
  BY <1>1
<1>3. PICK n \in Nat \ {0} :
        /\ \A i \in DOMAIN ws : \A f \in x.set : f \in ws[i] => n <= i
        /\ \A y \in I : Precedes(y.path, x.path) =>
             \A i \in DOMAIN ws : \A f \in y.set : f \in ws[i] => i < n
  BY DEF InWaves
<1>4. ASSUME NEW y \in I, y # x, NEW e \in InPlaceOf(g, y), Precedes(e.path, d.path),
             NEW i \in DOMAIN ws, NEW f \in e.set, f \in ws[i]
      PROVE  i < n
  <2>1. Precedes(y.path, x.path)
    BY <1>2, <1>4, OnwardParts
  <2>2. f \in y.set
    BY <1>1, <1>4
  <2> QED BY <1>3, <1>4, <2>1, <2>2
<1>5. ASSUME NEW f \in ReadyRoots(g, x.set), NEW i \in DOMAIN ws, f \in ws[i]
      PROVE  i < n + 1
  <2>1. f \in x.set /\ i \in Nat /\ n \in Nat /\ n # 0
    BY <1>3 DEF ReadyRoots
  <2>2. ASSUME i > n PROVE FALSE
    <3>1. i > 1 /\ i - 1 \in DOMAIN ws /\ i - 1 >= n
      BY <1>5, <2>1, <2>2
    <3>2. PICK p \in Parents(g, f) : p \in ws[i - 1]
      BY <1>5, <3>1 DEF Tight
    <3>3. p \notin x.set
      BY <3>2 DEF ReadyRoots, Parents
    <3>4. PICK y \in I : p \in y.set /\ Precedes(y.path, x.path)
      BY <2>1, <3>2, <3>3 DEF SplitsUp
    <3>5. i - 1 < n
      BY <1>3, <3>1, <3>2, <3>4
    <3> QED BY <2>1, <3>1, <3>5
  <2> QED BY <2>1, <2>2
<1>6. ASSUME NEW f \in x.set, f \notin ReadyRoots(g, x.set), NEW i \in DOMAIN ws, f \in ws[i]
      PROVE  n + 1 <= i
  <2>1. PICK p \in g[f] : p \in x.set
    BY <1>6 DEF ReadyRoots
  <2>2. p \in Parents(g, f)
    BY <1>1, <2>1 DEF Parents
  <2>3. PICK j \in 1..(i - 1) : p \in ws[j]
    BY <1>6, <2>2 DEF Layered
  <2>4. j \in DOMAIN ws /\ j \in Nat /\ i \in Nat /\ j < i
    BY <2>3
  <2>5. n <= j
    BY <1>3, <2>1, <2>3, <2>4
  <2> QED BY <2>4, <2>5
<1>7. ~x.inline
  OBVIOUS
<1>8. CASE \E e \in InPlaceOf(g, x) : Precedes(e.path, d.path)
  <2>1. d.set \cap ReadyRoots(g, x.set) = {}
    BY <1>1, <1>2, <1>7, <1>8 DEF Splits
  <2>2. \A e \in InPlaceOf(g, x) : Precedes(e.path, d.path) => e.set \subseteq ReadyRoots(g, x.set)
    BY <1>1, <1>2, <1>7 DEF Splits
  <2>3. n + 1 \in Nat \ {0}
    BY <1>3
  <2>4. \A i \in DOMAIN ws : \A f \in d.set : f \in ws[i] => n + 1 <= i
    BY <1>1, <1>2, <1>6, <2>1
  <2>5. ASSUME NEW e \in Onward(g, I), Precedes(e.path, d.path),
               NEW i \in DOMAIN ws, NEW f \in e.set, f \in ws[i]
        PROVE  i < n + 1
    <3>1. PICK y \in I : e \in InPlaceOf(g, y)
      BY <1>1
    <3>2. CASE y = x
      BY <1>5, <2>2, <2>5, <3>1, <3>2
    <3>3. CASE y # x
      <4>1. i < n /\ i \in Nat
        BY <1>4, <2>5, <3>1, <3>3
      <4> QED BY <1>3, <4>1
    <3> QED BY <3>2, <3>3
  <2> QED BY <2>3, <2>4, <2>5
<1>9. CASE ~\E e \in InPlaceOf(g, x) : Precedes(e.path, d.path)
  <2>1. \A i \in DOMAIN ws : \A f \in d.set : f \in ws[i] => n <= i
    BY <1>1, <1>2, <1>3
  <2>2. ASSUME NEW e \in Onward(g, I), Precedes(e.path, d.path),
               NEW i \in DOMAIN ws, NEW f \in e.set, f \in ws[i]
        PROVE  i < n
    <3>1. PICK y \in I : e \in InPlaceOf(g, y)
      BY <1>1
    <3>2. y # x
      BY <1>9, <2>2, <3>1
    <3> QED BY <1>4, <2>2, <3>1, <3>2
  <2> QED BY <1>3, <2>1, <2>2
<1> QED BY <1>8, <1>9

\* A call with what it was made for.
LEMMA CallFields ==
    ASSUME NEW S, NEW path, NEW inline
    PROVE  /\ Call(S, path, inline).set = S /\ Call(S, path, inline).path = path
           /\ Call(S, path, inline).inline = inline
BY DEF Call

\* The first calls, one for each component.
LEMMA FirstCallsSplitUp ==
    ASSUME NEW g, DOMAIN g \subseteq Nat, NEW inline \in BOOLEAN,
           NEW ws \in Seq(SUBSET DOMAIN g),
           NEW I, I = {Call(C, ToPart(C), inline) : C \in WeaklyConnectedComponents(g, DOMAIN g)}
    PROVE  SplitsUp(g, I) /\ InWaves(ws, I)
<1> DEFINE parts == WeaklyConnectedComponents(g, DOMAIN g)
<1>1. /\ \A f \in DOMAIN g : \E P \in parts : f \in P
      /\ \A P \in parts : P # {} /\ P \subseteq DOMAIN g /\ \A f \in P : g[f] \cap DOMAIN g \subseteq P
      /\ \A P, Q \in parts : P # Q => P \cap Q = {}
  BY ComponentsCover, ComponentsAreApart
<1>2. \A P \in parts : First(P) \in P /\ First(P) \in Nat
  BY <1>1, FirstIsLeast
<1>3. /\ \A x \in I : \E P \in parts : x = Call(P, ToPart(P), inline)
      /\ \A P \in parts : Call(P, ToPart(P), inline) \in I
  OBVIOUS
<1> HIDE DEF parts
<1>4. \A x \in I : \E P \in parts : x.set = P /\ x.path = ToPart(P) /\ x.inline = inline
  BY <1>3, CallFields
<1>5. \A P \in parts : \E x \in I : x.set = P /\ x.path = ToPart(P)
  BY <1>3, CallFields
<1>6. ASSUME NEW P \in parts, NEW Q \in parts
      PROVE  /\ ToPart(P) \in Paths /\ 1 \in DOMAIN ToPart(P)
             /\ ToPart(P)[1] = <<"parallel", First(P)>>
             /\ P # Q => Parted(ToPart(P), ToPart(Q))
             /\ ~Precedes(ToPart(P), ToPart(Q))
  <2>1. First(P) \in Nat /\ First(Q) \in Nat /\ 1 \in 1..2 /\ 1 \in Nat
    BY <1>2
  <2>2. P # Q => First(P) # First(Q)
    BY <1>1, <1>2
  <2>3. 1 \in DOMAIN ToPart(P) /\ ToPart(P)[1] = <<"parallel", First(P)>>
    BY DEF ToPart
  <2> QED BY <2>1, <2>2, <2>3, StepsPart
<1>7. ASSUME NEW x \in I
      PROVE  /\ IsCall(g, x) /\ 1 \in DOMAIN x.path
             /\ \E C \in parts : x.set \subseteq C /\ x.path[1] = <<"parallel", First(C)>>
  <2>1. PICK P \in parts : x.set = P /\ x.path = ToPart(P) /\ x.inline = inline
    BY <1>4
  <2>2. IsCall(g, x)
    BY <1>1, <1>6, <2>1 DEF IsCall
  <2> QED BY <1>6, <2>1, <2>2
<1>8. \A f \in DOMAIN g : \E x \in I : f \in x.set
  BY <1>1, <1>5
<1>9. ASSUME NEW x \in I, NEW y \in I
      PROVE  /\ x # y => x.set \cap y.set = {} /\ Parted(x.path, y.path)
             /\ ~Precedes(x.path, y.path)
  <2>1. PICK P \in parts : x = Call(P, ToPart(P), inline)
    BY <1>3
  <2>2. PICK Q \in parts : y = Call(Q, ToPart(Q), inline)
    BY <1>3
  <2>3. x.set = P /\ y.set = Q /\ x.path = ToPart(P) /\ y.path = ToPart(Q)
    BY <2>1, <2>2, CallFields
  <2> QED BY <1>1, <1>6, <2>1, <2>2, <2>3
<1>10. \A x \in I : \A f \in x.set : \A d \in Parents(g, f) : d \in x.set
  BY <1>1, <1>4 DEF Parents
<1>11. SplitsUp(g, I)
  BY <1>7, <1>8, <1>9, <1>10 DEF SplitsUp, parts
<1>12. InWaves(ws, I)
  <2>1. 1 \in Nat \ {0} /\ \A i \in DOMAIN ws : 1 <= i
    OBVIOUS
  <2> QED BY <1>9, <2>1 DEF InWaves
<1> QED BY <1>11, <1>12

\* A call is made without inlining on behalf of one without.
LEMMA SubcallsInline ==
    ASSUME NEW g, NEW c, NEW d \in Subcalls(g, c)
    PROVE  d.inline = c.inline
<1>1. \E S, path : d = Call(S, path, c.inline)
  <2>1. CASE WeaklyConnectedComponents(g, c.set) # {c.set}
    BY <2>1 DEF Subcalls
  <2>2. CASE WeaklyConnectedComponents(g, c.set) = {c.set}
    BY <2>2 DEF Subcalls
  <2> QED BY <2>1, <2>2
<1> QED BY <1>1, CallFields

\* The calls made on behalf of one are for some of its fetches.
LEMMA SubcallsTyped ==
    ASSUME NEW g, NEW c, c.set \subseteq Nat, c.path \in Paths,
           NEW d \in Subcalls(g, c), d.set # {}
    PROVE  /\ d.set \subseteq c.set /\ d.path \in Paths
           /\ d = [set |-> d.set, path |-> d.path, inline |-> c.inline]
<1>1. CASE WeaklyConnectedComponents(g, c.set) # {c.set}
  <2>1. PICK P \in WeaklyConnectedComponents(g, c.set) :
          d = Call(P, c.path \o ToPart(P), c.inline)
    BY <1>1 DEF Subcalls, ToPart
  <2>2. P \subseteq c.set /\ First(P) \in Nat
    BY ComponentsCover, FirstIsLeast
  <2>3. ToPart(P) \in Paths
    BY <2>2 DEF ToPart, Paths
  <2>4. c.path \o ToPart(P) \in Paths
    BY <2>3, ConcatAt
  <2> QED BY <2>1, <2>2, <2>4 DEF Call
<1>2. CASE WeaklyConnectedComponents(g, c.set) = {c.set}
  <2> DEFINE own(r) == IF c.inline THEN Exclusive(g, c.set, r) ELSE {}
             roots  == ReadyRoots(g, c.set)
  <2>1. /\ roots \subseteq c.set /\ roots \subseteq Nat
        /\ \A r \in roots : own(r) \subseteq c.set
    BY DEF ReadyRoots, Exclusive
  <2>2. \E S \in SUBSET c.set, way \in Paths : d = Call(S, c.path \o way, c.inline)
    <3>1. CASE \E r \in roots : d = Call({r}, c.path \o ToBranch(r, 1), c.inline)
      <4>1. \A r \in roots : ToBranch(r, 1) \in Paths /\ {r} \in SUBSET c.set
        BY <2>1 DEF ToBranch, Paths
      <4> HIDE DEF roots
      <4> QED BY <3>1, <4>1
    <3>2. CASE \E r \in roots : d = Call(own(r), c.path \o ToBranch(r, 2), c.inline)
      <4>1. \A r \in roots : ToBranch(r, 2) \in Paths /\ own(r) \in SUBSET c.set
        BY <2>1 DEF ToBranch, Paths
      <4> HIDE DEF roots, own
      <4> QED BY <3>2, <4>1
    <3>3. CASE d = Call(c.set \ (roots \cup UNION {own(r) : r \in roots}), c.path \o ToRest, c.inline)
      <4>1. ToRest \in Paths
        BY DEF ToRest, Paths
      <4> HIDE DEF roots, own
      <4> QED BY <3>3, <4>1
    <3>4. \/ \E r \in roots : \/ d = Call({r}, c.path \o ToBranch(r, 1), c.inline)
                              \/ d = Call(own(r), c.path \o ToBranch(r, 2), c.inline)
          \/ d = Call(c.set \ (roots \cup UNION {own(r) : r \in roots}), c.path \o ToRest, c.inline)
      BY <1>2 DEF Subcalls, ToBranch, ToRest
    <3> QED BY <3>1, <3>2, <3>3, <3>4
  <2>3. PICK S \in SUBSET c.set, way \in Paths : d = Call(S, c.path \o way, c.inline)
    BY <2>2
  <2>4. c.path \o way \in Paths
    BY ConcatAt
  <2> QED BY <2>3, <2>4 DEF Call
<1> QED BY <1>1, <1>2

-----------------------------------------------------------------------------
(* The inductive invariant of postprocessing.                               *)

\* A planned dependency is one of the fetches that do the work.
DepsKept ==
    \A f \in Planned : \A d \in Parents(plan.deps, f) : rep[d] \in graph[rep[f]]

TreeInv ==
    /\ TypeOK
    /\ Acyclic(graph)
    /\ DepsKept
    /\ phase = "flat" => graph = plan.deps /\ waves = <<>>
    /\ phase \in {"waves", "fallback"} => Layered(graph, waves)
    /\ phase \in {"organized", "walk", "returned"} => ValidSchedule(tree, graph)
    /\ phase \notin {"walk", "returned"} => errored = {}

\* The graph stays within the plan's.
LEMMA GraphIsFinite ==
    ASSUME TypeOK
    PROVE  /\ IsPlan(plan)
           /\ Mentioned(graph) \subseteq Mentioned(plan.deps)
           /\ IsFiniteSet(Mentioned(graph))
           /\ DOMAIN graph \subseteq Nat
<1>1. IsPlan(plan)
  BY DEF TypeOK
<1>2. Planned \subseteq Mentioned(plan.deps)
  BY DEF Planned, Mentioned
<1>3. Mentioned(graph) \subseteq Mentioned(plan.deps)
  BY <1>2 DEF TypeOK, Mentioned
<1>4. IsFiniteSet(Mentioned(plan.deps)) /\ Mentioned(plan.deps) \subseteq Nat
  BY <1>1 DEF IsPlan
<1>5. IsFiniteSet(Mentioned(graph))
  BY <1>3, <1>4, FS_Subset
<1> QED BY <1>1, <1>2, <1>3, <1>4, <1>5 DEF TypeOK

\* What is built of the tree stays, as long as no call of schedule is made.
LEMMA CallsKept ==
    ASSUME TypeOK, plan' = plan, UNCHANGED scheduling
    PROVE  CallsOK'
BY DEF TypeOK, CallsOK, Planned, scheduling

\* The order that opens waves.
LEMMA OrderFollows ==
    ASSUME TypeOK, Acyclic(graph)
    PROVE  OrderIsTotal
<1> DEFINE n(f) == Cardinality(DependsOn(graph, f))
<1>1. IsFiniteSet(Mentioned(graph)) /\ DOMAIN graph \subseteq Nat
  BY GraphIsFinite
<1>2. \A a, b \in DOMAIN graph :
        /\ n(a) \in Nat
        /\ ComesFirst(graph, a, b) <=> (n(a) < n(b)) \/ (n(a) = n(b) /\ a < b)
  BY <1>1, ComesFirstIsLexicographic
<1>3. \A a, b \in DOMAIN graph : a \in graph[b] => n(a) < n(b)
  BY <1>1, DependsOnMore, DependsOnLeast
<1> HIDE DEF n
<1> QED BY <1>1, <1>2, <1>3 DEF OrderIsTotal

\* A fetch that comes before all others that are left depends on none of them.
LEMMA FirstIsReady ==
    ASSUME TypeOK, Acyclic(graph),
           NEW f \in Rest, \A e \in Rest \ {f} : ComesFirst(graph, f, e)
    PROVE  Parents(graph, f) \subseteq Provided
<1> SUFFICES ASSUME NEW d \in Parents(graph, f), d \in Rest PROVE FALSE
  BY DEF Parents, Rest
<1>1. IsFiniteSet(Mentioned(graph)) /\ f \in DOMAIN graph /\ d \in DOMAIN graph
  BY GraphIsFinite DEF Rest
<1>2. d \in DependsOn(graph, f)
  BY <1>1, DependsOnLeast DEF Parents
<1>3. d # f
  BY <1>1, <1>2, DependsOnIrreflexive
<1>4. ComesFirst(graph, f, d)
  BY <1>3
<1>5. Cardinality(DependsOn(graph, d)) < Cardinality(DependsOn(graph, f))
  BY <1>1, <1>2, DependsOnMore
<1>6. /\ Cardinality(DependsOn(graph, d)) \in Nat
      /\ Cardinality(DependsOn(graph, f)) \in Nat
      /\ \/ Cardinality(DependsOn(graph, f)) < Cardinality(DependsOn(graph, d))
         \/ Cardinality(DependsOn(graph, f)) = Cardinality(DependsOn(graph, d))
  BY <1>1, <1>4, ComesFirstIsLexicographic
<1> QED BY <1>5, <1>6

\* The graph of the planner, before anything is done with it.
LEMMA InitTree == Init => TreeInv
<1> SUFFICES ASSUME Init PROVE TreeInv
  OBVIOUS
<1>1. IsPlan(plan)
  BY PlansAssumption DEF Init
<1>2. TypeOK
  <2>1. graph \in [DOMAIN graph -> SUBSET Mentioned(plan.deps)]
    BY <1>1 DEF Init, IsPlan, Mentioned
  <2>2. CallsOK
    BY DEF Init, CallsOK
  <2> QED BY <1>1, <2>1, <2>2 DEF Init, TypeOK, Planned
<1>3. DepsKept
  BY DEF Init, DepsKept, Planned, Parents
<1> QED BY <1>1, <1>2, <1>3 DEF Init, TreeInv, IsPlan

\* Equal fetches become one: with equal dependencies that makes no circle.
LEMMA DeduplicateTree ==
    ASSUME TreeInv, Deduplicate PROVE TreeInv'
<1> USE DEF Deduplicate
<1> DEFINE first == plan.first
           deps  == plan.deps
<1>1. IsPlan(plan) /\ graph = deps /\ waves = <<>> /\ plan' = plan
  BY GraphIsFinite DEF TreeInv
<1>2. /\ deps \in [Planned -> SUBSET Nat] /\ first \in [Planned -> Planned]
      /\ \A f \in Planned :
           /\ first[first[f]] = first[f]
           /\ {first[d] : d \in Parents(deps, f)} = {first[d] : d \in Parents(deps, first[f])}
      /\ Acyclic(deps)
  BY <1>1 DEF IsPlan, Planned
<1>3. /\ DOMAIN graph' = {first[e] : e \in Planned}
      /\ DOMAIN graph' \subseteq Planned
      /\ \A f \in DOMAIN graph' :
           graph'[f] = {IF d \in Planned THEN first[d] ELSE d : d \in deps[f]}
  BY <1>1, <1>2
<1>4. TypeOK'
  <2>1. ASSUME NEW f \in DOMAIN graph', NEW x \in graph'[f]
        PROVE  x \in Mentioned(deps)
    <3>0. graph'[f] = {IF d \in Planned THEN first[d] ELSE d : d \in deps[f]}
      BY <1>3
    <3>1. PICK d \in deps[f] : x = IF d \in Planned THEN first[d] ELSE d
      BY <2>1, <3>0
    <3>2. CASE d \in Planned
      BY <1>2, <3>1, <3>2 DEF Mentioned, Planned
    <3>3. CASE d \notin Planned
      BY <1>3, <3>1, <3>3 DEF Mentioned, Planned
    <3> QED BY <3>2, <3>3
  <2>2. graph' \in [DOMAIN graph' -> SUBSET Mentioned(deps)]
    BY <1>1, <2>1
  <2>3. rep' \in [Planned -> DOMAIN graph']
    BY <1>2, <1>3
  <2>4. phase' \in {"waves", "schedule"} /\ phase' \notin {"walk", "returned"}
    BY DEF Organizing
  <2>5. waves' \in Seq(SUBSET DOMAIN graph')
    BY <1>1
  <2>6. CallsOK'
    BY CallsKept DEF TreeInv
  <2> QED BY <1>1, <1>3, <2>2, <2>3, <2>4, <2>5, <2>6 DEF TreeInv, TypeOK, Planned
<1>5. Acyclic(graph')
  <2> SUFFICES ASSUME NEW S \in SUBSET DOMAIN graph', S # {}
               PROVE  \E f \in S : graph'[f] \cap S = {}
    BY DEF Acyclic
  <2> DEFINE all == {f \in Planned : first[f] \in S}
  <2>1. all \in SUBSET DOMAIN deps /\ all # {}
    BY <1>3 DEF Planned
  <2>2. PICK f \in all : deps[f] \cap all = {}
    BY <1>2, <2>1 DEF Acyclic
  <2>3. first[f] \in S
    BY <2>2
  <2>4. ASSUME NEW x \in graph'[first[f]] \cap S PROVE FALSE
    <3>0. graph'[first[f]] = {IF d \in Planned THEN first[d] ELSE d : d \in deps[first[f]]}
      BY <1>3, <2>3
    <3>1. PICK d \in deps[first[f]] : x = IF d \in Planned THEN first[d] ELSE d
      BY <2>4, <3>0
    <3>2. d \in Parents(deps, first[f]) /\ x = first[d]
      BY <1>3, <2>4, <3>1, <1>2 DEF Parents, Planned
    <3>3. x \in {first[e] : e \in Parents(deps, f)}
      <4>1. x \in {first[e] : e \in Parents(deps, first[f])}
        BY <3>2
      <4> QED BY <1>2, <2>2, <4>1
    <3>4. PICK y \in Parents(deps, f) : first[y] = x
      BY <3>3
    <3> QED BY <2>2, <2>4, <3>4 DEF Parents, Planned
  <2> QED BY <2>3, <2>4
<1>6. DepsKept'
  <2> SUFFICES ASSUME NEW f \in Planned, NEW d \in Parents(deps, f)
               PROVE  first[d] \in graph'[first[f]]
    BY <1>1 DEF DepsKept, Planned
  <2>1. first[d] \in {first[e] : e \in Parents(deps, f)}
    OBVIOUS
  <2>2. first[d] \in {first[e] : e \in Parents(deps, first[f])}
    BY <1>2, <2>1
  <2>3. PICK y \in Parents(deps, first[f]) : first[y] = first[d]
    BY <2>2
  <2>4. graph'[first[f]] = {IF e \in Planned THEN first[e] ELSE e : e \in deps[first[f]]}
    BY <1>3
  <2> QED BY <2>3, <2>4 DEF Parents, Planned
<1>7. Layered(graph', waves')
  BY <1>1 DEF Layered
<1> QED BY <1>4, <1>5, <1>6, <1>7 DEF TreeInv, Organizing

\* The first of the rest is ready, so each wave is behind what it depends on.
LEMMA NextWaveTree ==
    ASSUME TreeInv, NextWave PROVE TreeInv'
<1> USE DEF NextWave
<1>1. PICK f \in Rest :
        /\ \A e \in Rest \ {f} : ComesFirst(graph, f, e)
        /\ waves' = Append(waves, {f} \cup {e \in Rest : graph[e] \subseteq Provided})
  OBVIOUS
<1> DEFINE wave == {f} \cup {e \in Rest : graph[e] \subseteq Provided}
<1>2. /\ waves \in Seq(SUBSET DOMAIN graph) /\ Layered(graph, waves)
      /\ wave \subseteq Rest /\ Rest \subseteq DOMAIN graph
  BY DEF TreeInv, TypeOK, Rest
<1>3. /\ waves' \in Seq(SUBSET DOMAIN graph) /\ Len(waves') = Len(waves) + 1
      /\ DOMAIN waves' = 1..(Len(waves) + 1) /\ DOMAIN waves = 1..Len(waves)
      /\ \A i \in DOMAIN waves : waves'[i] = waves[i]
      /\ waves'[Len(waves) + 1] = wave
      /\ Len(waves) \in Nat
  <2> HIDE DEF wave
  <2> QED BY <1>1, <1>2 DEF wave
<1>4. ASSUME NEW e \in wave
      PROVE  /\ Parents(graph, e) \subseteq Provided
             /\ \A j \in DOMAIN waves : e \notin waves[j]
  <2>1. Parents(graph, f) \subseteq Provided
    BY <1>1, FirstIsReady DEF TreeInv
  <2> QED BY <1>2, <1>4, <2>1 DEF Parents, Rest, Provided
<1> HIDE DEF wave
<1>5. Layered(graph, waves')
  <2> SUFFICES ASSUME NEW i \in DOMAIN waves', NEW e \in waves'[i]
               PROVE  /\ \A d \in Parents(graph, e) : \E j \in 1..(i - 1) : d \in waves'[j]
                      /\ \A j \in DOMAIN waves' : e \in waves'[j] => j = i
    BY DEF Layered
  <2>1. CASE i \in DOMAIN waves
    <3>1. e \in waves[i] /\ e \notin wave
      BY <1>3, <1>4, <2>1
    <3>2. ASSUME NEW d \in Parents(graph, e) PROVE \E j \in 1..(i - 1) : d \in waves'[j]
      <4>1. PICK j \in 1..(i - 1) : d \in waves[j]
        BY <1>2, <2>1, <3>1, <3>2 DEF Layered
      <4> QED BY <1>3, <2>1, <4>1
    <3>3. ASSUME NEW j \in DOMAIN waves', e \in waves'[j] PROVE j = i
      <4>1. j \in DOMAIN waves
        BY <1>3, <3>1, <3>3
      <4> QED BY <1>2, <1>3, <2>1, <3>1, <3>3, <4>1 DEF Layered
    <3> QED BY <3>2, <3>3
  <2>2. CASE i = Len(waves) + 1
    <3>1. e \in wave
      BY <1>3, <2>2
    <3>2. ASSUME NEW d \in Parents(graph, e) PROVE \E j \in 1..(i - 1) : d \in waves'[j]
      <4>1. PICK j \in DOMAIN waves : d \in waves[j]
        BY <1>4, <3>1, <3>2 DEF Provided
      <4> QED BY <1>3, <2>2, <4>1
    <3>3. ASSUME NEW j \in DOMAIN waves', e \in waves'[j] PROVE j = i
      BY <1>3, <1>4, <2>2, <3>1, <3>3
    <3> QED BY <3>2, <3>3
  <2> QED BY <1>3, <2>1, <2>2
<1>6. TypeOK'
  BY <1>3, CallsKept DEF TreeInv, TypeOK, Planned
<1>7. DepsKept'
  BY DEF TreeInv, DepsKept, Planned
<1> QED BY <1>5, <1>6, <1>7 DEF TreeInv

\* A fetch is merged into one of its wave, which stays.
LEMMA SurvivorInWave ==
    ASSUME TypeOK, Layered(graph, waves),
           NEW i \in DOMAIN waves, NEW f \in waves[i]
    PROVE  Survivor(f) \in waves[i] /\ Survivor(Survivor(f)) = Survivor(f)
<1>1. CASE ~(plan.multi /\ plan.sub[f] # NoSub)
  BY <1>1 DEF Survivor
<1>2. CASE plan.multi /\ plan.sub[f] # NoSub
  <2> DEFINE group == {m \in waves[i] : plan.sub[m] = plan.sub[f]}
  <2>1. waves[i] \subseteq DOMAIN graph /\ DOMAIN graph \subseteq Nat
    BY GraphIsFinite DEF TypeOK
  <2>2. ASSUME NEW m \in group PROVE Group(m) = group
    BY <2>1, <2>2 DEF Group, Layered
  <2>3. \E m \in group : \A e \in group : m <= e
    <3>1. group \subseteq Nat /\ group # {}
      BY <2>1
    <3> HIDE DEF group
    <3> QED BY <3>1, LeastNatural
  <2> DEFINE least == CHOOSE m \in group : \A e \in group : m <= e
  <2>4. least \in group
    <3> HIDE DEF group
    <3> QED BY <2>3
  <2>5. ASSUME NEW m \in group PROVE Survivor(m) = least
    <3>1. Group(m) = group /\ plan.sub[m] # NoSub
      BY <1>2, <2>2, <2>5
    <3> HIDE DEF group
    <3> QED BY <1>2, <3>1 DEF Survivor
  <2>6. f \in group
    OBVIOUS
  <2>7. Survivor(f) = least /\ Survivor(least) = least
    <3> HIDE DEF group, least
    <3> QED BY <2>4, <2>5, <2>6
  <2>8. least \in waves[i]
    <3> HIDE DEF least
    <3> QED BY <2>4
  <2> QED BY <2>7, <2>8
<1> QED BY <1>1, <1>2

\* Fetches of one wave become one, and the waves of the new graph are those of the
\* old one without what was merged away.
LEMMA CreateMultiFetchTree ==
    ASSUME TreeInv, CreateMultiFetch
    PROVE  /\ TreeInv'
           /\ Layered(graph', waves') /\ Covers(waves', graph')
           /\ Saturated(graph, waves) /\ Inside(graph') => Tight(graph', waves')
<1> DEFINE into   == [f \in DOMAIN graph |-> Survivor(f)]
           merged == [i \in DOMAIN waves |-> {f \in waves[i] : Survivor(f) = f}]
<1>1. /\ phase = "waves" /\ Rest = {} /\ plan' = plan
      /\ graph' = Rewired(graph, into) /\ waves' = merged
      /\ rep' = [f \in Planned |-> Survivor(rep[f])]
      /\ phase' = IF plan.scheduler THEN "schedule" ELSE "organized"
      /\ ~plan.scheduler => tree' = TreeInWaves(merged)
      /\ status' = status /\ errored' = errored
  BY DEF CreateMultiFetch, Merged
<1>2. /\ TypeOK /\ Layered(graph, waves) /\ DepsKept
      /\ waves \in Seq(SUBSET DOMAIN graph) /\ rep \in [Planned -> DOMAIN graph]
      /\ DOMAIN graph \subseteq Planned
  BY <1>1 DEF TreeInv, TypeOK
<1>3. Covers(waves, graph)
  BY <1>1 DEF Rest, Provided, Covers
<1>4. ASSUME NEW i \in DOMAIN waves, NEW f \in waves[i]
      PROVE  Survivor(f) \in waves[i] /\ Survivor(Survivor(f)) = Survivor(f)
  BY <1>2, SurvivorInWave
<1>5. ASSUME NEW f \in DOMAIN graph
      PROVE  Survivor(f) \in DOMAIN graph /\ Survivor(Survivor(f)) = Survivor(f)
  BY <1>2, <1>3, <1>4 DEF Covers
<1>6. /\ DOMAIN graph' = {Survivor(f) : f \in DOMAIN graph}
      /\ DOMAIN graph' \subseteq DOMAIN graph
      /\ \A f \in DOMAIN graph' : Survivor(f) = f
  BY <1>1, <1>5 DEF Rewired
<1>7. ASSUME NEW m \in DOMAIN graph'
      PROVE  graph'[m] =
               {IF d \in DOMAIN graph THEN Survivor(d) ELSE d :
                   d \in UNION {graph[f] : f \in {e \in DOMAIN graph : Survivor(e) = m}}} \ {m}
  <2>1. \A f \in DOMAIN graph : into[f] = Survivor(f)
    OBVIOUS
  <2>2. graph' = Rewired(graph, into)
    BY <1>1
  <2> HIDE DEF into, merged
  <2>3. graph'[m] =
          {IF d \in DOMAIN graph THEN into[d] ELSE d :
              d \in UNION {graph[f] : f \in {e \in DOMAIN graph : into[e] = m}}} \ {m}
    BY <1>7, <2>2 DEF Rewired
  <2>4. {e \in DOMAIN graph : into[e] = m} = {e \in DOMAIN graph : Survivor(e) = m}
    BY <2>1
  <2> DEFINE from == UNION {graph[f] : f \in {e \in DOMAIN graph : Survivor(e) = m}}
  <2> HIDE DEF from
  <2>5. {IF d \in DOMAIN graph THEN into[d] ELSE d : d \in from}
          = {IF d \in DOMAIN graph THEN Survivor(d) ELSE d : d \in from}
    BY <2>1
  <2> QED BY <2>3, <2>4, <2>5 DEF from
<1>8. ASSUME NEW m \in DOMAIN graph', NEW x \in graph'[m]
      PROVE  \E f \in DOMAIN graph : \E d \in graph[f] :
                 /\ Survivor(f) = m
                 /\ x = IF d \in DOMAIN graph THEN Survivor(d) ELSE d
  <2>1. graph'[m] \subseteq {IF d \in DOMAIN graph THEN Survivor(d) ELSE d :
                d \in UNION {graph[f] : f \in {e \in DOMAIN graph : Survivor(e) = m}}}
    BY <1>7
  <2>2. PICK d \in UNION {graph[f] : f \in {e \in DOMAIN graph : Survivor(e) = m}} :
          x = IF d \in DOMAIN graph THEN Survivor(d) ELSE d
    BY <1>8, <2>1
  <2> QED BY <2>2
<1>9. /\ merged \in Seq(SUBSET DOMAIN graph') /\ DOMAIN merged = DOMAIN waves
      /\ \A i \in DOMAIN waves : merged[i] = {f \in waves[i] : Survivor(f) = f}
  <2>1. ASSUME NEW i \in DOMAIN waves
        PROVE  {f \in waves[i] : Survivor(f) = f} \subseteq DOMAIN graph'
    BY <1>2, <1>6, <2>1
  <2>2. DOMAIN waves = 1..Len(waves) /\ Len(waves) \in Nat
    BY <1>2
  <2> QED BY <2>1, <2>2
<1>10. Layered(graph', merged)
  <2> SUFFICES ASSUME NEW i \in DOMAIN waves, NEW f \in waves[i], Survivor(f) = f
               PROVE  /\ \A x \in Parents(graph', f) : \E j \in 1..(i - 1) : x \in merged[j]
                      /\ \A j \in DOMAIN waves : f \in waves[j] => j = i
    <3> HIDE DEF merged
    <3> QED BY <1>9 DEF Layered
  <2>1. f \in DOMAIN graph'
    BY <1>2, <1>6
  <2>2. ASSUME NEW x \in Parents(graph', f) PROVE \E j \in 1..(i - 1) : x \in merged[j]
    <3>1. PICK e \in DOMAIN graph : \E d \in graph[e] :
            Survivor(e) = f /\ x = IF d \in DOMAIN graph THEN Survivor(d) ELSE d
      BY <1>8, <2>1, <2>2 DEF Parents
    <3>2. PICK d \in graph[e] : Survivor(e) = f /\ x = IF d \in DOMAIN graph THEN Survivor(d) ELSE d
      BY <3>1
    <3>3. x \in DOMAIN graph /\ Survivor(x) = x
      BY <1>6, <2>2 DEF Parents
    <3>4. d \in Parents(graph, e) /\ x = Survivor(d)
      BY <3>2, <3>3 DEF Parents
    <3>5. PICK k \in DOMAIN waves : e \in waves[k]
      BY <1>3 DEF Covers
    <3>6. f \in waves[k]
      BY <1>4, <3>2, <3>5
    <3>7. e \in waves[i]
      BY <1>2, <3>5, <3>6 DEF Layered
    <3>8. PICK j \in 1..(i - 1) : d \in waves[j]
      BY <1>2, <3>4, <3>7 DEF Layered
    <3>9. j \in DOMAIN waves
      BY <1>2, <3>8
    <3>10. x \in waves[j]
      BY <1>4, <3>4, <3>8, <3>9
    <3> QED BY <1>9, <3>3, <3>8, <3>9, <3>10
  <2> QED BY <1>2, <2>2 DEF Layered
<1>11. Covers(merged, graph')
  <2> SUFFICES ASSUME NEW f \in DOMAIN graph' PROVE \E i \in DOMAIN waves : f \in merged[i]
    BY <1>9 DEF Covers
  <2> QED BY <1>3, <1>6, <1>9 DEF Covers
<1>12. Acyclic(graph')
  <2> HIDE DEF merged
  <2> QED BY <1>9, <1>10, <1>11, LayeredIsAcyclic
<1>13. ~plan.scheduler => ValidSchedule(tree', graph')
  <2> HIDE DEF merged
  <2>1. DOMAIN graph' \subseteq Nat
    BY <1>2, <1>6, GraphIsFinite
  <2> QED BY <1>1, <1>9, <1>10, <1>11, <2>1, WavesAreValid
<1>14. DepsKept'
  <2> SUFFICES ASSUME NEW f \in Planned, NEW d \in Parents(plan.deps, f)
               PROVE  Survivor(rep[d]) \in graph'[Survivor(rep[f])]
    BY <1>1 DEF DepsKept, Planned, Parents
  <2>1. /\ rep[f] \in DOMAIN graph /\ rep[d] \in DOMAIN graph
        /\ rep[d] \in Parents(graph, rep[f])
    BY <1>2 DEF DepsKept, Parents, Planned
  <2>2. PICK i \in DOMAIN waves : rep[f] \in waves[i]
    BY <1>3, <2>1 DEF Covers
  <2>3. PICK j \in 1..(i - 1) : rep[d] \in waves[j]
    BY <1>2, <2>1, <2>2 DEF Layered
  <2>4. j \in DOMAIN waves /\ j # i
    BY <1>2, <2>3
  <2>5. Survivor(rep[d]) # Survivor(rep[f])
    BY <1>2, <1>4, <2>2, <2>3, <2>4 DEF Layered
  <2>6. Survivor(rep[f]) \in DOMAIN graph'
    BY <1>6, <2>1
  <2> DEFINE m == Survivor(rep[f])
             from == UNION {graph[e] : e \in {e \in DOMAIN graph : Survivor(e) = m}}
  <2>7. rep[d] \in from
    BY <2>1 DEF Parents
  <2>8. graph'[m] = {IF x \in DOMAIN graph THEN Survivor(x) ELSE x : x \in from} \ {m}
    BY <1>7, <2>6
  <2> HIDE DEF from
  <2> QED BY <2>1, <2>5, <2>7, <2>8
<1>15. TypeOK'
  <2>1. ASSUME NEW m \in DOMAIN graph', NEW x \in graph'[m] PROVE x \in Mentioned(plan.deps)
    <3>1. PICK f \in DOMAIN graph : \E d \in graph[f] :
            x = IF d \in DOMAIN graph THEN Survivor(d) ELSE d
      BY <1>8, <2>1
    <3>2. PICK d \in graph[f] : x = IF d \in DOMAIN graph THEN Survivor(d) ELSE d
      BY <3>1
    <3>3. DOMAIN graph \subseteq Mentioned(plan.deps)
      BY <1>2 DEF Mentioned, Planned
    <3>4. d \in Mentioned(plan.deps)
      BY <1>2 DEF TypeOK
    <3> QED BY <1>5, <3>2, <3>3, <3>4
  <2>2. graph' \in [DOMAIN graph' -> SUBSET Mentioned(plan.deps)]
    BY <1>1, <2>1 DEF Rewired
  <2>3. rep' \in [Planned -> DOMAIN graph']
    BY <1>1, <1>2, <1>6
  <2>4. waves' \in Seq(SUBSET DOMAIN graph')
    BY <1>1, <1>9
  <2>5. phase' \in {"schedule", "organized"}
    BY <1>1
  <2>6. CallsOK'
    BY <1>1, <1>2, CallsKept DEF CreateMultiFetch
  <2> QED BY <1>1, <1>2, <1>6, <2>2, <2>3, <2>4, <2>5, <2>6 DEF TypeOK, Planned
<1>16. ASSUME Saturated(graph, waves), Inside(graph') PROVE Tight(graph', merged)
  <2> SUFFICES ASSUME NEW i \in DOMAIN waves, i > 1, NEW f \in waves[i], Survivor(f) = f
               PROVE  \E x \in Parents(graph', f) : x \in merged[i - 1]
    <3> HIDE DEF merged
    <3> QED BY <1>9 DEF Tight
  <2>1. /\ f \in DOMAIN graph /\ f \in DOMAIN graph'
        /\ i \in Nat /\ i - 1 \in DOMAIN waves /\ (i - 1) - 1 = i - 2
    BY <1>2, <1>6
  <2> DEFINE from == UNION {graph[e] : e \in {e \in DOMAIN graph : Survivor(e) = f}}
  <2>2. /\ graph[f] \subseteq from
        /\ graph'[f] = {IF d \in DOMAIN graph THEN Survivor(d) ELSE d : d \in from} \ {f}
    BY <1>7, <2>1
  <2> HIDE DEF from
  <2>3. ASSUME NEW d \in graph[f] PROVE d \in DOMAIN graph
    <3> SUFFICES ASSUME d \notin DOMAIN graph PROVE FALSE
      OBVIOUS
    <3>1. d \in graph'[f]
      BY <2>1, <2>2
    <3> QED BY <1>6, <1>16, <2>1, <3>1 DEF Inside
  <2>4. ASSUME graph[f] \subseteq UNION {waves[j] : j \in 1..(i - 2)} PROVE FALSE
    <3>1. PICK j \in 1..(i - 1) : f \in waves[j]
      BY <1>16, <2>1, <2>4 DEF Saturated
    <3>2. j \in DOMAIN waves /\ j # i
      BY <1>2, <2>1, <3>1
    <3> QED BY <1>2, <3>1, <3>2 DEF Layered
  <2>5. PICK d \in graph[f] : \A j \in 1..(i - 2) : d \notin waves[j]
    BY <2>4
  <2>6. d \in DOMAIN graph /\ d \in Parents(graph, f)
    BY <2>3 DEF Parents
  <2>7. d \in waves[i - 1]
    <3>1. PICK j \in 1..(i - 1) : d \in waves[j]
      BY <1>2, <2>6 DEF Layered
    <3>2. j = i - 1
      BY <2>1, <2>5, <3>1
    <3> QED BY <3>1, <3>2
  <2>8. Survivor(d) \in waves[i - 1] /\ Survivor(Survivor(d)) = Survivor(d)
    BY <1>4, <2>1, <2>7
  <2>9. Survivor(d) \in merged[i - 1]
    BY <1>9, <2>1, <2>8
  <2>10. Survivor(d) # f
    BY <1>2, <2>1, <2>8 DEF Layered
  <2>11. Survivor(d) \in graph'[f]
    BY <2>2, <2>6, <2>10
  <2>12. Survivor(d) \in DOMAIN graph'
    BY <1>6, <2>6
  <2> QED BY <2>9, <2>11, <2>12 DEF Parents
<1>17. TreeInv'
  BY <1>1, <1>12, <1>13, <1>14, <1>15 DEF TreeInv
<1>18. waves' = merged
  BY <1>1
<1> HIDE DEF merged
<1> QED BY <1>10, <1>11, <1>16, <1>17, <1>18

\* The calls for the components.
LEMMA BuildScheduleTreeTree ==
    ASSUME TreeInv, BuildScheduleTree PROVE TreeInv'
<1> DEFINE parts == WeaklyConnectedComponents(graph, DOMAIN graph)
<1>1. /\ phase' = "build" /\ UNCHANGED <<plan, graph, rep, waves, built, tree, status, errored>>
      /\ phase = "schedule"
      /\ calls' = {Call(C, ToPart(C), inline) : C \in parts, inline \in BOOLEAN}
  BY DEF BuildScheduleTree, ToPart
<1>2. DOMAIN graph \subseteq Planned /\ DOMAIN graph \subseteq Nat
  BY GraphIsFinite DEF TreeInv, TypeOK
<1>3. CallsOK'
  <2>1. ASSUME NEW C \in parts, NEW inline \in BOOLEAN
        PROVE  Call(C, ToPart(C), inline) \in [set : SUBSET Planned, path : Paths, inline : BOOLEAN]
    <3>1. C \in SUBSET Planned /\ First(C) \in Nat
      BY <1>2, ComponentsCover, FirstIsLeast
    <3>2. ToPart(C) \in Paths
      BY <3>1 DEF ToPart, Paths
    <3> QED BY <3>1, <3>2 DEF Call
  <2> HIDE DEF parts
  <2>2. ASSUME NEW c \in calls'
        PROVE  c \in [set : SUBSET Planned, path : Paths, inline : BOOLEAN]
    <3>1. PICK C \in parts, inline \in BOOLEAN : c = Call(C, ToPart(C), inline)
      BY <1>1
    <3> QED BY <2>1, <3>1
  <2> QED BY <1>1, <2>2 DEF TreeInv, TypeOK, CallsOK, Planned
<1> HIDE DEF parts
<1>4. TypeOK'
  BY <1>1, <1>3 DEF TreeInv, TypeOK, Planned
<1>5. DepsKept'
  BY <1>1 DEF TreeInv, DepsKept, Planned
<1> QED BY <1>1, <1>4, <1>5 DEF TreeInv

\* The calls made on behalf of others, and the fetches of the calls that are done.
LEMMA ScheduleCallsTree ==
    ASSUME TreeInv, Schedule PROVE TreeInv'
<1> USE DEF Schedule
<1>1. /\ calls \subseteq [set : SUBSET Planned, path : Paths, inline : BOOLEAN]
      /\ built \in [BOOLEAN -> SUBSET [id : Planned, path : Paths]]
      /\ Planned \subseteq Nat
  BY GraphIsFinite DEF TreeInv, TypeOK, CallsOK, IsPlan, Planned, Mentioned
<1>2. calls' \subseteq [set : SUBSET Planned, path : Paths, inline : BOOLEAN]
  <2> SUFFICES ASSUME NEW c \in calls, NEW d \in Subcalls(graph, c), d.set # {}
               PROVE  d \in [set : SUBSET Planned, path : Paths, inline : BOOLEAN]
    OBVIOUS
  <2>1. c.set \subseteq Planned /\ c.path \in Paths /\ c.inline \in BOOLEAN
    BY <1>1
  <2>2. /\ d.set \subseteq c.set /\ d.path \in Paths
        /\ d = [set |-> d.set, path |-> d.path, inline |-> c.inline]
    BY <1>1, <2>1, SubcallsTyped
  <2> QED BY <2>1, <2>2
<1>3. built' \in [BOOLEAN -> SUBSET [id : Planned, path : Paths]]
  <2>1. ASSUME NEW c \in calls, IsSingle(c)
        PROVE  Leaf(First(c.set), c.path) \in [id : Planned, path : Paths]
    <3>1. c.set \subseteq Planned /\ c.path \in Paths /\ c.set # {}
      BY <1>1, <2>1 DEF IsSingle
    <3>2. First(c.set) \in c.set
      BY <1>1, <3>1, FirstIsLeast
    <3> QED BY <3>1, <3>2 DEF Leaf
  <2>2. ASSUME NEW inline \in BOOLEAN
        PROVE  built[inline] \cup {Leaf(First(c.set), c.path) :
                 c \in {c \in calls : IsSingle(c) /\ c.inline = inline}}
                 \in SUBSET [id : Planned, path : Paths]
    BY <1>1, <2>1
  <2> QED BY <2>2
<1>4. TypeOK'
  BY <1>2, <1>3 DEF TreeInv, TypeOK, CallsOK, Planned
<1>5. DepsKept'
  BY DEF TreeInv, DepsKept, Planned
<1> QED BY <1>4, <1>5 DEF TreeInv

\* A tree is taken only if it is valid.
LEMMA ScheduleFetchesTree ==
    ASSUME TreeInv, ScheduleFetches PROVE TreeInv'
<1> USE DEF ScheduleFetches
<1>1. PICK t \in {ScheduleTree} \cup Schedules(graph) :
        IF ValidSchedule(t, graph)
        THEN phase' = "organized" /\ tree' = t /\ waves' = waves
        ELSE phase' = "fallback" /\ tree' = tree /\ waves' = <<>>
  OBVIOUS
<1>2. /\ plan' = plan /\ graph' = graph /\ rep' = rep
      /\ status' = status /\ errored' = errored
  OBVIOUS
<1>3. waves' \in Seq(SUBSET DOMAIN graph) /\ phase' \in {"organized", "fallback"}
  <2>1. waves \in Seq(SUBSET DOMAIN graph) /\ <<>> \in Seq(SUBSET DOMAIN graph)
    BY DEF TreeInv, TypeOK
  <2> QED BY <1>1, <2>1
<1>4. TypeOK'
  BY <1>2, <1>3, CallsKept DEF TreeInv, TypeOK, Planned
<1>5. DepsKept'
  BY <1>2 DEF TreeInv, DepsKept, Planned
<1>6. phase' = "fallback" => Layered(graph', waves')
  BY <1>1, <1>2 DEF Layered
<1>7. phase' = "organized" => ValidSchedule(tree', graph')
  BY <1>1, <1>2
<1> QED BY <1>2, <1>3, <1>4, <1>5, <1>6, <1>7 DEF TreeInv

\* The waves of the fallback hold all fetches.
LEMMA FallBackTree ==
    ASSUME TreeInv, FallBack PROVE TreeInv'
<1> USE DEF FallBack
<1>1. Covers(waves, graph)
  BY DEF Rest, Provided, Covers
<1>2. ValidSchedule(TreeInWaves(waves), graph)
  BY <1>1, WavesAreValid, GraphIsFinite DEF TreeInv, TypeOK
<1>3. TypeOK'
  BY CallsKept DEF TreeInv, TypeOK, Planned
<1>4. DepsKept'
  BY DEF TreeInv, DepsKept, Planned
<1> QED BY <1>2, <1>3, <1>4 DEF TreeInv

\* A step of the walk changes the status and the errors of fetches of the tree.
LEMMA FetchStepStatus ==
    ASSUME TypeOK, NEW f \in DOMAIN graph, FetchStep(f)
    PROVE  /\ phase = "walk" /\ UNCHANGED <<plan, phase, graph, rep, waves, scheduling, tree>>
           /\ DOMAIN status' = DOMAIN graph
           /\ \A e \in DOMAIN graph \ {f} : status'[e] = status[e]
           /\ \/ /\ status[f] = "idle" /\ Started(f) /\ graph[f] \cap errored # {}
                 /\ status'[f] = "skipped" /\ errored' = errored \cup {f}
              \/ /\ status[f] = "idle" /\ Started(f) /\ graph[f] \cap errored = {}
                 /\ status'[f] \in {"load", "loaded", "failed"} /\ errored' = errored
              \/ /\ status[f] = "load" /\ status'[f] \in {"loaded", "error"}
                 /\ errored' = errored
              \/ /\ status[f] = "error" /\ status'[f] = "loaded"
                 /\ errored' = errored \cup {f}
              \/ /\ status[f] = "loaded" /\ status'[f] \in {"merged", "failed"}
                 /\ status'[f] = "failed" => f \notin errored
                 /\ errored' = errored
<1>1. phase = "walk"
  BY DEF FetchStep, Prepare, Load, Record, Merge
<1>2. DOMAIN status = DOMAIN graph
  BY <1>1 DEF TypeOK
<1>3. CASE Prepare(f)
  <2>1. CASE graph[f] \cap errored # {}
    BY <1>1, <1>2, <1>3, <2>1 DEF Prepare
  <2>2. CASE graph[f] \cap errored = {}
    BY <1>1, <1>2, <1>3, <2>2 DEF Prepare
  <2> QED BY <2>1, <2>2
<1>4. CASE Load(f)
  BY <1>1, <1>2, <1>4 DEF Load
<1>5. CASE Record(f)
  BY <1>1, <1>2, <1>5 DEF Record
<1>6. CASE Merge(f)
  BY <1>1, <1>2, <1>6 DEF Merge
<1> QED BY <1>3, <1>4, <1>5, <1>6 DEF FetchStep

\* The walk leaves plan, graph and tree alone.
LEMMA ResolveTree ==
    ASSUME TreeInv, Resolve PROVE TreeInv'
<1>1. TypeOK
  BY DEF TreeInv
<1>2. UNCHANGED <<plan, graph, rep, waves, scheduling, tree>>
  <2>1. CASE \E f \in DOMAIN graph : FetchStep(f)
    BY <1>1, <2>1, FetchStepStatus
  <2> QED BY <2>1 DEF Resolve, StartWalk, ReturnWalk
<1>3. /\ phase \in {"organized", "walk"} /\ phase' \in {"walk", "returned"}
      /\ status' \in [DOMAIN graph -> {"idle", "load", "error", "loaded"} \cup Ended]
      /\ errored' \subseteq DOMAIN graph
  <2>1. CASE StartWalk
    BY <2>1 DEF StartWalk, TreeInv
  <2>2. CASE ReturnWalk
    BY <1>1, <2>2 DEF ReturnWalk, TypeOK
  <2>3. CASE \E f \in DOMAIN graph : FetchStep(f)
    <3>1. PICK f \in DOMAIN graph : FetchStep(f)
      BY <2>3
    <3>2. /\ phase = "walk" /\ phase' = phase
          /\ status \in [DOMAIN graph -> {"idle", "load", "error", "loaded"} \cup Ended]
          /\ errored \subseteq DOMAIN graph
      BY <1>1, <3>1, FetchStepStatus DEF TypeOK
    <3>3. /\ \A e \in DOMAIN graph :
               status'[e] \in {"idle", "load", "error", "loaded"} \cup Ended
          /\ errored' \subseteq DOMAIN graph /\ DOMAIN status' = DOMAIN graph
      BY <1>1, <3>1, <3>2, FetchStepStatus DEF Ended
    <3>4. status' = [e \in DOMAIN status |-> status'[e]]
      BY <3>1 DEF FetchStep, Prepare, Load, Record, Merge
    <3> QED BY <3>2, <3>3, <3>4
  <2> QED BY <2>1, <2>2, <2>3 DEF Resolve
<1>4. TypeOK'
  BY <1>1, <1>2, <1>3, CallsKept DEF TypeOK, Planned
<1>5. DepsKept'
  BY <1>2 DEF TreeInv, DepsKept, Planned
<1> QED BY <1>2, <1>3, <1>4, <1>5 DEF TreeInv

\* Nothing happens.
LEMMA StutterTree ==
    ASSUME TreeInv, UNCHANGED vars PROVE TreeInv'
<1>1. TypeOK'
  BY CallsKept DEF vars, TreeInv, TypeOK, Planned
<1>2. DepsKept'
  BY DEF vars, TreeInv, DepsKept, Planned
<1> QED BY <1>1, <1>2 DEF vars, TreeInv

\* Whatever the scheduler does, the graph stays acyclic and keeps the planned
\* dependencies, waves stay layered and the tree is a valid schedule.
THEOREM FetchTreeInductive == Spec => []TreeInv
<1>1. ASSUME TreeInv, [Next]_vars PROVE TreeInv'
  BY <1>1, DeduplicateTree, NextWaveTree, CreateMultiFetchTree, BuildScheduleTreeTree,
     ScheduleCallsTree, ScheduleFetchesTree, FallBackTree, ResolveTree, StutterTree DEF Next, Postprocess
<1> QED BY InitTree, <1>1, PTL DEF Spec

\* The types of the plan's graph, the waves, the tree and the walk.
THEOREM FetchTypeCorrect == Spec => []TypeOK
BY FetchTreeInductive, PTL DEF TreeInv

\* The comparison orderSequenceByDependencies sorts with is a strict total order
\* that puts each fetch behind its dependencies, on every graph it is used on.
THEOREM FetchOrder == Spec => []OrderIsTotal
<1>1. TreeInv => OrderIsTotal
  BY OrderFollows DEF TreeInv
<1> QED BY <1>1, FetchTreeInductive, PTL

\* The tree that is executed does the work of each planned fetch once and after
\* that of the fetches it depends on, after any deduplication, any merging and
\* with any scheduler.
THEOREM FetchTreeSound == Spec => []TreeIsSound
<1>1. ASSUME TreeInv, phase = "organized"
      PROVE  /\ ValidSchedule(tree, graph)
             /\ \A f \in Planned :
                  /\ rep[f] \in FetchIDs(tree)
                  /\ \A d \in Parents(plan.deps, f) : rep[d] \in Predecessors(tree, rep[f])
  <2>1. ValidSchedule(tree, graph) /\ rep \in [Planned -> DOMAIN graph] /\ DepsKept
    BY <1>1 DEF TreeInv, TypeOK
  <2>2. ASSUME NEW f \in Planned, NEW d \in Parents(plan.deps, f)
        PROVE  rep[d] \in Parents(graph, rep[f])
    BY <2>1, <2>2 DEF DepsKept, Parents, Planned
  <2> QED BY <2>1, <2>2 DEF ValidSchedule
<1>2. TreeInv => TreeIsSound
  BY <1>1 DEF TreeIsSound
<1> QED BY <1>2, FetchTreeInductive, PTL

-----------------------------------------------------------------------------
(* The tree of the scheduler.                                              *)

\* The calls that are still to be made, and those for one fetch that are done.
Made(inline) ==
    {c \in calls : c.inline = inline} \cup {Call({l.id}, l.path, inline) : l \in built[inline]}

\* They are all with inlining, or all without.
LEMMA MadeInline ==
    ASSUME NEW inline, NEW x \in Made(inline)
    PROVE  x.inline = inline
<1>1. CASE x \in calls /\ x.inline = inline
  BY <1>1
<1>2. CASE \E l \in built[inline] : x = Call({l.id}, l.path, inline)
  BY <1>2, CallFields
<1> QED BY <1>1, <1>2 DEF Made

\* One round of calls takes them on.
LEMMA ScheduleGoesOn ==
    ASSUME TypeOK, Acyclic(graph), Schedule, NEW inline \in BOOLEAN,
           SplitsUp(graph, Made(inline))
    PROVE  Made(inline)' = Onward(graph, Made(inline))
<1> DEFINE I == Made(inline)
           alone == {c \in calls : IsSingle(c) /\ c.inline = inline}
           more  == UNION {{d \in Subcalls(graph, c) : d.set # {}} :
                              c \in {c \in calls : ~IsSingle(c)}}
           of(l) == Call({l.id}, l.path, inline)
<1>1. DOMAIN graph \subseteq Nat /\ calls \subseteq [set : SUBSET Planned, path : Paths, inline : BOOLEAN]
  BY GraphIsFinite DEF TypeOK, CallsOK
<1>2. /\ calls' = more
      /\ built'[inline] = built[inline] \cup {Leaf(First(c.set), c.path) : c \in alone}
  BY DEF Schedule
<1>3. \A x \in I : IsCall(graph, x) /\ x.inline = inline
  <2>1. \A x \in I : IsCall(graph, x)
    BY DEF SplitsUp
  <2>2. \A x \in I : x.inline = inline
    BY MadeInline
  <2> QED BY <2>1, <2>2
<1>4. /\ \A c \in calls : c.inline = inline => c \in I
      /\ \A l \in built[inline] : of(l) \in I
      /\ \A x \in I : (x \in calls /\ x.inline = inline) \/ \E l \in built[inline] : x = of(l)
  BY CallFields DEF Made
<1>5. ASSUME NEW x \in I, NEW d \in InPlaceOf(graph, x)
      PROVE  d.inline = inline
  BY <1>3, SubcallsInline DEF InPlaceOf
<1>6. \A l \in built[inline] : InPlaceOf(graph, of(l)) = {of(l)}
  <2>1. \A l \in built[inline] : of(l).set = {l.id}
    BY CallFields
  <2>2. \A l \in built[inline] : IsSingle(of(l))
    <3> HIDE DEF of
    <3> QED BY <2>1 DEF IsSingle
  <2> QED BY <2>2 DEF InPlaceOf
<1>7. ASSUME NEW c \in alone
      PROVE  of(Leaf(First(c.set), c.path)) = c /\ InPlaceOf(graph, c) = {c} /\ c \in I
  <2>1. PICK f \in c.set : c.set = {f}
    BY DEF IsSingle
  <2>2. First(c.set) = f
    <3>1. f \in Nat /\ c \in I
      BY <1>1, <1>3, <1>4 DEF IsCall
    <3> QED BY <2>1, <3>1, FirstIsLeast
  <2>3. Leaf(First(c.set), c.path).id = f /\ Leaf(First(c.set), c.path).path = c.path
    BY <2>2 DEF Leaf
  <2>4. c = [set |-> c.set, path |-> c.path, inline |-> c.inline] /\ c.inline = inline
    BY <1>1
  <2>5. InPlaceOf(graph, c) = {c} /\ c \in I
    BY <1>4, <1>7 DEF InPlaceOf
  <2> QED BY <2>1, <2>3, <2>4, <2>5 DEF Call
<1>8. Made(inline)' = {d \in more : d.inline = inline} \cup {of(l) : l \in built'[inline]}
  BY <1>2 DEF Made
<1>9. ASSUME NEW y \in Made(inline)' PROVE y \in Onward(graph, I)
  <2>1. CASE y \in more /\ y.inline = inline
    <3>1. PICK c \in calls : ~IsSingle(c) /\ y \in Subcalls(graph, c) /\ y.set # {}
      BY <2>1
    <3>2. c \in I /\ y \in InPlaceOf(graph, c)
      BY <1>4, <2>1, <3>1, SubcallsInline DEF InPlaceOf
    <3> QED BY <3>2 DEF Onward
  <2>2. CASE \E l \in built[inline] : y = of(l)
    <3>1. y \in I /\ y \in InPlaceOf(graph, y)
      BY <1>4, <1>6, <2>2
    <3> QED BY <3>1 DEF Onward
  <2>3. CASE \E c \in alone : y = of(Leaf(First(c.set), c.path))
    <3>1. y \in I /\ y \in InPlaceOf(graph, y)
      BY <1>7, <2>3
    <3> QED BY <3>1 DEF Onward
  <2>4. \/ y \in more /\ y.inline = inline
        \/ \E l \in built[inline] : y = of(l)
        \/ \E c \in alone : y = of(Leaf(First(c.set), c.path))
    <3> HIDE DEF more, of, alone
    <3> QED BY <1>2, <1>8, <1>9
  <2> QED BY <2>1, <2>2, <2>3, <2>4
<1>10. ASSUME NEW y \in Onward(graph, I) PROVE y \in Made(inline)'
  <2>1. PICK x \in I : y \in InPlaceOf(graph, x)
    BY DEF Onward
  <2>2. CASE \E l \in built[inline] : x = of(l)
    <3>1. PICK l \in built[inline] : x = of(l)
      BY <2>2
    <3>2. y = of(l) /\ l \in built'[inline]
      BY <1>2, <1>6, <2>1, <3>1
    <3> HIDE DEF more, of, alone
    <3> QED BY <1>8, <3>2
  <2>3. CASE x \in alone
    <3>1. y = of(Leaf(First(x.set), x.path)) /\ Leaf(First(x.set), x.path) \in built'[inline]
      BY <1>2, <1>7, <2>1, <2>3
    <3> HIDE DEF more, of, alone
    <3> QED BY <1>8, <3>1
  <2>4. CASE x \in calls /\ ~IsSingle(x)
    <3>1. y \in Subcalls(graph, x) /\ y.set # {}
      BY <2>1, <2>4 DEF InPlaceOf
    <3>2. y \in more
      BY <2>4, <3>1
    <3>3. y.inline = inline
      BY <1>5, <2>1
    <3> HIDE DEF more, of, alone
    <3> QED BY <1>8, <3>2, <3>3
  <2> QED BY <1>4, <2>2, <2>3, <2>4
<1> QED BY <1>9, <1>10

\* Paths that part at the root at a Parallel are not ordered.
LEMMA ApartAtRoot ==
    ASSUME NEW p \in Paths, NEW q \in Paths, 1 \in DOMAIN p, 1 \in DOMAIN q,
           p[1] # q[1], p[1][1] = "parallel"
    PROVE  ~Precedes(p, q)
<1> SUFFICES ASSUME Precedes(p, q) PROVE FALSE
  OBVIOUS
<1>1. PICK k \in DOMAIN p \cap DOMAIN q :
        /\ \A j \in 1..(k - 1) : p[j] = q[j]
        /\ p[k][1] = "sequence" /\ q[k][1] = "sequence" /\ p[k][2] < q[k][2]
  BY DEF Precedes
<1>2. k \in 1..Len(p) /\ Len(p) \in Nat
  BY DEF Paths
<1>3. k # 1
  BY <1>1
<1>4. 1 \in 1..(k - 1)
  BY <1>2, <1>3
<1> QED BY <1>1, <1>4

\* When all calls are made, a tree without inlining and one with it are built.
LEMMA BuiltAreTrees ==
    ASSUME TypeOK, Acyclic(graph), calls = {}, NEW inline \in BOOLEAN,
           SplitsUp(graph, Made(inline))
    PROVE  /\ \A l \in built[inline] :
                /\ l.id \in DOMAIN graph /\ l.path \in Paths /\ 1 \in DOMAIN l.path
                /\ \E C \in WeaklyConnectedComponents(graph, DOMAIN graph) :
                     l.id \in C /\ l.path[1] = <<"parallel", First(C)>>
                /\ \A d \in Parents(graph, l.id) :
                     \E k \in built[inline] : k.id = d /\ Precedes(k.path, l.path)
           /\ \A f \in DOMAIN graph : \E l \in built[inline] : l.id = f
           /\ \A k, l \in built[inline] : k.id = l.id => k = l
<1> DEFINE of(l) == Call({l.id}, l.path, inline)
<1>1. Made(inline) = {of(l) : l \in built[inline]}
  BY DEF Made
<1>2. \A l : of(l).set = {l.id} /\ of(l).path = l.path
  BY CallFields
<1>3. built[inline] \subseteq [id : Planned, path : Paths]
  BY DEF TypeOK, CallsOK
<1> HIDE DEF of
<1>4. /\ \A l \in built[inline] : of(l) \in Made(inline)
      /\ \A x \in Made(inline) : \E l \in built[inline] : x = of(l)
  BY <1>1
<1>5. \A f \in DOMAIN graph : \E l \in built[inline] : l.id = f
  <2> SUFFICES ASSUME NEW f \in DOMAIN graph PROVE \E l \in built[inline] : l.id = f
    OBVIOUS
  <2>1. PICK x \in Made(inline) : f \in x.set
    BY DEF SplitsUp
  <2> QED BY <1>2, <1>4, <2>1
<1>6. ASSUME NEW k \in built[inline], NEW l \in built[inline], k.id = l.id
      PROVE  k = l
  <2>1. of(k) = of(l)
    <3>1. \A x, y \in Made(inline) : x # y => x.set \cap y.set = {}
      BY DEF SplitsUp
    <3>2. k.id \in of(k).set \cap of(l).set
      BY <1>2, <1>6
    <3>3. of(k) \in Made(inline) /\ of(l) \in Made(inline)
      BY <1>4, <1>6
    <3> QED BY <3>1, <3>2, <3>3
  <2>2. k.path = l.path
    BY <1>2, <2>1
  <2> QED BY <1>3, <1>6, <2>2
<1>7. ASSUME NEW l \in built[inline], NEW d \in Parents(graph, l.id)
      PROVE  \E k \in built[inline] : k.id = d /\ Precedes(k.path, l.path)
  <2>1. l.id \in of(l).set /\ of(l) \in Made(inline)
    BY <1>2, <1>4
  <2>2. l.id \in DOMAIN graph
    BY <2>1 DEF SplitsUp, IsCall
  <2>3. d # l.id
    <3>1. \E f \in {l.id} : graph[f] \cap {l.id} = {}
      BY <2>2 DEF Acyclic
    <3> QED BY <1>7, <3>1 DEF Parents
  <2>4. d \notin of(l).set
    BY <1>2, <2>3
  <2>5. PICK y \in Made(inline) : d \in y.set /\ Precedes(y.path, of(l).path)
    BY <1>7, <2>1, <2>4 DEF SplitsUp
  <2>6. PICK k \in built[inline] : y = of(k)
    BY <1>4
  <2> QED BY <1>2, <2>5, <2>6
<1>8. ASSUME NEW l \in built[inline]
      PROVE  /\ l.id \in DOMAIN graph /\ l.path \in Paths /\ 1 \in DOMAIN l.path
             /\ \E C \in WeaklyConnectedComponents(graph, DOMAIN graph) :
                  l.id \in C /\ l.path[1] = <<"parallel", First(C)>>
  <2>1. IsCall(graph, of(l)) /\ 1 \in DOMAIN of(l).path
    BY <1>4 DEF SplitsUp
  <2>2. PICK C \in WeaklyConnectedComponents(graph, DOMAIN graph) :
          of(l).set \subseteq C /\ of(l).path[1] = <<"parallel", First(C)>>
    BY <1>4 DEF SplitsUp
  <2> QED BY <1>2, <2>1, <2>2 DEF IsCall
<1> QED BY <1>5, <1>6, <1>7, <1>8

\* With inlining?
Inlined(C) == Dominates(PartOf(built[TRUE], C), PartOf(built[FALSE], C))

\* The scheduler's tree has the fetches of each component from one of the trees.
LEMMA ScheduleTreeParts ==
    /\ \A a \in ScheduleTree :
         \E C \in WeaklyConnectedComponents(graph, DOMAIN graph) :
             a.id \in C /\ a \in built[Inlined(C)]
    /\ \A C \in WeaklyConnectedComponents(graph, DOMAIN graph) :
         \A a \in built[Inlined(C)] : a.id \in C => a \in ScheduleTree
    /\ \A C : Inlined(C) \in BOOLEAN
<1> DEFINE part(C) ==
        LET inlined == PartOf(built[TRUE], C)
            barrier == PartOf(built[FALSE], C)
        IN IF Dominates(inlined, barrier) THEN inlined ELSE barrier
<1>1. ScheduleTree = UNION {part(C) : C \in WeaklyConnectedComponents(graph, DOMAIN graph)}
  BY DEF ScheduleTree
<1>2. \A C : Inlined(C) \in BOOLEAN
  BY DEF Inlined, Dominates
<1>3. \A C : part(C) = {a \in built[Inlined(C)] : a.id \in C}
  <2> SUFFICES ASSUME NEW C PROVE part(C) = {a \in built[Inlined(C)] : a.id \in C}
    OBVIOUS
  <2>1. CASE Dominates(PartOf(built[TRUE], C), PartOf(built[FALSE], C))
    BY <2>1 DEF Inlined, PartOf
  <2>2. CASE ~Dominates(PartOf(built[TRUE], C), PartOf(built[FALSE], C))
    <3>1. Inlined(C) = FALSE
      BY <1>2, <2>2 DEF Inlined
    <3> QED BY <2>2, <3>1 DEF PartOf
  <2> QED BY <2>1, <2>2
<1> HIDE DEF part
<1>4. \A a \in ScheduleTree : \E C \in WeaklyConnectedComponents(graph, DOMAIN graph) : a \in part(C)
  BY <1>1
<1>5. \A C \in WeaklyConnectedComponents(graph, DOMAIN graph) : part(C) \subseteq ScheduleTree
  BY <1>1
<1> QED BY <1>2, <1>3, <1>4, <1>5

\* It is valid.
LEMMA ScheduleTreeIsValid ==
    ASSUME TypeOK, Acyclic(graph), calls = {},
           \A inline \in BOOLEAN : SplitsUp(graph, Made(inline))
    PROVE  ValidSchedule(ScheduleTree, graph)
<1> DEFINE parts == WeaklyConnectedComponents(graph, DOMAIN graph)
<1>1. /\ \A a \in ScheduleTree : \E C \in parts : a.id \in C /\ a \in built[Inlined(C)]
      /\ \A C \in parts : \A a \in built[Inlined(C)] : a.id \in C => a \in ScheduleTree
      /\ \A C : Inlined(C) \in BOOLEAN
  BY ScheduleTreeParts
<1>2. ASSUME NEW C
      PROVE  /\ \A l \in built[Inlined(C)] :
                  /\ l.id \in DOMAIN graph /\ l.path \in Paths
                  /\ \A d \in Parents(graph, l.id) :
                       \E k \in built[Inlined(C)] : k.id = d /\ Precedes(k.path, l.path)
             /\ \A f \in DOMAIN graph : \E l \in built[Inlined(C)] : l.id = f
             /\ \A k, l \in built[Inlined(C)] : k.id = l.id => k = l
  <2>1. Inlined(C) \in BOOLEAN /\ SplitsUp(graph, Made(Inlined(C)))
    BY <1>1
  <2> QED BY <2>1, BuiltAreTrees
<1>3. /\ \A f \in DOMAIN graph : \E P \in parts : f \in P
      /\ \A P \in parts : P # {} /\ P \subseteq DOMAIN graph
                            /\ \A f \in P : graph[f] \cap DOMAIN graph \subseteq P
      /\ \A P, Q \in parts : P \cap Q # {} => P = Q
  BY ComponentsCover, ComponentsAreApart
<1> HIDE DEF parts
<1>4. \A leaf \in ScheduleTree : leaf.path \in Paths
  BY <1>1, <1>2
<1>5. FetchIDs(ScheduleTree) = DOMAIN graph
  <2>1. FetchIDs(ScheduleTree) \subseteq DOMAIN graph
    BY <1>1, <1>2 DEF FetchIDs
  <2>2. ASSUME NEW f \in DOMAIN graph PROVE f \in FetchIDs(ScheduleTree)
    <3>1. PICK C \in parts : f \in C
      BY <1>3
    <3>2. PICK l \in built[Inlined(C)] : l.id = f
      BY <1>2
    <3> QED BY <1>1, <3>1, <3>2 DEF FetchIDs
  <2> QED BY <2>1, <2>2
<1>6. ASSUME NEW a \in ScheduleTree, NEW b \in ScheduleTree, a.id = b.id PROVE a = b
  <2>1. PICK C \in parts : a.id \in C /\ a \in built[Inlined(C)]
    BY <1>1
  <2>2. PICK D \in parts : b.id \in D /\ b \in built[Inlined(D)]
    BY <1>1
  <2>3. C = D
    BY <1>3, <1>6, <2>1, <2>2
  <2> QED BY <1>2, <1>6, <2>1, <2>2, <2>3
<1>7. ASSUME NEW f \in DOMAIN graph, NEW d \in Parents(graph, f)
      PROVE  d \in Predecessors(ScheduleTree, f)
  <2>1. PICK C \in parts : f \in C
    BY <1>3
  <2>2. PICK l \in built[Inlined(C)] : l.id = f
    BY <1>2
  <2>3. PICK k \in built[Inlined(C)] : k.id = d /\ Precedes(k.path, l.path)
    BY <1>2, <1>7, <2>2
  <2>4. d \in C
    BY <1>3, <1>7, <2>1 DEF Parents
  <2>5. k \in ScheduleTree /\ l \in ScheduleTree
    BY <1>1, <2>1, <2>2, <2>3, <2>4
  <2> QED BY <1>5, <1>7, <2>2, <2>3, <2>5 DEF Predecessors, Parents
<1> QED BY <1>4, <1>5, <1>6, <1>7 DEF ValidSchedule

\* In the waves, a fetch waits for those of all earlier ones.
LEMMA EarlierWavesFirst ==
    ASSUME NEW ws \in Seq(SUBSET Nat), NEW i \in DOMAIN ws, NEW j \in DOMAIN ws, i < j,
           NEW e \in ws[i], NEW f \in ws[j]
    PROVE  e \in Predecessors(TreeInWaves(ws), f)
<1> DEFINE path(k, x) == << <<"sequence", k>>, <<"parallel", x>> >>
<1>1. ASSUME NEW k \in DOMAIN ws, NEW x \in ws[k] PROVE Leaf(x, path(k, x)) \in TreeInWaves(ws)
  <2>1. Leaf(x, path(k, x)) \in {Leaf(y, path(k, y)) : y \in ws[k]}
    OBVIOUS
  <2> QED BY <2>1 DEF TreeInWaves
<1>2. Precedes(path(i, e), path(j, f))
  <2>1. 1 \in DOMAIN path(i, e) \cap DOMAIN path(j, f)
    OBVIOUS
  <2>2. path(i, e)[1] = <<"sequence", i>> /\ path(j, f)[1] = <<"sequence", j>>
    OBVIOUS
  <2>3. /\ path(i, e)[1][1] = "sequence" /\ path(j, f)[1][1] = "sequence"
        /\ path(i, e)[1][2] < path(j, f)[1][2]
    BY <2>2
  <2>4. \A m \in 1..(1 - 1) : path(i, e)[m] = path(j, f)[m]
    OBVIOUS
  <2> HIDE DEF path
  <2> QED BY <2>1, <2>3, <2>4 DEF Precedes
<1> HIDE DEF path
<1>3. /\ Leaf(e, path(i, e)).id = e /\ Leaf(e, path(i, e)).path = path(i, e)
      /\ Leaf(f, path(j, f)).id = f /\ Leaf(f, path(j, f)).path = path(j, f)
  BY DEF Leaf
<1>4. e \in FetchIDs(TreeInWaves(ws))
  BY <1>1, <1>3 DEF FetchIDs
<1> QED BY <1>1, <1>2, <1>3, <1>4 DEF Predecessors

\* The call for what is built.
LEMMA BuiltIsMade ==
    ASSUME NEW inline, NEW l \in built[inline]
    PROVE  \E x \in Made(inline) : x.set = {l.id} /\ x.path = l.path
<1> DEFINE x == Call({l.id}, l.path, inline)
<1>1. x \in Made(inline)
  BY DEF Made
<1>2. x.set = {l.id} /\ x.path = l.path
  BY CallFields
<1> HIDE DEF x
<1> QED BY <1>1, <1>2

\* Without inlining a fetch waits for fetches of earlier waves only.
LEMMA BarrierInWaves ==
    ASSUME TypeOK, InWaves(waves, Made(FALSE)),
           NEW k \in built[FALSE], NEW l \in built[FALSE], Precedes(k.path, l.path),
           NEW i \in DOMAIN waves, k.id \in waves[i], NEW j \in DOMAIN waves, l.id \in waves[j]
    PROVE  i < j
<1>1. PICK y \in Made(FALSE) : y.set = {k.id} /\ y.path = k.path
  BY BuiltIsMade
<1>2. PICK x \in Made(FALSE) : x.set = {l.id} /\ x.path = l.path
  BY BuiltIsMade
<1>3. PICK n \in Nat \ {0} :
        /\ \A m \in DOMAIN waves : \A f \in x.set : f \in waves[m] => n <= m
        /\ \A z \in Made(FALSE) : Precedes(z.path, x.path) =>
             \A m \in DOMAIN waves : \A f \in z.set : f \in waves[m] => m < n
  BY DEF InWaves
<1>4. i < n /\ n <= j
  BY <1>1, <1>2, <1>3
<1>5. i \in Int /\ j \in Int /\ n \in Int
  BY <1>3 DEF TypeOK
<1> QED BY <1>4, <1>5

\* In it no fetch waits for one that it does not wait for in the waves.
LEMMA ScheduleTreeDominates ==
    ASSUME TypeOK, Acyclic(graph), calls = {},
           \A inline \in BOOLEAN : SplitsUp(graph, Made(inline)),
           Layered(graph, waves), Covers(waves, graph), InWaves(waves, Made(FALSE))
    PROVE  Dominates(ScheduleTree, TreeInWaves(waves))
<1> DEFINE parts == WeaklyConnectedComponents(graph, DOMAIN graph)
<1>1. /\ \A a \in ScheduleTree : \E C \in parts : a.id \in C /\ a \in built[Inlined(C)]
      /\ \A C : Inlined(C) \in BOOLEAN
  BY ScheduleTreeParts
<1>2. waves \in Seq(SUBSET DOMAIN graph) /\ DOMAIN graph \subseteq Nat /\ waves \in Seq(SUBSET Nat)
  <2>1. waves \in Seq(SUBSET DOMAIN graph) /\ DOMAIN graph \subseteq Nat
    BY GraphIsFinite DEF TypeOK
  <2> QED BY <2>1
<1>3. /\ ValidSchedule(ScheduleTree, graph)
      /\ ValidSchedule(TreeInWaves(waves), graph)
  BY <1>2, ScheduleTreeIsValid, WavesAreValid
<1>4. \A b \in BOOLEAN : \A l \in built[b] :
          /\ l.id \in DOMAIN graph /\ l.path \in Paths /\ 1 \in DOMAIN l.path
          /\ \E C \in parts : l.id \in C /\ l.path[1] = <<"parallel", First(C)>>
  BY BuiltAreTrees
<1>5. /\ \A P \in parts : First(P) \in P
      /\ \A P, Q \in parts : P \cap Q # {} => P = Q
  <2>1. \A P \in parts : P # {} /\ P \subseteq Nat
    BY <1>2, ComponentsCover
  <2> QED BY <2>1, FirstIsLeast, ComponentsAreApart
<1> HIDE DEF parts
<1>6. ASSUME NEW k \in built[FALSE], NEW l \in built[FALSE], Precedes(k.path, l.path)
      PROVE  k.id \in Predecessors(TreeInWaves(waves), l.id)
  <2>1. PICK i \in DOMAIN waves : k.id \in waves[i]
    BY <1>4 DEF Covers
  <2>2. PICK j \in DOMAIN waves : l.id \in waves[j]
    BY <1>4 DEF Covers
  <2>3. i < j
    BY <1>6, <2>1, <2>2, BarrierInWaves
  <2> QED BY <1>2, <2>1, <2>2, <2>3, EarlierWavesFirst
<1>7. ASSUME NEW f \in DOMAIN graph, NEW e \in Predecessors(ScheduleTree, f)
      PROVE  e \in Predecessors(TreeInWaves(waves), f)
  <2>1. PICK a \in ScheduleTree, b \in ScheduleTree : a.id = e /\ b.id = f /\ Precedes(a.path, b.path)
    BY <1>7 DEF Predecessors
  <2>2. PICK C \in parts : a.id \in C /\ a \in built[Inlined(C)]
    BY <1>1
  <2>3. PICK D \in parts : b.id \in D /\ b \in built[Inlined(D)]
    BY <1>1
  <2>4. C = D
    <3>1. a.path \in Paths /\ b.path \in Paths /\ 1 \in DOMAIN a.path /\ 1 \in DOMAIN b.path
      BY <1>1, <1>4, <2>2, <2>3
    <3>2. a.path[1] = <<"parallel", First(C)>> /\ b.path[1] = <<"parallel", First(D)>>
      BY <1>1, <1>4, <1>5, <2>2, <2>3
    <3>3. a.path[1] = b.path[1]
      BY <2>1, <3>1, <3>2, ApartAtRoot
    <3>4. First(C) = First(D)
      BY <3>2, <3>3
    <3> QED BY <1>5, <3>4
  <2>5. CASE Inlined(C)
    <3>1. a \in PartOf(built[TRUE], C) /\ b \in PartOf(built[TRUE], C)
      <4>1. Inlined(C) = TRUE
        BY <1>1, <2>5
      <4> QED BY <2>2, <2>3, <2>4, <4>1 DEF PartOf
    <3>2. e \in Predecessors(PartOf(built[TRUE], C), f) /\ f \in FetchIDs(PartOf(built[TRUE], C))
      BY <2>1, <3>1 DEF Predecessors, FetchIDs
    <3>3. e \in Predecessors(PartOf(built[FALSE], C), f)
      BY <2>5, <3>2 DEF Inlined, Dominates
    <3>4. PICK k \in built[FALSE], l \in built[FALSE] : k.id = e /\ l.id = f /\ Precedes(k.path, l.path)
      BY <3>3 DEF Predecessors, PartOf
    <3> QED BY <1>6, <3>4
  <2>6. CASE ~Inlined(C)
    <3>1. Inlined(C) = FALSE
      BY <1>1, <2>6
    <3> QED BY <1>6, <2>1, <2>2, <2>3, <2>4, <3>1
  <2> QED BY <2>5, <2>6
<1> QED BY <1>3, <1>7 DEF Dominates, ValidSchedule

\* The waves make the most of what is provided, and the calls of schedule are in
\* step with them.
ScheduleInv ==
    /\ TreeInv
    /\ phase \in {"flat", "waves", "schedule"} => \A inline \in BOOLEAN : built[inline] = {}
    /\ phase = "waves" => Saturated(graph, waves)
    /\ phase \in {"schedule", "build"} /\ plan.multi =>
         /\ Layered(graph, waves) /\ Covers(waves, graph)
         /\ Inside(graph) => Tight(graph, waves)
    /\ phase = "build" =>
         /\ \A inline \in BOOLEAN : SplitsUp(graph, Made(inline))
         /\ plan.multi /\ Inside(graph) => InWaves(waves, Made(FALSE))

\* A wave takes all fetches that are ready.
LEMMA NextWaveSaturated ==
    ASSUME TreeInv, Saturated(graph, waves), NextWave
    PROVE  Saturated(graph, waves')
<1>1. PICK f \in Rest :
        waves' = Append(waves, {f} \cup {e \in Rest : graph[e] \subseteq Provided})
  BY DEF NextWave
<1> DEFINE wave == {f} \cup {e \in Rest : graph[e] \subseteq Provided}
           n    == Len(waves)
<1>2. waves \in Seq(SUBSET DOMAIN graph) /\ wave \subseteq DOMAIN graph
  BY DEF TreeInv, TypeOK, Rest
<1>3. /\ n \in Nat /\ DOMAIN waves = 1..n /\ DOMAIN waves' = 1..(n + 1)
      /\ \A i \in 1..n : waves'[i] = waves[i]
      /\ waves'[n + 1] = wave
  <2> HIDE DEF wave
  <2> QED BY <1>1, <1>2 DEF wave
<1>4. Provided = UNION {waves'[j] : j \in 1..n}
  BY <1>3 DEF Provided
<1>5. ASSUME NEW i \in 1..n, NEW e \in DOMAIN graph,
             graph[e] \subseteq UNION {waves'[j] : j \in 1..(i - 1)}
      PROVE  \E j \in 1..i : e \in waves'[j]
  <2>1. \A j \in 1..i : j \in 1..n /\ waves'[j] = waves[j]
    BY <1>3
  <2>2. \A j \in 1..(i - 1) : j \in 1..i
    BY <1>3
  <2>3. graph[e] \subseteq UNION {waves[j] : j \in 1..(i - 1)}
    BY <1>5, <2>1, <2>2
  <2>4. PICK j \in 1..i : e \in waves[j]
    BY <1>3, <2>3 DEF Saturated
  <2> QED BY <2>1, <2>4
<1>6. ASSUME NEW e \in DOMAIN graph, graph[e] \subseteq UNION {waves'[j] : j \in 1..n}
      PROVE  \E j \in 1..(n + 1) : e \in waves'[j]
  <2>1. CASE e \in Provided
    <3>1. PICK j \in 1..n : e \in waves[j]
      BY <1>3, <2>1 DEF Provided
    <3> QED BY <1>3, <3>1
  <2>2. CASE e \notin Provided
    <3>1. e \in wave
      BY <1>4, <1>6, <2>2 DEF Rest
    <3>2. n + 1 \in 1..(n + 1)
      BY <1>3
    <3> QED BY <1>3, <3>1, <3>2
  <2> QED BY <2>1, <2>2
<1> HIDE DEF wave
<1>7. ASSUME NEW i \in DOMAIN waves', NEW e \in DOMAIN graph,
             graph[e] \subseteq UNION {waves'[j] : j \in 1..(i - 1)}
      PROVE  \E j \in 1..i : e \in waves'[j]
  <2>1. CASE i \in 1..n
    BY <1>5, <1>7, <2>1
  <2>2. CASE i = n + 1
    <3>1. i - 1 = n
      BY <1>3, <2>2
    <3> QED BY <1>6, <1>7, <2>2, <3>1
  <2> QED BY <1>3, <2>1, <2>2
<1> QED BY <1>7 DEF Saturated

\* The calls for the components stand for the whole tree.
LEMMA FirstCallsAreMade ==
    ASSUME TreeInv, BuildScheduleTree, NEW inline \in BOOLEAN, built[inline] = {}
    PROVE  /\ SplitsUp(graph, Made(inline))'
           /\ InWaves(waves, Made(inline))'
<1> DEFINE parts == WeaklyConnectedComponents(graph, DOMAIN graph)
<1>1. /\ graph' = graph /\ waves' = waves /\ built'[inline] = {}
      /\ calls' = {Call(C, ToPart(C), b) : C \in parts, b \in BOOLEAN}
  BY DEF BuildScheduleTree, ToPart
<1> HIDE DEF parts
<1>2. Made(inline)' = {c \in calls' : c.inline = inline}
  <2>1. Made(inline)' = {c \in calls' : c.inline = inline}
                          \cup {Call({l.id}, l.path, inline) : l \in built'[inline]}
    BY DEF Made
  <2> QED BY <1>1, <2>1
<1>3. \A C \in parts, b \in BOOLEAN : Call(C, ToPart(C), b).inline = b
  BY CallFields
<1>4. Made(inline)' = {Call(C, ToPart(C), inline) : C \in parts}
  <2>1. ASSUME NEW c \in Made(inline)' PROVE c \in {Call(C, ToPart(C), inline) : C \in parts}
    <3>1. c \in calls' /\ c.inline = inline
      BY <1>2
    <3>2. PICK C \in parts, b \in BOOLEAN : c = Call(C, ToPart(C), b)
      BY <1>1, <3>1
    <3>3. b = inline
      BY <1>3, <3>1, <3>2
    <3> QED BY <3>2, <3>3
  <2>2. ASSUME NEW C \in parts PROVE Call(C, ToPart(C), inline) \in Made(inline)'
    <3>1. Call(C, ToPart(C), inline) \in calls'
      BY <1>1
    <3> QED BY <1>2, <1>3, <3>1
  <2> QED BY <2>1, <2>2
<1>5. DOMAIN graph \subseteq Nat /\ waves \in Seq(SUBSET DOMAIN graph)
  BY GraphIsFinite DEF TreeInv, TypeOK
<1> QED BY <1>1, <1>4, <1>5, FirstCallsSplitUp DEF parts

\* The waves, the calls and what is built, up to the tree of the scheduler.
LEMMA ScheduleStep ==
    ASSUME ScheduleInv, TreeInv', [Next]_vars PROVE ScheduleInv'
<1> USE DEF ScheduleInv
<1>1. CASE Deduplicate
  <2>1. /\ phase' = Organizing /\ plan' = plan /\ built' = built
        /\ waves' = <<>> /\ phase = "flat"
    BY <1>1 DEF Deduplicate, TreeInv, scheduling
  <2>2. Saturated(graph', waves')
    BY <2>1 DEF Saturated
  <2>3. phase' = "schedule" => ~plan'.multi
    BY <2>1 DEF Organizing
  <2> QED BY <2>1, <2>2, <2>3 DEF Organizing
<1>2. CASE NextWave
  <2>1. CASE phase = "waves"
    BY <1>2, <2>1, NextWaveSaturated DEF NextWave, scheduling
  <2>2. CASE phase = "fallback"
    BY <1>2, <2>2 DEF NextWave
  <2> QED BY <1>2, <2>1, <2>2 DEF NextWave
<1>3. CASE CreateMultiFetch
  <2>1. phase = "waves" /\ phase' \in {"schedule", "organized"} /\ built' = built
    BY <1>3 DEF CreateMultiFetch, scheduling
  <2> QED BY <1>3, <2>1, CreateMultiFetchTree
<1>4. CASE BuildScheduleTree
  <2>1. /\ phase = "schedule" /\ phase' = "build"
        /\ plan' = plan /\ graph' = graph /\ waves' = waves
    BY <1>4 DEF BuildScheduleTree
  <2>2. \A inline \in BOOLEAN : SplitsUp(graph, Made(inline))' /\ InWaves(waves, Made(inline))'
    BY <1>4, <2>1, FirstCallsAreMade
  <2>3. FALSE \in BOOLEAN
    OBVIOUS
  <2> QED BY <2>1, <2>2, <2>3
<1>5. CASE Schedule
  <2>1. /\ phase = "build" /\ phase' = "build"
        /\ plan' = plan /\ graph' = graph /\ waves' = waves
        /\ TypeOK /\ Acyclic(graph) /\ DOMAIN graph \subseteq Nat
        /\ waves \in Seq(SUBSET DOMAIN graph)
    BY <1>5, GraphIsFinite DEF Schedule, TreeInv, TypeOK
  <2>2. \A inline \in BOOLEAN : Made(inline)' = Onward(graph, Made(inline))
    BY <1>5, <2>1, ScheduleGoesOn
  <2>3. \A inline \in BOOLEAN : SplitsUp(graph', Made(inline)')
    BY <2>1, <2>2, OnwardSplitsUp
  <2>4. ASSUME plan.multi, Inside(graph) PROVE InWaves(waves', Made(FALSE)')
    <3>1. FALSE \in BOOLEAN /\ \A x \in Made(FALSE) : ~x.inline
      <4>1. \A x \in Made(FALSE) : x.inline = FALSE
        BY MadeInline
      <4> QED BY <4>1
    <3>2. InWaves(waves, Onward(graph, Made(FALSE)))
      BY <2>1, <2>4, <3>1, OnwardInWaves
    <3> QED BY <2>1, <2>2, <3>1, <3>2
  <2> QED BY <2>1, <2>3, <2>4
<1>6. CASE ScheduleFetches \/ FallBack
  <2>1. phase' \in {"organized", "fallback"}
    BY <1>6 DEF ScheduleFetches, FallBack
  <2> QED BY <2>1
<1>7. CASE Resolve
  <2>1. phase' \in {"walk", "returned"}
    BY <1>7 DEF Resolve, StartWalk, ReturnWalk, FetchStep, Prepare, Load, Record, Merge
  <2> QED BY <2>1
<1>8. CASE UNCHANGED vars
  <2>1. /\ UNCHANGED <<plan, phase, graph, waves, calls, built>>
    BY <1>8 DEF vars, scheduling
  <2> QED BY <2>1 DEF Made
<1> QED BY <1>1, <1>2, <1>3, <1>4, <1>5, <1>6, <1>7, <1>8 DEF Next, Postprocess

\* At every point of its making the tree of the scheduler puts each fetch behind
\* what it depends on and, without inlining, behind no more than the waves do.
THEOREM FetchScheduleInductive == Spec => []ScheduleInv
<1>1. ASSUME Init, TreeInv PROVE ScheduleInv
  BY <1>1 DEF Init, ScheduleInv
<1> QED BY <1>1, InitTree, ScheduleStep, FetchTreeInductive, PTL DEF Spec

\* When the scheduler has built its tree, for whatever plan, validateSchedule accepts
\* it; in a plan with merging, if no dependency leaves the tree, no fetch waits in it for
\* one that it does not wait for in the waves of createParallelNodes.
THEOREM FetchScheduleBest == Spec => []ScheduleIsBest
<1>1. ASSUME ScheduleInv, phase = "build", calls = {}
      PROVE  ValidSchedule(ScheduleTree, graph)
  BY <1>1, ScheduleTreeIsValid DEF ScheduleInv, TreeInv
<1>2. ASSUME ScheduleInv, phase = "build", calls = {}, plan.multi,
             \A f \in DOMAIN graph : graph[f] \subseteq DOMAIN graph
      PROVE  Dominates(ScheduleTree, TreeInWaves(waves))
  BY <1>2, ScheduleTreeDominates DEF ScheduleInv, TreeInv, Inside
<1>3. ScheduleInv => ScheduleIsBest
  BY <1>1, <1>2 DEF ScheduleIsBest
<1> QED BY <1>3, FetchScheduleInductive, PTL

\* A fallback was caused by a tree that the scheduler did not build.
FallbackHasCause == phase = "fallback" => \E t \in Schedules(graph) : ~ValidSchedule(t, graph)

\* scheduleFetches as it is in the repository never fails: organizeFetchTree builds the
\* waves again only after another tree was put in the place of the scheduler's, and
\* with no such trees (Schedules(graph) = {}) it never does.
THEOREM FallbackIsUnneeded == Spec => []FallbackHasCause
<1>1. ASSUME ScheduleInv, FallbackHasCause, [Next]_vars PROVE FallbackHasCause'
  <2>1. CASE ScheduleFetches
    <3>1. PICK t \in {ScheduleTree} \cup Schedules(graph) :
            IF ValidSchedule(t, graph) THEN phase' = "organized" ELSE phase' = "fallback"
      BY <2>1 DEF ScheduleFetches
    <3>2. ValidSchedule(ScheduleTree, graph)
      BY <1>1, <2>1, ScheduleTreeIsValid DEF ScheduleFetches, ScheduleInv, TreeInv
    <3>3. graph' = graph
      BY <2>1 DEF ScheduleFetches
    <3> QED BY <3>1, <3>2, <3>3 DEF FallbackHasCause
  <2>2. CASE ~ScheduleFetches
    <3>1. phase' = "fallback" => phase = "fallback" /\ graph' = graph
      BY <1>1, <2>2 DEF Next, Postprocess, Resolve, Deduplicate, Organizing, NextWave,
            CreateMultiFetch, BuildScheduleTree, Schedule, FallBack, StartWalk, ReturnWalk,
            FetchStep, Prepare, Load, Record, Merge, vars
    <3> QED BY <1>1, <3>1 DEF FallbackHasCause
  <2> QED BY <2>1, <2>2
<1>2. Init => FallbackHasCause
  BY DEF Init, FallbackHasCause
<1> QED BY <1>1, <1>2, FetchScheduleInductive, PTL DEF Spec

-----------------------------------------------------------------------------
(* The walk.                                                                *)

\* A fetch is prepared after all that the tree puts before it have ended well, and
\* the walk returns when no fetch is on its way any more.
Waits ==
    \A f \in DOMAIN graph :
        /\ status[f] # "idle" => Started(f)
        /\ phase = "returned" /\ Started(f) => status[f] \in Ended

\* Errors are recorded where they happen and where they make a fetch be skipped.
Spreads ==
    \A f \in DOMAIN graph :
        /\ status[f] = "skipped" => f \in errored /\ Parents(graph, f) \cap errored # {}
        /\ status[f] \notin {"idle", "skipped"} => graph[f] \cap errored = {}
        /\ f \in errored => status[f] \in {"loaded", "merged", "skipped"}

WalkInv ==
    /\ TreeInv
    /\ phase \in {"walk", "returned"} => Waits /\ Spreads

\* The dependencies of a fetch that was prepared have ended well.
LEMMA ParentsEnded ==
    ASSUME ValidSchedule(tree, graph), Waits,
           NEW f \in DOMAIN graph, status[f] # "idle", NEW d \in Parents(graph, f)
    PROVE  d \in DOMAIN graph /\ status[d] \in {"merged", "skipped"}
BY DEF ValidSchedule, Waits, Started, Parents

\* A step of one fetch disturbs neither what others waited for nor why they were
\* skipped: whoever is past preparing has all its predecessors behind it.
LEMMA FetchStepWalk ==
    ASSUME WalkInv, NEW f \in DOMAIN graph, FetchStep(f) PROVE Waits' /\ Spreads'
<1>1. TypeOK /\ ValidSchedule(tree, graph)
  BY FetchStepStatus DEF WalkInv, TreeInv
<1>2. Waits /\ Spreads /\ errored \subseteq DOMAIN graph /\ graph' = graph
  BY <1>1, FetchStepStatus DEF WalkInv, TypeOK
<1>3. /\ \A e \in DOMAIN graph \ {f} : status'[e] = status[e]
      /\ status[f] \in {"idle", "load", "error", "loaded"} /\ status'[f] # "idle"
      /\ status[f] = "idle" => Started(f)
  BY <1>1, FetchStepStatus
<1>4. Waits'
  <2>1. phase' = "walk" /\ tree' = tree
    BY <1>1, FetchStepStatus
  <2>2. FetchIDs(tree) = DOMAIN graph
    BY <1>1 DEF ValidSchedule
  <2> SUFFICES ASSUME NEW e \in DOMAIN graph, status'[e] # "idle",
                      NEW d \in Predecessors(tree, e)
               PROVE  status'[d] \in {"merged", "skipped"}
    BY <1>2, <2>1 DEF Waits, Started
  <2>3. status[d] \in {"merged", "skipped"}
    <3>1. Started(e)
      BY <1>2, <1>3 DEF Waits
    <3> QED BY <3>1 DEF Started
  <2>4. d # f /\ d \in DOMAIN graph
    BY <1>3, <2>2, <2>3 DEF Predecessors
  <2> QED BY <1>3, <2>3, <2>4
<1>5. Spreads'
  <2>1. ASSUME NEW e \in DOMAIN graph, status[e] # "idle" PROVE f \notin graph[e]
    BY <1>1, <1>2, <1>3, <2>1, ParentsEnded DEF Parents
  <2> SUFFICES ASSUME NEW e \in DOMAIN graph
               PROVE  /\ status'[e] = "skipped" =>
                            e \in errored' /\ Parents(graph, e) \cap errored' # {}
                      /\ status'[e] \notin {"idle", "skipped"} => graph[e] \cap errored' = {}
                      /\ e \in errored' => status'[e] \in {"loaded", "merged", "skipped"}
    BY <1>2 DEF Spreads
  <2>2. errored' \in {errored, errored \cup {f}}
    BY <1>1, FetchStepStatus
  <2>3. CASE e # f
    BY <1>2, <1>3, <2>1, <2>2, <2>3 DEF Spreads
  <2>4. CASE e = f
    <3>1. CASE status[f] = "idle" /\ graph[f] \cap errored # {}
      BY <1>1, <1>2, <2>4, <3>1, FetchStepStatus DEF Parents
    <3>2. CASE status[f] = "idle" /\ graph[f] \cap errored = {}
      BY <1>1, <1>2, <2>4, <3>2, FetchStepStatus DEF Spreads
    <3>3. CASE status[f] = "load"
      BY <1>1, <1>2, <2>4, <3>3, FetchStepStatus DEF Spreads
    <3>4. CASE status[f] = "error"
      <4>1. f \notin graph[f]
        BY <2>1, <3>4
      <4> QED BY <1>1, <1>2, <2>4, <3>4, <4>1, FetchStepStatus DEF Spreads
    <3>5. CASE status[f] = "loaded"
      BY <1>1, <1>2, <2>4, <3>5, FetchStepStatus DEF Spreads
    <3> QED BY <1>3, <3>1, <3>2, <3>3, <3>4, <3>5
  <2> QED BY <2>3, <2>4
<1> QED BY <1>4, <1>5

\* In every walk of every plan fetches wait for their dependencies, and errors
\* are where they happened or below.
THEOREM FetchWalkInductive == Spec => []WalkInv
<1>1. Init => WalkInv
  BY InitTree DEF Init, WalkInv
<1>2. ASSUME TreeInv', WalkInv, [Next]_vars PROVE WalkInv'
  <2>1. CASE Postprocess
    <3>1. phase' \notin {"walk", "returned"}
      BY <2>1 DEF Postprocess, Deduplicate, Organizing, NextWave, CreateMultiFetch,
                  BuildScheduleTree, Schedule, ScheduleFetches, FallBack
    <3> QED BY <1>2, <3>1 DEF WalkInv
  <2>2. CASE StartWalk
    <3>1. errored' = {} /\ graph' = graph /\ \A f \in DOMAIN graph : status'[f] = "idle"
      BY <1>2, <2>2 DEF StartWalk, WalkInv, TreeInv
    <3>2. phase' = "walk"
      BY <2>2 DEF StartWalk
    <3> QED BY <1>2, <3>1, <3>2 DEF WalkInv, Waits, Spreads
  <2>3. CASE ReturnWalk
    BY <1>2, <2>3 DEF ReturnWalk, WalkInv, Waits, Started, Spreads
  <2>4. CASE \E f \in DOMAIN graph : FetchStep(f)
    BY <1>2, <2>4, FetchStepWalk DEF WalkInv
  <2>5. CASE UNCHANGED vars
    BY <1>2, <2>5 DEF vars, WalkInv, Waits, Started, Spreads
  <2> QED BY <1>2, <2>1, <2>2, <2>3, <2>4, <2>5 DEF Next, Resolve
<1> QED BY <1>1, <1>2, FetchTreeInductive, PTL DEF Spec

\* The fetch that does the work of a planned one starts after those that do the
\* work of its dependencies were merged or skipped, for every plan, every
\* scheduler and every interleaving of the goroutines of the walk.
THEOREM FetchWaits == Spec => []WaitsForDependencies
<1>1. ASSUME WalkInv, phase \in {"walk", "returned"}, NEW f \in Planned,
             status[rep[f]] # "idle", NEW d \in Parents(plan.deps, f)
      PROVE  status[rep[d]] \in {"merged", "skipped"}
  <2>1. rep[f] \in DOMAIN graph /\ rep[d] \in Parents(graph, rep[f])
    BY <1>1 DEF WalkInv, TreeInv, TypeOK, DepsKept, Parents, Planned
  <2> QED BY <1>1, <2>1, ParentsEnded DEF WalkInv, TreeInv
<1>2. WalkInv => WaitsForDependencies
  BY <1>1 DEF WaitsForDependencies
<1> QED BY <1>2, FetchWalkInductive, PTL

\* What a fetch that is sent depends on, at any distance, was merged without error.
LEMMA SentIsClean ==
    ASSUME WalkInv, phase \in {"walk", "returned"},
           NEW f \in DOMAIN graph, status[f] \notin {"idle", "skipped"}
    PROVE  DependsOn(graph, f) \cap errored = {}
<1> DEFINE S == {d \in Mentioned(graph) : d \notin errored
                                            /\ (d \in DOMAIN graph => status[d] = "merged")}
<1>1. ASSUME NEW e \in DOMAIN graph, status[e] \notin {"idle", "skipped"}
      PROVE  graph[e] \subseteq S
  <2> SUFFICES ASSUME NEW d \in graph[e] PROVE d \in S
    OBVIOUS
  <2>1. d \in Mentioned(graph) /\ d \notin errored
    BY <1>1 DEF WalkInv, Spreads, Mentioned
  <2>2. ASSUME d \in DOMAIN graph PROVE status[d] = "merged"
    <3>1. status[d] \in {"merged", "skipped"}
      BY <1>1, <2>2, ParentsEnded DEF WalkInv, TreeInv, Parents
    <3> QED BY <2>1, <2>2, <3>1 DEF WalkInv, Spreads
  <2> QED BY <2>1, <2>2
<1>2. Closed(graph, S)
  BY <1>1 DEF Closed
<1>3. DependsOn(graph, f) \subseteq S
  BY <1>1, <1>2, DependsOnLeast
<1> QED BY <1>3

\* A fetch is skipped because of one it depends on that was sent and failed.
LEMMA SkippedHasCause ==
    ASSUME WalkInv, phase \in {"walk", "returned"},
           NEW f \in DOMAIN graph, status[f] = "skipped"
    PROVE  \E d \in DependsOn(graph, f) : d \in errored /\ status[d] = "merged"
<1> DEFINE B == {x \in DOMAIN graph : x \in DependsOn(graph, f) \cup {f}
                                       /\ status[x] = "skipped"}
<1>1. Acyclic(graph) /\ Waits /\ Spreads /\ ValidSchedule(tree, graph)
  BY DEF WalkInv, TreeInv
<1>2. PICK x \in B : graph[x] \cap B = {}
  BY <1>1 DEF Acyclic
<1>3. PICK y \in Parents(graph, x) : y \in errored
  BY <1>1, <1>2 DEF Spreads
<1>4. y \in DependsOn(graph, f)
  BY <1>2, <1>3, DependsOnLeast DEF Closed, Parents
<1>5. y \notin B
  BY <1>2, <1>3 DEF Parents
<1>6. status[y] = "merged"
  BY <1>1, <1>2, <1>3, <1>4, <1>5, ParentsEnded DEF Parents
<1> QED BY <1>3, <1>4, <1>6

\* No fetch is sent to its subgraph when something it depends on, at any distance,
\* is errored, and none is skipped without such a cause.
THEOREM FetchErrors == Spec => []ErrorsSpreadDown
<1>1. ASSUME WalkInv, phase \in {"walk", "returned"}
      PROVE  /\ \A f \in DOMAIN graph : status[f] \in {"load", "loaded"} =>
                   DependsOn(graph, f) \cap errored = {}
             /\ \A f \in errored : status[f] = "skipped" =>
                   \E d \in DependsOn(graph, f) : d \in errored /\ status[d] = "merged"
  <2>1. errored \subseteq DOMAIN graph
    BY <1>1 DEF WalkInv, TreeInv, TypeOK
  <2>2. ASSUME NEW f \in DOMAIN graph, status[f] \in {"load", "loaded"}
        PROVE  DependsOn(graph, f) \cap errored = {}
    BY <1>1, <2>2, SentIsClean
  <2> QED BY <1>1, <2>1, <2>2, SkippedHasCause
<1>2. WalkInv => ErrorsSpreadDown
  BY <1>1 DEF ErrorsSpreadDown
<1> QED BY <1>2, FetchWalkInductive, PTL

-----------------------------------------------------------------------------
(* The order a valid tree puts its fetches in.                              *)

\* In a valid tree being put before is a strict order.
LEMMA PredecessorsAreOrdered ==
    ASSUME NEW tr, NEW g, ValidSchedule(tr, g), NEW f \in DOMAIN g,
           NEW e \in Predecessors(tr, f)
    PROVE  /\ e \in DOMAIN g
           /\ e \notin Predecessors(tr, e)
           /\ Predecessors(tr, e) \subseteq Predecessors(tr, f)
<1>1. /\ FetchIDs(tr) = DOMAIN g
      /\ \A a, b \in tr : a.id = b.id => a = b
      /\ \A leaf \in tr : leaf.path \in Paths
  BY DEF ValidSchedule
<1>2. e \in DOMAIN g
  BY <1>1 DEF Predecessors
<1>3. PICK b \in tr, c \in tr : b.id = e /\ c.id = f /\ Precedes(b.path, c.path)
  BY DEF Predecessors
<1>4. e \notin Predecessors(tr, e)
  <2> SUFFICES ASSUME e \in Predecessors(tr, e) PROVE FALSE
    OBVIOUS
  <2>1. PICK x \in tr, y \in tr : x.id = e /\ y.id = e /\ Precedes(x.path, y.path)
    BY DEF Predecessors
  <2>2. x = y
    BY <1>1, <2>1
  <2> QED BY <1>1, <2>1, <2>2, PrecedesIsOrder
<1>5. ASSUME NEW d \in Predecessors(tr, e) PROVE d \in Predecessors(tr, f)
  <2>1. PICK x \in tr, y \in tr : x.id = d /\ y.id = e /\ Precedes(x.path, y.path)
    BY <1>5 DEF Predecessors
  <2>2. y = b
    BY <1>1, <1>3, <2>1
  <2>3. Precedes(x.path, c.path)
    BY <1>1, <1>3, <2>1, <2>2, PrecedesIsOrder
  <2>4. d \in FetchIDs(tr)
    BY <1>5 DEF Predecessors
  <2> QED BY <1>3, <2>1, <2>3, <2>4 DEF Predecessors
<1> QED BY <1>2, <1>4, <1>5

\* A fetch has more fetches before it than each of those has.
LEMMA PredecessorsAreFewer ==
    ASSUME NEW tr, NEW g, ValidSchedule(tr, g), IsFiniteSet(DOMAIN g), NEW f \in DOMAIN g
    PROVE  /\ Cardinality(Predecessors(tr, f)) \in Nat
           /\ Cardinality(DOMAIN g) \in Nat
           /\ Cardinality(Predecessors(tr, f)) <= Cardinality(DOMAIN g)
           /\ \A e \in Predecessors(tr, f) :
                Cardinality(Predecessors(tr, e)) < Cardinality(Predecessors(tr, f))
<1>1. \A e : Predecessors(tr, e) \subseteq DOMAIN g
  BY DEF Predecessors, ValidSchedule
<1>2. \A e : /\ IsFiniteSet(Predecessors(tr, e)) /\ Cardinality(Predecessors(tr, e)) \in Nat
             /\ Cardinality(Predecessors(tr, e)) <= Cardinality(DOMAIN g)
  BY <1>1, FS_Subset, FS_CardinalityType
<1>3. ASSUME NEW e \in Predecessors(tr, f)
      PROVE  Cardinality(Predecessors(tr, e)) < Cardinality(Predecessors(tr, f))
  <2>1. /\ Predecessors(tr, e) \subseteq Predecessors(tr, f)
        /\ Predecessors(tr, e) # Predecessors(tr, f)
    BY PredecessorsAreOrdered
  <2>2. /\ Cardinality(Predecessors(tr, e)) <= Cardinality(Predecessors(tr, f))
        /\ Cardinality(Predecessors(tr, e)) # Cardinality(Predecessors(tr, f))
    BY <1>2, <2>1, FS_Subset
  <2> QED BY <1>2, <2>2
<1> QED BY <1>2, <1>3, FS_CardinalityType

\* Some fetch of a set comes with none of the set before it.
LEMMA PredecessorsAreWellFounded ==
    ASSUME NEW tr, NEW g, ValidSchedule(tr, g), IsFiniteSet(DOMAIN g),
           NEW S \in SUBSET DOMAIN g, S # {}
    PROVE  \E f \in S : Predecessors(tr, f) \cap S = {}
<1> DEFINE n(f) == Cardinality(Predecessors(tr, f))
           T == {n(f) : f \in S}
<1>1. \A f \in DOMAIN g : n(f) \in Nat
  BY PredecessorsAreFewer
<1>2. \A f \in DOMAIN g : \A e \in Predecessors(tr, f) : n(e) < n(f)
  BY PredecessorsAreFewer
<1> HIDE DEF n
<1>3. T \subseteq Nat /\ T # {}
  BY <1>1
<1>4. PICK m \in T : \A k \in T : m <= k
  <2> HIDE DEF T
  <2> QED BY <1>3, LeastNatural
<1>5. PICK f \in S : n(f) = m
  BY <1>4
<1>6. ASSUME NEW e \in Predecessors(tr, f) \cap S PROVE FALSE
  <2>1. n(e) < n(f) /\ n(f) <= n(e)
    BY <1>2, <1>4, <1>5, <1>6
  <2>2. n(e) \in Nat /\ n(f) \in Nat
    BY <1>1, <1>6
  <2> QED BY <2>1, <2>2
<1> QED BY <1>6

\* When a walk has returned every fetch has ended, or was not started because one
\* the tree puts before it failed for good.
THEOREM FetchLeftOut == Spec => []LeftOutForCause
<1>1. ASSUME WalkInv, phase = "returned", NEW f \in DOMAIN graph, status[f] \notin Ended
      PROVE  status[f] = "idle" /\ \E e \in Predecessors(tree, f) : status[e] = "failed"
  <2>1. /\ Waits /\ ValidSchedule(tree, graph) /\ TypeOK
        /\ \A e \in DOMAIN graph : Predecessors(tree, e) \subseteq DOMAIN graph
    BY <1>1 DEF WalkInv, TreeInv, ValidSchedule, Predecessors
  <2>2. \A e \in DOMAIN graph : status[e] \notin Ended => ~Started(e)
    BY <1>1, <2>1 DEF Waits
  <2> DEFINE S == {e \in DOMAIN graph : /\ status[e] \notin Ended
                                         /\ \A d \in Predecessors(tree, e) : status[d] # "failed"}
  <2>3. ASSUME S # {} PROVE FALSE
    <3>1. IsFiniteSet(DOMAIN graph)
      <4>1. DOMAIN graph \subseteq Mentioned(graph)
        BY DEF Mentioned
      <4> QED BY <2>1, <4>1, GraphIsFinite, FS_Subset
    <3>2. PICK e \in S : Predecessors(tree, e) \cap S = {}
      <4>1. S \in SUBSET DOMAIN graph
        OBVIOUS
      <4> HIDE DEF S
      <4> QED BY <2>1, <2>3, <3>1, <4>1, PredecessorsAreWellFounded
    <3>3. PICK d \in Predecessors(tree, e) : status[d] \notin {"merged", "skipped"}
      BY <2>2, <3>2 DEF Started
    <3>4. d \in DOMAIN graph /\ status[d] \notin Ended
      BY <2>1, <3>2, <3>3 DEF Ended
    <3>5. PICK c \in Predecessors(tree, d) : status[c] = "failed"
      BY <3>2, <3>3, <3>4
    <3>6. c \in Predecessors(tree, e)
      BY <2>1, <3>2, <3>3, <3>5, PredecessorsAreOrdered
    <3> QED BY <3>2, <3>5, <3>6
  <2>4. status[f] = "idle"
    BY <1>1, <2>1, <2>2 DEF Waits
  <2> QED BY <1>1, <2>3, <2>4
<1>2. WalkInv => LeftOutForCause
  BY <1>1 DEF LeftOutForCause
<1> QED BY <1>2, FetchWalkInductive, PTL

-----------------------------------------------------------------------------
(* Why scheduleFetches may prefer a tree that dominates another.            *)

\* A walk of the tree in which f takes time[f] and is merged at done[f]: it starts
\* after those the tree puts before it ...
Walked(tr, time, done) ==
    /\ done \in [FetchIDs(tr) -> Nat]
    /\ \A f \in FetchIDs(tr) :
         /\ time[f] <= done[f]
         /\ \A e \in Predecessors(tr, f) : done[e] + time[f] <= done[f]

\* ... and at once.
Prompt(tr, time, done) ==
    /\ Walked(tr, time, done)
    /\ \A f \in FetchIDs(tr) :
         \/ done[f] = time[f]
         \/ \E e \in Predecessors(tr, f) : done[f] = done[e] + time[f]

\* What the comment of dominates promises: however long each fetch takes, in the
\* tree that dominates every fetch is merged no later than in any walk of the
\* other tree, so the response is not slower either.
THEOREM DominanceIsSufficient ==
    ASSUME NEW a, NEW b, Dominates(a, b),
           NEW time \in [FetchIDs(a) -> Nat \ {0}],
           NEW da, Prompt(a, time, da),
           NEW db, Walked(b, time, db)
    PROVE  \A f \in FetchIDs(a) : da[f] <= db[f]
<1>1. FetchIDs(a) = FetchIDs(b) /\ \A f \in FetchIDs(a) : Predecessors(a, f) \subseteq Predecessors(b, f)
  BY DEF Dominates
<1>2. /\ da \in [FetchIDs(a) -> Nat] /\ db \in [FetchIDs(a) -> Nat]
      /\ \A f \in FetchIDs(a) : Predecessors(a, f) \subseteq FetchIDs(a)
  BY <1>1 DEF Prompt, Walked, Predecessors
<1> DEFINE late == {f \in FetchIDs(a) : da[f] > db[f]}
           T    == {da[f] : f \in late}
<1> SUFFICES ASSUME late # {} PROVE FALSE
  BY <1>2
<1>3. T \subseteq Nat /\ T # {}
  BY <1>2
<1>4. PICK m \in T : \A n \in T : m <= n
  <2> HIDE DEF T
  <2> QED BY <1>3, LeastNatural
<1>5. PICK f \in late : da[f] = m
  BY <1>4
<1>6. da[f] \in Nat /\ db[f] \in Nat /\ time[f] \in Nat /\ time[f] > 0 /\ time[f] <= db[f]
  BY <1>1, <1>2, <1>5 DEF Walked
<1>7. PICK e \in Predecessors(a, f) : da[f] = da[e] + time[f]
  BY <1>5, <1>6 DEF Prompt
<1>8. /\ e \in FetchIDs(a) /\ da[e] \in Nat /\ db[e] \in Nat
      /\ db[e] + time[f] <= db[f]
  BY <1>1, <1>2, <1>5, <1>7 DEF Walked
<1>9. e \notin late
  BY <1>4, <1>5, <1>6, <1>7, <1>8
<1> QED BY <1>5, <1>6, <1>7, <1>8, <1>9

\* No fetch of W waits for another.
Unordered(tr, W) == \A e, f \in W : e \notin Predecessors(tr, f)

\* If only the fetches of W take long, and do not wait for each other, nothing that
\* waits for none of them is late and nothing at all waits for two of them.
LEMMA SlowFetches ==
    ASSUME NEW tr, NEW g, ValidSchedule(tr, g), IsFiniteSet(DOMAIN g),
           NEW W \in SUBSET DOMAIN g, Unordered(tr, W),
           NEW n \in Nat, n = Cardinality(DOMAIN g) + 1,
           NEW time, time = [f \in DOMAIN g |-> IF f \in W THEN n + 1 ELSE 1]
    PROVE  \E done \in [DOMAIN g -> Nat] :
             /\ Walked(tr, time, done)
             /\ \A f \in DOMAIN g : done[f] <= n + n
             /\ \A f \in DOMAIN g : f \notin W /\ Predecessors(tr, f) \cap W = {} => done[f] <= n
<1> DEFINE before(f) == Predecessors(tr, f)
           size(f) == Cardinality(before(f))
           late(f) == f \in W \/ before(f) \cap W # {}
           done == [f \in DOMAIN g |-> size(f) + 1 + (IF late(f) THEN n ELSE 0)]
<1>1. ASSUME NEW f \in DOMAIN g
      PROVE  size(f) \in Nat /\ size(f) + 1 <= n /\ \A e \in before(f) : size(e) < size(f)
  <2>1. /\ size(f) \in Nat /\ Cardinality(DOMAIN g) \in Nat
        /\ size(f) <= Cardinality(DOMAIN g) /\ \A e \in before(f) : size(e) < size(f)
    BY PredecessorsAreFewer
  <2> HIDE DEF size, before
  <2> QED BY <2>1
<1>2. FetchIDs(tr) = DOMAIN g
  BY DEF ValidSchedule
<1>3. ASSUME NEW f \in DOMAIN g, NEW e \in before(f)
      PROVE  /\ e \in DOMAIN g /\ (late(e) => late(f)) /\ (f \in W => ~late(e))
  <2>1. e \in DOMAIN g /\ before(e) \subseteq before(f)
    BY PredecessorsAreOrdered
  <2> QED BY <2>1 DEF Unordered
<1> HIDE DEF before, size, late
<1>4. \A f \in DOMAIN g : /\ late(f) => done[f] = size(f) + 1 + n
                          /\ ~late(f) => done[f] = size(f) + 1
  BY <1>1
<1>5. /\ \A f \in DOMAIN g : f \in W => time[f] = n + 1 /\ late(f)
      /\ \A f \in DOMAIN g : f \notin W => time[f] = 1
  BY DEF late
<1>6. done \in [DOMAIN g -> Nat]
  BY <1>1
<1> HIDE DEF done
<1>7. ASSUME NEW f \in DOMAIN g
      PROVE  /\ time[f] <= done[f] /\ done[f] <= n + n
             /\ ~late(f) => done[f] <= n
  BY <1>1, <1>4, <1>5
<1>8. ASSUME NEW f \in DOMAIN g, NEW e \in before(f)
      PROVE  done[e] + time[f] <= done[f]
  <2>1. size(e) \in Nat /\ size(f) \in Nat /\ size(e) < size(f) /\ e \in DOMAIN g
    BY <1>1, <1>3
  <2>2. CASE f \in W
    BY <1>3, <1>4, <1>5, <2>1, <2>2
  <2>3. CASE f \notin W /\ late(f)
    BY <1>4, <1>5, <2>1, <2>3
  <2>4. CASE f \notin W /\ ~late(f)
    BY <1>3, <1>4, <1>5, <2>1, <2>4
  <2> QED BY <2>2, <2>3, <2>4
<1>9. Walked(tr, time, done)
  BY <1>2, <1>6, <1>7, <1>8 DEF Walked, before
<1>10. \A f \in DOMAIN g : f \notin W /\ Predecessors(tr, f) \cap W = {} => done[f] <= n
  BY <1>7 DEF late, before
<1> QED BY <1>6, <1>7, <1>9, <1>10

\* And that no weaker test than that of dominates would do: if a fetch f waits for e in
\* a valid tree a and does not in b, then with a slow e some walk of b merges f earlier
\* than any walk of a, and if e does not wait for f in b either, then with a slow e and
\* f some walk of b is over before any walk of a has merged f.
THEOREM DominanceIsNecessary ==
    ASSUME NEW g, IsFiniteSet(DOMAIN g),
           NEW a, ValidSchedule(a, g), NEW b, ValidSchedule(b, g),
           NEW f \in DOMAIN g, NEW e \in Predecessors(a, f), e \notin Predecessors(b, f)
    PROVE  /\ \E time \in [DOMAIN g -> Nat \ {0}] : \E db \in [DOMAIN g -> Nat] :
                /\ Walked(b, time, db)
                /\ \A da : Walked(a, time, da) => db[f] < da[f]
           /\ f \notin Predecessors(b, e) =>
                \E time \in [DOMAIN g -> Nat \ {0}] : \E db \in [DOMAIN g -> Nat] :
                    /\ Walked(b, time, db)
                    /\ \A da : Walked(a, time, da) => \A x \in DOMAIN g : db[x] < da[f]
<1> DEFINE n == Cardinality(DOMAIN g) + 1
           time(W) == [x \in DOMAIN g |-> IF x \in W THEN n + 1 ELSE 1]
<1>1. /\ FetchIDs(a) = DOMAIN g /\ e \in DOMAIN g /\ e # f
      /\ e \notin Predecessors(b, e) /\ f \notin Predecessors(b, f)
  <2>1. FetchIDs(a) = DOMAIN g /\ e \in DOMAIN g /\ e # f
    BY PredecessorsAreOrdered DEF ValidSchedule
  <2>2. ASSUME NEW x \in DOMAIN g PROVE x \notin Predecessors(b, x)
    BY PredecessorsAreOrdered
  <2> QED BY <2>1, <2>2
<1>2. n \in Nat /\ n = Cardinality(DOMAIN g) + 1
  BY FS_CardinalityType
<1> HIDE DEF n
<1>3. ASSUME NEW W \in SUBSET DOMAIN g
      PROVE  /\ time(W) \in [DOMAIN g -> Nat \ {0}]
             /\ \A x \in DOMAIN g : time(W)[x] = IF x \in W THEN n + 1 ELSE 1
  BY <1>2
<1>4. ASSUME NEW W \in SUBSET DOMAIN g, NEW da, Walked(a, time(W), da)
      PROVE  /\ da[f] \in Nat /\ da[e] \in Nat
             /\ time(W)[e] <= da[e] /\ da[e] + time(W)[f] <= da[f]
  BY <1>1, <1>4 DEF Walked
<1>5. ASSUME NEW W \in SUBSET DOMAIN g, Unordered(b, W)
      PROVE  \E db \in [DOMAIN g -> Nat] :
               /\ Walked(b, time(W), db)
               /\ \A x \in DOMAIN g : db[x] <= n + n
               /\ \A x \in DOMAIN g : x \notin W /\ Predecessors(b, x) \cap W = {} => db[x] <= n
  BY <1>2, <1>5, SlowFetches
<1> HIDE DEF time
<1>6. \E t \in [DOMAIN g -> Nat \ {0}] : \E db \in [DOMAIN g -> Nat] :
        Walked(b, t, db) /\ \A da : Walked(a, t, da) => db[f] < da[f]
  <2> DEFINE W == {e}
  <2>1. /\ W \in SUBSET DOMAIN g /\ Unordered(b, W)
        /\ f \notin W /\ Predecessors(b, f) \cap W = {}
    BY <1>1 DEF Unordered
  <2>2. PICK db \in [DOMAIN g -> Nat] : Walked(b, time(W), db) /\ db[f] <= n
    BY <1>5, <2>1
  <2>3. time(W)[e] = n + 1 /\ time(W)[f] = 1 /\ time(W) \in [DOMAIN g -> Nat \ {0}]
    BY <1>1, <1>3, <2>1
  <2>4. ASSUME NEW da, Walked(a, time(W), da) PROVE db[f] < da[f]
    BY <1>2, <1>4, <2>1, <2>2, <2>3, <2>4
  <2> QED BY <2>2, <2>3, <2>4
<1>7. ASSUME f \notin Predecessors(b, e)
      PROVE  \E t \in [DOMAIN g -> Nat \ {0}] : \E db \in [DOMAIN g -> Nat] :
               /\ Walked(b, t, db)
               /\ \A da : Walked(a, t, da) => \A x \in DOMAIN g : db[x] < da[f]
  <2> DEFINE W == {e, f}
  <2>1. W \in SUBSET DOMAIN g /\ Unordered(b, W)
    BY <1>1, <1>7 DEF Unordered
  <2>2. PICK db \in [DOMAIN g -> Nat] :
          Walked(b, time(W), db) /\ \A x \in DOMAIN g : db[x] <= n + n
    BY <1>5, <2>1
  <2>3. time(W)[e] = n + 1 /\ time(W)[f] = n + 1 /\ time(W) \in [DOMAIN g -> Nat \ {0}]
    BY <1>1, <1>3, <2>1
  <2>4. ASSUME NEW da, Walked(a, time(W), da), NEW x \in DOMAIN g PROVE db[x] < da[f]
    <3>1. /\ da[f] \in Nat /\ da[e] \in Nat /\ n + 1 <= da[e] /\ da[e] + (n + 1) <= da[f]
      BY <1>4, <2>1, <2>3, <2>4
    <3>2. db[x] \in Nat /\ db[x] <= n + n
      BY <2>2
    <3> QED BY <1>2, <3>1, <3>2
  <2> QED BY <2>2, <2>3, <2>4
<1> QED BY <1>6, <1>7

\* So, in a plan with merging (where the waves of createParallelNodes are at hand) and with
\* all dependencies inside the tree, no fetch is merged later with the scheduler than in
\* these waves. With dependencies outside, as in deferred groups, it may be.
NoFetchLater ==
    phase = "build" /\ calls = {} /\ plan.multi
      /\ (\A f \in DOMAIN graph : graph[f] \subseteq DOMAIN graph) =>
        \A time \in [DOMAIN graph -> Nat \ {0}] : \A da, db :
            Prompt(ScheduleTree, time, da) /\ Walked(TreeInWaves(waves), time, db) =>
                \A f \in DOMAIN graph : da[f] <= db[f]

\* For every plan with merging and without dependencies outside the tree, and however
\* long each fetch takes: a prompt walk of the scheduler's tree merges no fetch later than
\* any walk of the tree createParallelNodes makes.
THEOREM FetchScheduleNoLater == Spec => []NoFetchLater
<1>1. ASSUME ScheduleIsBest, phase = "build", calls = {}, plan.multi,
             \A f \in DOMAIN graph : graph[f] \subseteq DOMAIN graph,
             NEW time \in [DOMAIN graph -> Nat \ {0}], NEW da, NEW db,
             Prompt(ScheduleTree, time, da), Walked(TreeInWaves(waves), time, db)
      PROVE  \A f \in DOMAIN graph : da[f] <= db[f]
  <2>1. Dominates(ScheduleTree, TreeInWaves(waves)) /\ FetchIDs(ScheduleTree) = DOMAIN graph
    BY <1>1 DEF ScheduleIsBest, ValidSchedule
  <2> QED BY <1>1, <2>1, DominanceIsSufficient
<1>2. ScheduleIsBest => NoFetchLater
  BY <1>1 DEF NoFetchLater
<1> QED BY <1>2, FetchScheduleBest, PTL

\* The trees schedule builds of a component are valid for the fetches of it.
LEMMA PartsAreValid ==
    ASSUME TypeOK, Acyclic(graph), calls = {}, NEW inline \in BOOLEAN,
           SplitsUp(graph, Made(inline)),
           NEW C \in WeaklyConnectedComponents(graph, DOMAIN graph)
    PROVE  /\ C \subseteq DOMAIN graph
           /\ ValidSchedule(PartOf(built[inline], C), [f \in C |-> graph[f]])
<1> DEFINE g == [f \in C |-> graph[f]]
           part == PartOf(built[inline], C)
<1>1. /\ \A l \in built[inline] :
           /\ l.path \in Paths
           /\ \A d \in Parents(graph, l.id) :
                \E k \in built[inline] : k.id = d /\ Precedes(k.path, l.path)
      /\ \A f \in DOMAIN graph : \E l \in built[inline] : l.id = f
      /\ \A k, l \in built[inline] : k.id = l.id => k = l
  BY BuiltAreTrees
<1>2. C \subseteq DOMAIN graph
  BY ComponentsCover
<1>3. part \subseteq built[inline] /\ \A l \in built[inline] : l \in part <=> l.id \in C
  BY DEF PartOf
<1>4. DOMAIN g = C /\ \A f \in C : g[f] = graph[f]
  OBVIOUS
<1> HIDE DEF g, part
<1>5. FetchIDs(part) = C
  BY <1>1, <1>2, <1>3 DEF FetchIDs
<1>6. ASSUME NEW f \in C, NEW d \in Parents(g, f) PROVE d \in Predecessors(part, f)
  <2>1. d \in C /\ d \in Parents(graph, f)
    BY <1>2, <1>4, <1>6 DEF Parents
  <2>2. PICK l \in built[inline] : l.id = f
    BY <1>1, <1>2
  <2>3. PICK k \in built[inline] : k.id = d /\ Precedes(k.path, l.path)
    BY <1>1, <2>1, <2>2
  <2>4. k \in part /\ l \in part
    BY <1>3, <2>1, <2>2, <2>3
  <2> QED BY <1>5, <2>1, <2>2, <2>3, <2>4 DEF Predecessors
<1>7. ValidSchedule(part, g)
  BY <1>1, <1>3, <1>4, <1>5, <1>6 DEF ValidSchedule
<1> QED BY <1>2, <1>7 DEF part, g

\* In tight waves a fetch is led up to by one of each earlier wave, which every valid
\* tree puts before it.
LEMMA LedUpTo ==
    ASSUME NEW g, NEW ws \in Seq(SUBSET DOMAIN g), Tight(g, ws),
           NEW C \in SUBSET DOMAIN g, \A f \in C : Parents(g, f) \subseteq C,
           NEW tr, ValidSchedule(tr, [f \in C |-> g[f]]),
           NEW i \in DOMAIN ws, NEW j \in DOMAIN ws, i <= j, NEW e \in C, e \in ws[j]
    PROVE  \E x \in C : x \in ws[i] /\ (x = e \/ x \in Predecessors(tr, e))
<1> DEFINE led(x) == x \in C /\ (x = e \/ x \in Predecessors(tr, e))
           T == {m \in DOMAIN ws : i <= m /\ \E x \in ws[m] : led(x)}
<1>1. DOMAIN ws = 1..Len(ws) /\ Len(ws) \in Nat /\ i \in Nat /\ j \in Nat
  OBVIOUS
<1>2. j \in T /\ T \subseteq Nat
  BY <1>1
<1>3. PICK m \in T : \A n \in T : m <= n
  <2> HIDE DEF T
  <2> QED BY <1>2, LeastNatural
<1>4. PICK x \in ws[m] : led(x)
  BY <1>3
<1>5. ASSUME i < m PROVE FALSE
  <2>1. m \in DOMAIN ws /\ m > 1 /\ m \in Nat /\ m - 1 \in DOMAIN ws /\ i <= m - 1
    BY <1>1, <1>3, <1>5
  <2>2. PICK d \in Parents(g, x) : d \in ws[m - 1]
    BY <1>4, <2>1 DEF Tight
  <2>3. d \in C
    BY <1>4, <2>2
  <2>4. d \in Predecessors(tr, x)
    BY <1>4, <2>2, <2>3 DEF ValidSchedule, Parents
  <2>5. d \in Predecessors(tr, e)
    <3>1. DOMAIN [f \in C |-> g[f]] = C
      OBVIOUS
    <3> QED BY <1>4, <2>4, <3>1, PredecessorsAreOrdered
  <2>6. m - 1 \in T
    BY <2>1, <2>2, <2>3, <2>5
  <2> QED BY <1>3, <2>1, <2>6
<1>6. m = i
  BY <1>1, <1>3, <1>5
<1> QED BY <1>4, <1>6

\* In plans with merging and without dependencies outside the tree, for each component and
\* however the fetches' durations are distributed, the choice of buildScheduleTree is
\* right: a tree that is taken merges no fetch later than the one without inlining, and for
\* one that is rejected there are durations with which it takes longer, as the comment of
\* dominates says.
ChoiceIsExact ==
    phase = "build" /\ calls = {} /\ plan.multi
      /\ (\A f \in DOMAIN graph : graph[f] \subseteq DOMAIN graph) =>
        \A C \in WeaklyConnectedComponents(graph, DOMAIN graph) :
            LET inlined == PartOf(built[TRUE], C)
                barrier == PartOf(built[FALSE], C)
            IN IF Dominates(inlined, barrier)
               THEN \A time \in [C -> Nat \ {0}] : \A da, db :
                      Prompt(inlined, time, da) /\ Walked(barrier, time, db) =>
                        \A f \in C : da[f] <= db[f]
               ELSE \E time \in [C -> Nat \ {0}], db \in [C -> Nat], f \in C :
                      /\ Walked(barrier, time, db)
                      /\ \A da : Walked(inlined, time, da) => \A x \in C : db[x] < da[f]

\* The test of dominates is exact on the trees that schedule builds, for every plan with
\* merging and without dependencies outside the tree: where an inlined tree makes a fetch wait for
\* one more, that one or something it depends on is in the same wave, and the two can
\* take long at the same time only in the tree without inlining.
THEOREM FetchChoiceExact == Spec => []ChoiceIsExact
<1>1. ASSUME ScheduleInv, phase = "build", calls = {}, plan.multi, Inside(graph),
             NEW C \in WeaklyConnectedComponents(graph, DOMAIN graph)
      PROVE  LET inlined == PartOf(built[TRUE], C)
                 barrier == PartOf(built[FALSE], C)
             IN IF Dominates(inlined, barrier)
                THEN \A time \in [C -> Nat \ {0}] : \A da, db :
                       Prompt(inlined, time, da) /\ Walked(barrier, time, db) =>
                         \A f \in C : da[f] <= db[f]
                ELSE \E time \in [C -> Nat \ {0}], db \in [C -> Nat], f \in C :
                       /\ Walked(barrier, time, db)
                       /\ \A da : Walked(inlined, time, da) => \A x \in C : db[x] < da[f]
  <2> DEFINE inlined == PartOf(built[TRUE], C)
             barrier == PartOf(built[FALSE], C)
             g == [f \in C |-> graph[f]]
  <2>1. /\ TypeOK /\ Acyclic(graph) /\ Covers(waves, graph) /\ Tight(graph, waves)
        /\ Layered(graph, waves) /\ InWaves(waves, Made(FALSE))
        /\ SplitsUp(graph, Made(TRUE)) /\ SplitsUp(graph, Made(FALSE))
    BY <1>1 DEF ScheduleInv, TreeInv
  <2>2. /\ C \subseteq DOMAIN graph /\ ValidSchedule(inlined, g) /\ ValidSchedule(barrier, g)
    BY <1>1, <2>1, PartsAreValid
  <2>3. \A f \in C : Parents(graph, f) \subseteq C
    BY ComponentsCover DEF Parents
  <2>4. waves \in Seq(SUBSET DOMAIN graph) /\ DOMAIN waves \subseteq Nat
    BY <2>1 DEF TypeOK
  <2>5. DOMAIN g = C /\ IsFiniteSet(C)
    <3>1. IsFiniteSet(Mentioned(graph)) /\ C \subseteq Mentioned(graph)
      BY <2>1, <2>2, GraphIsFinite DEF Mentioned
    <3>2. IsFiniteSet(C)
      BY <3>1, FS_Subset
    <3>3. DOMAIN g = C
      OBVIOUS
    <3> QED BY <3>2, <3>3
  <2>6. FetchIDs(inlined) = C /\ FetchIDs(barrier) = C
    BY <2>2 DEF ValidSchedule
  <2>7. ASSUME NEW f, NEW e \in Predecessors(barrier, f), NEW i \in DOMAIN waves, e \in waves[i],
               NEW j \in DOMAIN waves, f \in waves[j]
        PROVE  i < j
    <3>1. PICK k \in built[FALSE], l \in built[FALSE] :
            k.id = e /\ l.id = f /\ Precedes(k.path, l.path)
      BY <2>7 DEF Predecessors, PartOf
    <3> QED BY <2>1, <2>7, <3>1, BarrierInWaves
  <2>8. ASSUME NEW e \in C, NEW i \in DOMAIN waves, NEW j \in DOMAIN waves, i <= j, e \in waves[j]
        PROVE  \E x \in C : x \in waves[i] /\ (x = e \/ x \in Predecessors(inlined, e))
    BY <2>1, <2>2, <2>3, <2>4, <2>8, LedUpTo
  <2> HIDE DEF inlined, barrier, g
  <2>9. ASSUME Dominates(inlined, barrier), NEW time \in [C -> Nat \ {0}], NEW da, NEW db,
               Prompt(inlined, time, da), Walked(barrier, time, db)
        PROVE  \A f \in C : da[f] <= db[f]
    BY <2>6, <2>9, DominanceIsSufficient
  <2>10. ASSUME ~Dominates(inlined, barrier)
         PROVE  \E time \in [C -> Nat \ {0}], db \in [C -> Nat], f \in C :
                  /\ Walked(barrier, time, db)
                  /\ \A da : Walked(inlined, time, da) => \A x \in C : db[x] < da[f]
    <3>1. PICK f \in C : ~(Predecessors(inlined, f) \subseteq Predecessors(barrier, f))
      BY <2>6, <2>10 DEF Dominates
    <3>2. PICK e \in Predecessors(inlined, f) : e \notin Predecessors(barrier, f)
      BY <3>1
    <3>3. e \in C
      BY <2>6, <3>2 DEF Predecessors
    <3>4. \E x \in Predecessors(inlined, f) :
            x \notin Predecessors(barrier, f) /\ f \notin Predecessors(barrier, x)
      <4>1. CASE f \notin Predecessors(barrier, e)
        BY <3>2, <4>1
      <4>2. CASE f \in Predecessors(barrier, e)
        <5>1. PICK i \in DOMAIN waves : f \in waves[i]
          BY <2>1, <2>2 DEF Covers
        <5>2. PICK j \in DOMAIN waves : e \in waves[j]
          BY <2>1, <2>2, <3>3 DEF Covers
        <5>3. i < j /\ i \in Nat /\ j \in Nat
          BY <2>4, <2>7, <4>2, <5>1, <5>2
        <5>4. PICK x \in C : x \in waves[i] /\ (x = e \/ x \in Predecessors(inlined, e))
          <6>1. i <= j
            BY <5>3
          <6> QED BY <2>8, <3>3, <5>2, <6>1
        <5>5. x \in Predecessors(inlined, f)
          BY <2>2, <2>5, <3>2, <5>4, PredecessorsAreOrdered
        <5>6. x \notin Predecessors(barrier, f) /\ f \notin Predecessors(barrier, x)
          <6>1. ~(i < i)
            BY <5>3
          <6> QED BY <2>7, <5>1, <5>4, <6>1
        <5> QED BY <5>5, <5>6
      <4> QED BY <4>1, <4>2
    <3>5. PICK x \in Predecessors(inlined, f) :
            x \notin Predecessors(barrier, f) /\ f \notin Predecessors(barrier, x)
      BY <3>4
    <3>6. \E time \in [DOMAIN g -> Nat \ {0}] : \E db \in [DOMAIN g -> Nat] :
            /\ Walked(barrier, time, db)
            /\ \A da : Walked(inlined, time, da) => \A y \in DOMAIN g : db[y] < da[f]
      BY <2>2, <2>5, <3>5, DominanceIsNecessary
    <3> QED BY <2>5, <3>6
  <2> QED BY <2>9, <2>10 DEF inlined, barrier
<1>2. ScheduleInv => ChoiceIsExact
  BY <1>1, Zenon DEF ChoiceIsExact, Inside
<1> QED BY <1>2, FetchScheduleInductive, PTL
=============================================================================
