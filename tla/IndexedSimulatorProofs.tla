----------------------- MODULE IndexedSimulatorProofs -----------------------
(***************************************************************************)
(* Proofs that the indexes of the round-robin storage policy and of the    *)
(* indexed memory policy agree with the tree, the residency and the access *)
(* times after every callback, so that they name the segments that scans   *)
(* of all blocks name, and that the context policy, which searches the     *)
(* same memory index, passes over less than its budget.                    *)
(***************************************************************************)
EXTENDS IndexedSimulator, SimulatorProofs

-----------------------------------------------------------------------------
(* Trees.  u[h] is h and what is above it, as in TreeShape.                 *)

Live(u) == {h \in Hash : u[h] # {}}

\* Ancestors are nodes, their ancestors are among those of the node, and they
\* are in line.
Tidy(u) ==
  /\ u \in [Hash -> SUBSET Hash]
  /\ \A n \in Live(u) : n \in u[n] /\ \A a \in u[n] : a \in u[a] /\ u[a] \subseteq u[n]
  /\ \A n \in Live(u) : \A a, b \in u[n] : a \in u[b] \/ b \in u[a]
  /\ \A a, b \in Live(u) : a \in u[b] /\ b \in u[a] => a = b

Sons(u, x) == {c \in Hash : x \in u[c] /\ c # x /\ u[c] = u[x] \cup {c}}
Lonely(u, x) == \A c, d \in Sons(u, x) : c = d

\* The segment that ends at e, and the nodes that end one.
Line(u, e) == {a \in u[e] : \A x \in u[e] \ {e} : a \in u[x] => Lonely(u, x)}
Ends(u) == {e \in Live(u) : Sons(u, e) = {} \/ ~Lonely(u, e)}

\* No set that f gives on B is smaller than the one it gives at s.
Least(B, f, s) == \A t \in B : f[t] \subseteq f[s] => f[t] = f[s]

\* Of any sets of blocks one has no other below it.
LEMMA LeastSet ==
  ASSUME NEW B, NEW f, B # {}, \A s \in B : f[s] \in SUBSET Hash
  PROVE  \E s \in B : Least(B, f, s)
  <1> DEFINE R == StrictSubsetOrdering(Hash)
             U == {f[s] : s \in B}
  <1>1. U \subseteq FiniteSubsetsOf(Hash) /\ U # {}
    <2>1. \A s \in B : f[s] \in SUBSET Hash /\ IsFiniteSet(f[s])
      BY SimulatorAssumption, FS_Subset
    <2> QED BY <2>1 DEF FiniteSubsetsOf
  <1>2. \E a \in U : \A b \in U : ~(<<b, a>> \in R)
    <2>1. IsWellFoundedOn(R, FiniteSubsetsOf(Hash))
      BY SimulatorAssumption, FS_StrictSubsetOrderingWellFounded
    <2> HIDE DEF R, U
    <2> QED BY <1>1, <2>1, WFMin, Zenon
  <1>3. PICK s \in B : \A t \in B : ~(<<f[t], f[s]>> \in R)
    BY <1>2
  <1>4. ASSUME NEW t \in B, f[t] \subseteq f[s], f[t] # f[s] PROVE FALSE
    <2>1. <<f[t], f[s]>> \in R
      BY <1>4 DEF StrictSubsetOrdering
    <2> QED BY <1>3, <2>1
  <1> QED BY <1>4 DEF Least

\* What is above a node is a node.
LEMMA OverNodes ==
  ASSUME NEW u, Tidy(u), NEW n \in Hash, NEW a \in u[n]
  PROVE  /\ n \in Live(u) /\ n \in u[n]
         /\ a \in Live(u) /\ a \in Hash /\ a \in u[a] /\ u[a] \subseteq u[n]
         /\ n \in u[a] => n = a
  <1>1. n \in Live(u) /\ a \in Hash
    BY DEF Tidy, Live
  <1>2. a \in u[a] /\ u[a] \subseteq u[n] /\ n \in u[n]
    BY <1>1 DEF Tidy
  <1>3. a \in Live(u)
    BY <1>1, <1>2 DEF Live
  <1> QED BY <1>1, <1>2, <1>3 DEF Tidy

\* Some node of B has none of B above it, and some node none of B below it.
LEMMA Extremes ==
  ASSUME NEW u, Tidy(u), NEW B \in SUBSET Live(u), B # {}
  PROVE  /\ \E h \in B : \A g \in B : g \in u[h] => g = h
         /\ \E h \in B : \A g \in B : h \in u[g] => g = h
  <1>0. B \subseteq Hash
    BY DEF Live
  <1>1. PICK h \in B : Least(B, u, h)
    <2>1. \A s \in B : u[s] \in SUBSET Hash
      BY <1>0 DEF Tidy
    <2> QED BY <2>1, LeastSet
  <1>2. ASSUME NEW g \in B, g \in u[h] PROVE g = h
    <2>1. u[g] \subseteq u[h] /\ h \in u[h]
      BY <1>0, <1>2, OverNodes
    <2>2. u[g] = u[h]
      BY <1>1, <2>1 DEF Least
    <2> QED BY <1>0, <1>2, <2>1, <2>2, OverNodes
  <1>3. PICK f : f = [x \in B |-> {d \in Hash : x \in u[d]}]
    OBVIOUS
  <1>4. \A x \in B : f[x] = {d \in Hash : x \in u[d]}
    BY <1>3
  <1>5. PICK k \in B : Least(B, f, k)
    <2>1. \A s \in B : f[s] \in SUBSET Hash
      BY <1>4
    <2> QED BY <2>1, LeastSet
  <1>6. ASSUME NEW g \in B, k \in u[g] PROVE g = k
    <2>1. f[g] \subseteq f[k]
      <3> SUFFICES ASSUME NEW d \in Hash, g \in u[d] PROVE k \in u[d]
        BY <1>4
      <3> QED BY <1>0, <1>6, OverNodes
    <2>2. k \in f[k] /\ k \in Hash
      BY <1>0, <1>4, <1>6, OverNodes
    <2>3. k \in f[g]
      BY <1>5, <2>1, <2>2 DEF Least
    <2>4. g \in u[k]
      BY <1>4, <2>3
    <2> QED BY <1>0, <1>6, <2>4, OverNodes
  <1> QED BY <1>2, <1>6

\* Above a node that is not on top there is a parent, and only one.
LEMMA ParentExists ==
  ASSUME NEW u, Tidy(u), NEW n \in Live(u), u[n] # {n}
  PROVE  \E p \in u[n] \ {n} : /\ u[p] = u[n] \ {n} /\ n \in Sons(u, p)
                               /\ \A q \in u[n] \ {n} : u[q] = u[n] \ {n} => q = p
  <1>1. n \in Hash /\ n \in u[n]
    BY DEF Live, Tidy
  <1> DEFINE B == u[n] \ {n}
  <1>2. B \subseteq Live(u) /\ B # {}
    BY <1>1, OverNodes
  <1>3. PICK p \in B : \A g \in B : p \in u[g] => g = p
    <2> HIDE DEF B
    <2> QED BY <1>2, Extremes
  <1>4. u[p] = u[n] \ {n}
    <2>1. u[p] \subseteq u[n] /\ n \notin u[p] /\ p \in u[p]
      BY <1>1, <1>3, OverNodes
    <2>2. ASSUME NEW g \in u[n] \ {n} PROVE g \in u[p]
      <3>1. g \in u[p] \/ p \in u[g]
        BY <1>1, <1>3 DEF Tidy
      <3> QED BY <1>3, <2>1, <3>1
    <2> QED BY <2>1, <2>2
  <1>5. ASSUME NEW q \in u[n] \ {n}, u[q] = u[n] \ {n} PROVE q = p
    <2>1. q \in u[p] /\ p \in u[q] /\ p \in Live(u) /\ q \in Live(u)
      BY <1>1, <1>2, <1>4, <1>5, OverNodes
    <2> QED BY <2>1 DEF Tidy
  <1>6. n \in Sons(u, p)
    BY <1>1, <1>3, <1>4 DEF Sons
  <1> QED BY <1>3, <1>4, <1>5, <1>6

\* What is below a node is below one of its children, or is one.
LEMMA OnTheWay ==
  ASSUME NEW u, Tidy(u), NEW x \in Hash, NEW h \in u[x], h # x
  PROVE  \E c \in Sons(u, h) : c \in u[x]
  <1> DEFINE B == {g \in u[x] : h \in u[g] /\ g # h}
  <1>1. x \in B /\ B \subseteq Live(u)
    BY OverNodes
  <1>2. PICK c \in B : \A g \in B : g \in u[c] => g = c
    <2> HIDE DEF B
    <2> QED BY <1>1, Extremes
  <1>3. c \in Live(u) /\ c \in Hash /\ h \in Hash /\ h \in u[c] /\ c # h
    BY <1>2, OverNodes
  <1>4. PICK p \in u[c] \ {c} : u[p] = u[c] \ {c} /\ c \in Sons(u, p)
    BY <1>3, ParentExists
  <1>5. p = h
    <2>1. h \in u[p]
      BY <1>3, <1>4
    <2>2. p \in u[x]
      BY <1>2, <1>4, OverNodes
    <2> QED BY <1>2, <1>4, <2>1, <2>2
  <1> QED BY <1>2, <1>4, <1>5

\* A node is on its own segment when it ends one, and segments have no block
\* of others: a node is in one segment.
Feet(u, n) == {l \in Ends(u) : n \in Line(u, l)}

\* A node of the tree is on the way to exactly one end: segments do not overlap.
LEMMA OneFoot ==
  ASSUME NEW u, Tidy(u), NEW n \in Live(u)
  PROVE  \E l \in Ends(u) : Feet(u, n) = {l}
  <1>0. n \in Hash /\ n \in u[n]
    BY DEF Live, Tidy
  <1>1. \E l \in Ends(u) : n \in Line(u, l)
    <2> DEFINE B == {l \in Live(u) : n \in Line(u, l)}
    <2>1. n \in Line(u, n)
      <3>1. \A x \in u[n] \ {n} : n \notin u[x]
        BY <1>0, OverNodes
      <3> QED BY <1>0, <3>1 DEF Line
    <2>2. PICK l \in B : \A g \in B : l \in u[g] => g = l
      <3>1. B # {} /\ B \subseteq Live(u)
        BY <2>1
      <3> HIDE DEF B
      <3> QED BY <3>1, Extremes
    <2>3. l \in Live(u) /\ l \in Hash /\ n \in Line(u, l)
      BY DEF Live
    <2>4. ASSUME NEW c \in Sons(u, l), Lonely(u, l) PROVE FALSE
      <3>1. c \in Hash /\ l \in u[c] /\ c # l /\ u[c] = u[l] \cup {c}
        BY DEF Sons
      <3>2. n \in u[c] /\ c \in Live(u)
        BY <2>3, <3>1 DEF Line, Live
      <3>3. ASSUME NEW x \in u[c] \ {c}, n \in u[x] PROVE Lonely(u, x)
        <4>1. x \in u[l]
          BY <3>1
        <4>2. CASE x = l
          BY <2>4, <4>2
        <4>3. CASE x # l
          BY <2>3, <3>3, <4>1, <4>3 DEF Line
        <4> QED BY <4>2, <4>3
      <3>4. n \in Line(u, c)
        BY <3>2, <3>3 DEF Line
      <3> QED BY <2>2, <3>1, <3>2, <3>4
    <2> QED BY <2>3, <2>4 DEF Ends
  <1>2. ASSUME NEW l \in Ends(u), NEW m \in Ends(u), n \in Line(u, l), n \in Line(u, m), l \in u[m]
        PROVE  l = m
    <2>1. /\ l \in Hash /\ m \in Hash /\ n \in u[l]
          /\ \A x \in u[m] \ {m} : n \in u[x] => Lonely(u, x)
      BY <1>2 DEF Ends, Live, Line
    <2>2. ASSUME l # m PROVE FALSE
      <3>1. Lonely(u, l) /\ Sons(u, l) # {}
        BY <1>2, <2>1, <2>2, OnTheWay
      <3> QED BY <3>1 DEF Ends
    <2> QED BY <2>2
  <1>3. ASSUME NEW l \in Ends(u), NEW m \in Ends(u), n \in Line(u, l), n \in Line(u, m),
               l \notin u[m], m \notin u[l]
        PROVE  FALSE
    <2>1. /\ l \in Hash /\ m \in Hash /\ n \in u[l] /\ n \in u[m] /\ l \in Live(u)
          /\ \A x \in u[l] \ {l} : n \in u[x] => Lonely(u, x)
      BY <1>3 DEF Ends, Live, Line
    <2> DEFINE B == u[l] \cap u[m]
    <2>2. PICK x \in B : \A g \in B : x \in u[g] => g = x
      <3>1. B # {} /\ B \subseteq Live(u)
        BY <2>1, OverNodes
      <3> HIDE DEF B
      <3> QED BY <3>1, Extremes
    <2>3. x # l /\ x # m /\ x \in Hash
      BY <1>3, <2>1, OverNodes
    <2>4. PICK c \in Sons(u, x) : c \in u[l]
      BY <2>1, <2>2, <2>3, OnTheWay
    <2>5. PICK d \in Sons(u, x) : d \in u[m]
      BY <2>1, <2>2, <2>3, OnTheWay
    <2>6. n \in u[x]
      <3>1. n \in u[x] \/ x \in u[n]
        BY <2>1, <2>2 DEF Tidy
      <3> QED BY <1>0, <2>1, <2>2, <3>1
    <2>7. c = d
      BY <2>1, <2>2, <2>3, <2>6 DEF Lonely
    <2> QED BY <2>2, <2>4, <2>5, <2>7 DEF Sons
  <1>4. \A l, m \in Ends(u) : n \in Line(u, l) /\ n \in Line(u, m) => l = m
    BY <1>2, <1>3
  <1> QED BY <1>1, <1>4 DEF Feet

\* The segment of a node holds that node, ancestors of it and live nodes only.
LEMMA EndInLine ==
  ASSUME NEW u, Tidy(u), NEW n \in Live(u)
  PROVE  n \in Line(u, n) /\ Line(u, n) \subseteq u[n] /\ Line(u, n) \subseteq Live(u)
  <1>0. n \in Hash /\ n \in u[n]
    BY DEF Live, Tidy
  <1>1. \A x \in u[n] \ {n} : n \notin u[x]
    BY <1>0, OverNodes
  <1>2. u[n] \subseteq Live(u)
    BY <1>0, OverNodes
  <1> QED BY <1>0, <1>1, <1>2 DEF Line

\* A block created below p, or on top: what TreeShape's Grown makes.
Sprout(u, n, p) == [u EXCEPT ![n] = {n} \cup (IF p = NoNode THEN {} ELSE u[p])]

\* A node created below p is live, has no child, and changes no other chain.
LEMMA SproutTree ==
  ASSUME NEW u, Tidy(u), NEW n \in Hash \ Live(u), NEW p \in Live(u) \cup {NoNode},
         NEW v, v = Sprout(u, n, p)
  PROVE  /\ Tidy(v) /\ Live(v) = Live(u) \cup {n}
         /\ v[n] = {n} \cup (IF p = NoNode THEN {} ELSE u[p])
         /\ \A x \in Hash \ {n} : v[x] = u[x] /\ n \notin u[x]
         /\ Sons(v, n) = {} /\ \A x \in Hash : n \in v[x] => x = n
         /\ \A x \in Live(u) : Sons(v, x) = IF x = p THEN Sons(u, x) \cup {n} ELSE Sons(u, x)
  <1> DEFINE A == IF p = NoNode THEN {} ELSE u[p]
  <1>1. /\ A \subseteq Live(u) /\ n \notin A
        /\ \A a \in A : a \in u[a] /\ u[a] \subseteq A
        /\ \A a, b \in A : a \in u[b] \/ b \in u[a]
    <2>1. CASE p = NoNode
      BY <2>1
    <2>2. CASE p # NoNode
      <3>1. p \in Live(u) /\ p \in Hash /\ A = u[p]
        BY <2>2 DEF Live
      <3>2. \A a \in u[p] : a \in Live(u) /\ a \in u[a] /\ u[a] \subseteq u[p]
        BY <3>1, OverNodes
      <3> QED BY <3>1, <3>2 DEF Tidy
    <2> QED BY <2>1, <2>2
  <1>2. v = [u EXCEPT ![n] = {n} \cup A]
    BY DEF Sprout
  <1>3. p \in Live(u) => A = u[p]
    BY SimulatorAssumption DEF Live, NoNode
  <1>4. v[n] = {n} \cup (IF p = NoNode THEN {} ELSE u[p])
    BY DEF Sprout, Tidy
  <1> HIDE DEF A
  <1>5. /\ v[n] = {n} \cup A /\ \A x \in Hash \ {n} : v[x] = u[x]
        /\ v \in [Hash -> SUBSET Hash] /\ u[n] = {} /\ n \in Hash
    <2>1. {n} \cup A \in SUBSET Hash
      BY <1>1 DEF Live
    <2> QED BY <1>2, <2>1 DEF Tidy, Live
  <1>6. Live(v) = Live(u) \cup {n}
    BY <1>5 DEF Live
  <1>7. \A x \in Hash : n \notin u[x] /\ \A a \in u[x] : a # n /\ a \in Hash
    BY <1>5, OverNodes DEF Live
  <1>8. Tidy(v)
    <2>1. ASSUME NEW x \in Live(u), NEW a \in u[x] PROVE a \in v[a] /\ v[a] \subseteq v[x]
      BY <1>5, <1>7 DEF Tidy, Live
    <2>2. \A x \in Live(u) : x \in v[x] /\ v[x] = u[x]
      BY <1>5 DEF Tidy, Live
    <2>3. ASSUME NEW a \in A PROVE a \in v[a] /\ v[a] \subseteq A
      BY <1>1, <1>5 DEF Live
    <2>4. \A a \in v[n] : a \in v[a] /\ v[a] \subseteq v[n]
      BY <1>5, <2>3
    <2>5. \A x \in Live(u) : \A a, b \in v[x] : a \in v[b] \/ b \in v[a]
      BY <1>5, <1>7, <2>2 DEF Tidy, Live
    <2>6. \A a, b \in v[n] : a \in v[b] \/ b \in v[a]
      <3>1. \A a, b \in A : a \in v[b] \/ b \in v[a]
        BY <1>1, <1>5 DEF Live
      <3> QED BY <1>5, <3>1
    <2>7. \A a, b \in Live(v) : a \in v[b] /\ b \in v[a] => a = b
      <3>1. \A a, b \in Live(u) : a \in v[b] /\ b \in v[a] => a = b
        BY <2>2 DEF Tidy
      <3>2. \A a \in Live(u) : n \notin v[a]
        BY <1>7, <2>2 DEF Live
      <3> QED BY <1>6, <3>1, <3>2
    <2>8. n \in v[n]
      BY <1>5
    <2> QED BY <1>5, <1>6, <2>1, <2>2, <2>4, <2>5, <2>6, <2>7, <2>8 DEF Tidy
  <1>9. Sons(v, n) = {} /\ \A x \in Hash : n \in v[x] => x = n
    BY <1>5, <1>7 DEF Sons
  <1>10. ASSUME NEW x \in Live(u)
         PROVE  Sons(v, x) = IF x = p THEN Sons(u, x) \cup {n} ELSE Sons(u, x)
    <2>1. x \in Hash /\ x # n /\ v[x] = u[x] /\ x \in u[x]
      BY <1>5 DEF Live, Tidy
    <2>2. \A c \in Hash \ {n} : c \in Sons(v, x) <=> c \in Sons(u, x)
      BY <1>5, <2>1 DEF Sons
    <2>3. n \notin Sons(u, x)
      BY <1>5 DEF Sons
    <2>4. n \in Sons(v, x) <=> x \in A /\ A = u[x]
      <3>1. n \notin u[x] /\ n \notin A
        BY <1>1, <1>7, <2>1
      <3> QED BY <1>5, <2>1, <3>1 DEF Sons
    <2>5. x \in A /\ A = u[x] <=> x = p
      <3>1. ASSUME x \in A, A = u[x] PROVE x = p
        <4>1. p \in Live(u)
          BY <3>1 DEF A
        <4>2. p \in u[x] /\ x \in u[p]
          BY <1>3, <3>1, <4>1 DEF Tidy
        <4> QED BY <4>1, <4>2 DEF Tidy
      <3>2. x = p => A = u[x] /\ x \in A
        BY <1>3, <2>1
      <3> QED BY <3>1, <3>2
    <2>6. Sons(v, x) \subseteq Hash /\ Sons(u, x) \subseteq Hash
      BY DEF Sons
    <2> QED BY <1>5, <2>2, <2>3, <2>4, <2>5, <2>6
  <1> QED BY <1>4, <1>5, <1>6, <1>7, <1>8, <1>9, <1>10

\* Which nodes are then the only child, or have one only.
LEMMA SproutLonely ==
  ASSUME NEW u, Tidy(u), NEW n \in Hash \ Live(u), NEW p \in Live(u) \cup {NoNode},
         NEW v, v = Sprout(u, n, p)
  PROVE  /\ \A x \in Live(u) \ {p} : Lonely(v, x) <=> Lonely(u, x)
         /\ p \in Live(u) => (Lonely(v, p) <=> Sons(u, p) = {})
         /\ n \in Ends(v)
         /\ \A e \in Live(u) : e # p => (e \in Ends(v) <=> e \in Ends(u))
         /\ p \in Live(u) => (p \in Ends(v) <=> Sons(u, p) # {})
  <1>1. /\ Live(v) = Live(u) \cup {n} /\ Sons(v, n) = {}
        /\ \A x \in Live(u) : Sons(v, x) = IF x = p THEN Sons(u, x) \cup {n} ELSE Sons(u, x)
    BY SproutTree
  <1>2. \A x \in Live(u) : n \notin Sons(u, x)
    BY DEF Sons, Live
  <1>3. \A x \in Live(u) \ {p} : Sons(v, x) = Sons(u, x)
    BY <1>1
  <1>4. p \in Live(u) => Sons(v, p) = Sons(u, p) \cup {n} /\ n \notin Sons(u, p)
    BY <1>1, <1>2
  <1> QED BY <1>1, <1>3, <1>4 DEF Lonely, Ends

\* The segments of the nodes that were there.
LEMMA SproutOthers ==
  ASSUME NEW u, Tidy(u), NEW n \in Hash \ Live(u), NEW p \in Live(u) \cup {NoNode},
         NEW v, v = Sprout(u, n, p), NEW e \in Live(u)
  PROVE  /\ p \notin u[e] \ {e} => Line(v, e) = Line(u, e)
         /\ ~Lonely(u, p) => Line(v, e) = Line(u, e)
         /\ p \in u[e] \ {e} => Line(v, e) = Line(u, e) \ u[p]
  <1>1. /\ v[e] = u[e] /\ e \in Hash /\ e # n
        /\ \A x \in u[e] : x \in Live(u) /\ v[x] = u[x]
    BY SproutTree, OverNodes DEF Live
  <1>2. /\ \A x \in Live(u) \ {p} : Lonely(v, x) <=> Lonely(u, x)
        /\ p \in Live(u) => (Lonely(v, p) <=> Sons(u, p) = {})
    BY SproutLonely
  <1>3. Line(v, e) = {a \in u[e] : \A x \in u[e] \ {e} : a \in u[x] => Lonely(v, x)}
    BY <1>1 DEF Line
  <1>4. ASSUME p \notin u[e] \ {e} PROVE Line(v, e) = Line(u, e)
    <2>1. \A x \in u[e] \ {e} : Lonely(v, x) <=> Lonely(u, x)
      BY <1>1, <1>2, <1>4
    <2> QED BY <1>3, <2>1 DEF Line
  <1>5. ASSUME ~Lonely(u, p) PROVE Line(v, e) = Line(u, e)
    <2>1. \A x \in u[e] \ {e} : Lonely(v, x) <=> Lonely(u, x)
      BY <1>1, <1>2, <1>5 DEF Lonely
    <2> QED BY <1>3, <2>1 DEF Line
  <1>6. ASSUME p \in u[e] \ {e} PROVE Line(v, e) = Line(u, e) \ u[p]
    <2>1. Sons(u, p) # {} /\ p \in Live(u)
      BY <1>1, <1>6, OnTheWay
    <2>2. ~Lonely(v, p) /\ \A x \in u[e] \ {e} : x # p => (Lonely(v, x) <=> Lonely(u, x))
      BY <1>1, <1>2, <2>1
    <2>3. ASSUME NEW a \in u[e] PROVE a \in Line(v, e) <=> a \in Line(u, e) /\ a \notin u[p]
      <3>1. CASE a \in u[p]
        BY <1>3, <1>6, <2>2, <3>1
      <3>2. CASE a \notin u[p]
        BY <1>3, <2>2, <3>2 DEF Line
      <3> QED BY <3>1, <3>2
    <2>4. Line(v, e) \subseteq u[e] /\ Line(u, e) \subseteq u[e]
      BY <1>3 DEF Line
    <2> QED BY <2>3, <2>4
  <1> QED BY <1>4, <1>5, <1>6

\* The segment the new block ends.
LEMMA SproutOwn ==
  ASSUME NEW u, Tidy(u), NEW n \in Hash \ Live(u), NEW p \in Live(u) \cup {NoNode},
         NEW v, v = Sprout(u, n, p)
  PROVE  Line(v, n) = IF p # NoNode /\ Sons(u, p) = {} THEN Line(u, p) \cup {n} ELSE {n}
  <1>1. /\ v[n] = {n} \cup (IF p = NoNode THEN {} ELSE u[p])
        /\ \A x \in Hash \ {n} : v[x] = u[x] /\ n \notin u[x]
    BY SproutTree
  <1>2. CASE p = NoNode
    BY <1>1, <1>2 DEF Line
  <1>3. CASE p # NoNode
    <2>1. /\ p \in Live(u) /\ p \in Hash /\ p \in u[p] /\ v[n] = {n} \cup u[p]
          /\ \A x \in u[p] : x \in Live(u) /\ x # n /\ v[x] = u[x] /\ n \notin u[x]
      BY <1>1, <1>3, OverNodes DEF Live, Tidy
    <2>2. /\ \A x \in u[p] \ {p} : Lonely(v, x) <=> Lonely(u, x)
          /\ Lonely(v, p) <=> Sons(u, p) = {}
      BY <2>1, SproutLonely
    <2>3. Line(v, n) = {a \in {n} \cup u[p] : \A x \in u[p] : a \in u[x] => Lonely(v, x)}
      BY <2>1 DEF Line
    <2>4. n \in Line(v, n)
      BY <2>1, <2>3
    <2>5. CASE Sons(u, p) = {}
      <3>1. Lonely(v, p)
        BY <2>2, <2>5
      <3>2. \A a \in u[p] : a \in Line(v, n) <=> a \in Line(u, p)
        BY <2>2, <2>3, <3>1 DEF Line
      <3>3. Line(u, p) \subseteq u[p] /\ Line(v, n) \subseteq {n} \cup u[p]
        BY <2>3 DEF Line
      <3> QED BY <1>3, <2>4, <2>5, <3>2, <3>3
    <2>6. CASE Sons(u, p) # {}
      <3>1. \A a \in u[p] : a \notin Line(v, n)
        BY <2>1, <2>2, <2>3, <2>6
      <3> QED BY <2>3, <2>4, <2>6, <3>1
    <2> QED BY <2>5, <2>6
  <1> QED BY <1>2, <1>3

\* A block that gets its first child is no end any more, and its segment goes
\* on to the new block.
LEMMA SproutLonger ==
  ASSUME NEW u, Tidy(u), NEW n \in Hash \ Live(u), NEW p \in Live(u), Sons(u, p) = {},
         NEW v, v = Sprout(u, n, p)
  PROVE  /\ p \in Ends(u) /\ Ends(v) = (Ends(u) \ {p}) \cup {n}
         /\ Line(v, n) = Line(u, p) \cup {n}
         /\ \A e \in Ends(u) \ {p} : Line(v, e) = Line(u, e)
  <1>1. p \in Ends(u) /\ p # NoNode /\ p \in Hash
    BY SimulatorAssumption DEF Ends, Live, NoNode
  <1>2. Ends(v) \subseteq Live(u) \cup {n} /\ Ends(u) \subseteq Live(u)
    BY SproutTree DEF Ends
  <1>3. Ends(v) = (Ends(u) \ {p}) \cup {n}
    BY <1>2, SproutLonely
  <1>4. \A e \in Live(u) : p \notin u[e] \ {e}
    BY <1>1, OnTheWay DEF Live
  <1>5. \A e \in Ends(u) \ {p} : Line(v, e) = Line(u, e)
    BY <1>2, <1>4, SproutOthers
  <1> QED BY <1>1, <1>3, <1>5, SproutOwn

\* A second child cuts the segment below its parent.
LEMMA SproutCut ==
  ASSUME NEW u, Tidy(u), NEW n \in Hash \ Live(u), NEW p \in Live(u), Sons(u, p) # {},
         Lonely(u, p), NEW v, v = Sprout(u, n, p), NEW f \in Ends(u), p \in Line(u, f)
  PROVE  /\ p \notin Ends(u) /\ Ends(v) = Ends(u) \cup {p, n} /\ f # p
         /\ Line(v, n) = {n}
         /\ Line(v, p) = Line(u, f) \cap u[p]
         /\ Line(v, f) = Line(u, f) \ u[p]
         /\ \A e \in Ends(u) \ {f} : Line(v, e) = Line(u, e)
  <1>1. p \notin Ends(u) /\ p # NoNode /\ p \in Hash /\ p \in u[p] /\ f \in Live(u) /\ f \in Hash
    BY SimulatorAssumption DEF Ends, Live, NoNode, Tidy
  <1>2. Ends(v) \subseteq Live(u) \cup {n} /\ Ends(u) \subseteq Live(u)
    BY SproutTree DEF Ends
  <1>3. Ends(v) = Ends(u) \cup {p, n}
    BY <1>1, <1>2, SproutLonely
  <1>4. p \in u[f] \ {f} /\ \A x \in u[f] \ {f} : p \in u[x] => Lonely(u, x)
    BY <1>1 DEF Line
  <1>5. Line(v, f) = Line(u, f) \ u[p]
    BY <1>1, <1>4, SproutOthers
  <1>6. Line(v, p) = Line(u, p)
    BY SproutOthers
  <1>7. Line(u, p) = Line(u, f) \cap u[p]
    <2>1. ASSUME NEW a \in u[p], a \in Line(u, f) PROVE a \in Line(u, p)
      <3>1. u[p] \subseteq u[f] /\ f \notin u[p]
        BY <1>1, <1>4, OverNodes
      <3> QED BY <2>1, <3>1 DEF Line
    <2>2. ASSUME NEW a \in u[p], a \in Line(u, p) PROVE a \in Line(u, f)
      <3>1. a \in u[f]
        BY <1>1, <1>4, OverNodes
      <3>2. ASSUME NEW x \in u[f] \ {f}, a \in u[x] PROVE Lonely(u, x)
        <4>1. p \in u[x] \/ x \in u[p]
          BY <1>1, <1>4 DEF Tidy
        <4>2. CASE p \in u[x]
          BY <1>4, <4>2
        <4>3. CASE x \in u[p] /\ x # p
          BY <2>2, <3>2, <4>3 DEF Line
        <4>4. CASE x = p
          BY <4>4
        <4> QED BY <4>1, <4>2, <4>3, <4>4
      <3> QED BY <3>1, <3>2 DEF Line
    <2>3. Line(u, p) \subseteq u[p]
      BY DEF Line
    <2> QED BY <2>1, <2>2, <2>3
  <1>8. ASSUME NEW e \in Ends(u), e # f PROVE Line(v, e) = Line(u, e)
    <2>1. p \notin Line(u, e)
      <3>1. PICK l \in Ends(u) : Feet(u, p) = {l}
        BY OneFoot
      <3> QED BY <1>8, <3>1 DEF Feet
    <2>2. CASE p \notin u[e] \ {e}
      BY <1>2, <2>2, SproutOthers
    <2>3. CASE p \in u[e] \ {e}
      <3>1. Line(v, e) = Line(u, e) \ u[p]
        BY <1>2, <2>3, SproutOthers
      <3>2. ASSUME NEW a \in u[p], a \in Line(u, e) PROVE FALSE
        <4>1. PICK x \in u[e] \ {e} : p \in u[x] /\ ~Lonely(u, x)
          BY <2>1, <2>3 DEF Line
        <4>2. a \in u[x]
          <5>1. x \in Hash
            BY <1>2, <4>1, OverNodes DEF Live
          <5> QED BY <3>2, <4>1, <5>1, OverNodes
        <4> QED BY <3>2, <4>1, <4>2 DEF Line
      <3> QED BY <3>1, <3>2
    <2> QED BY <2>2, <2>3
  <1> QED BY <1>1, <1>3, <1>4, <1>5, <1>6, <1>7, <1>8, SproutOwn

\* On top, or as a further child, the new block is a segment of its own.
LEMMA SproutAlone ==
  ASSUME NEW u, Tidy(u), NEW n \in Hash \ Live(u), NEW p \in Live(u) \cup {NoNode},
         p = NoNode \/ ~Lonely(u, p), NEW v, v = Sprout(u, n, p)
  PROVE  /\ Ends(v) = Ends(u) \cup {n} /\ Line(v, n) = {n}
         /\ \A e \in Ends(u) : Line(v, e) = Line(u, e)
  <1>1. Ends(v) \subseteq Live(u) \cup {n} /\ Ends(u) \subseteq Live(u)
    BY SproutTree DEF Ends
  <1>2. NoNode \notin Live(u) /\ \A e \in Live(u) : NoNode \notin u[e]
    BY SimulatorAssumption, OverNodes DEF Live, NoNode
  <1>3. ~Lonely(u, p) => Sons(u, p) # {}
    BY DEF Lonely
  <1>4. p \in Live(u) => p \in Ends(v) /\ p \in Ends(u)
    BY <1>2, <1>3, SproutLonely DEF Ends
  <1>5. Ends(v) = Ends(u) \cup {n}
    BY <1>1, <1>4, SproutLonely
  <1>6. \A e \in Ends(u) : Line(v, e) = Line(u, e)
    BY <1>1, <1>2, SproutOthers
  <1> QED BY <1>3, <1>5, <1>6, SproutOwn

-----------------------------------------------------------------------------
(* The queries of TreeShape say the same of the trees the index is shown.   *)

\* The number of children tells no child, one child and several apart.
LEMMA SonsCounted ==
  ASSUME NEW u, NEW x
  PROVE  /\ Cardinality(Sons(u, x)) \in Nat
         /\ Cardinality(Sons(u, x)) = 0 <=> Sons(u, x) = {}
         /\ Cardinality(Sons(u, x)) < 2 <=> Lonely(u, x)
         /\ Cardinality(Sons(u, x)) = 1 <=> Lonely(u, x) /\ Sons(u, x) # {}
         /\ Cardinality(Sons(u, x)) = 2
               => \E c, d \in Sons(u, x) : c # d /\ Sons(u, x) = {c, d}
         /\ \A c, d : c # d /\ Sons(u, x) = {c, d} => Cardinality(Sons(u, x)) = 2
  <1> DEFINE S == Sons(u, x)
  <1>1. IsFiniteSet(S) /\ Cardinality(S) \in Nat
    <2>1. S \in SUBSET Hash
      BY DEF Sons
    <2> QED BY <2>1, BlocksFinite
  <1>2. Cardinality(S) = 0 <=> S = {}
    BY <1>1, FS_EmptySet
  <1>3. ASSUME NEW c \in S, Lonely(u, x) PROVE Cardinality(S) = 1
    <2>1. S = {c}
      BY <1>3 DEF Lonely
    <2> QED BY <2>1, FS_Singleton
  <1>4. ASSUME NEW c \in S, NEW d \in S, c # d
        PROVE  /\ Cardinality(S) = Cardinality(S \ {c, d}) + 2
               /\ Cardinality(S \ {c, d}) \in Nat /\ IsFiniteSet(S \ {c, d})
    <2>1. /\ IsFiniteSet(S \ {c}) /\ Cardinality(S \ {c}) = Cardinality(S) - 1
      BY <1>1, FS_RemoveElement
    <2>2. /\ IsFiniteSet((S \ {c}) \ {d}) /\ Cardinality((S \ {c}) \ {d}) = Cardinality(S \ {c}) - 1
      BY <1>4, <2>1, FS_RemoveElement
    <2>3. (S \ {c}) \ {d} = S \ {c, d}
      OBVIOUS
    <2>4. Cardinality(S \ {c, d}) \in Nat
      BY <2>2, <2>3, FS_CardinalityType
    <2> QED BY <1>1, <2>1, <2>2, <2>3, <2>4
  <1>5. ASSUME NEW c \in S, NEW d \in S, c # d PROVE Cardinality(S) = 2 <=> S = {c, d}
    <2>1. Cardinality(S \ {c, d}) = 0 <=> S \ {c, d} = {}
      BY <1>4, <1>5, FS_EmptySet
    <2> QED BY <1>4, <1>5, <2>1
  <1>6. ASSUME ~Lonely(u, x) PROVE Cardinality(S) >= 2 /\ \E c, d \in S : c # d
    <2>1. PICK c \in S, d \in S : c # d
      BY <1>6 DEF Lonely
    <2>2. Cardinality(S) = Cardinality(S \ {c, d}) + 2 /\ Cardinality(S \ {c, d}) \in Nat
      BY <1>4, <2>1
    <2> HIDE DEF S
    <2> QED BY <2>1, <2>2
  <1>7. Lonely(u, x) => S = {} \/ Cardinality(S) = 1
    BY <1>3
  <1> HIDE DEF S
  <1>8. /\ Cardinality(S) < 2 <=> Lonely(u, x)
        /\ Cardinality(S) = 1 <=> Lonely(u, x) /\ S # {}
        /\ Cardinality(S) = 2 => \E c, d \in S : c # d /\ S = {c, d}
        /\ \A c, d : c # d /\ S = {c, d} => Cardinality(S) = 2
    BY <1>1, <1>2, <1>5, <1>6, <1>7
  <1> QED BY <1>1, <1>2, <1>8 DEF S

\* Cardinality in the instances of the index is Cardinality here.
LEMMA SameCount ==
  ASSUME NEW u, NEW S
  PROVE  RR!Tree(u)!Cardinality(S) = Cardinality(S) /\ RR!Cardinality(S) = Cardinality(S)
  BY Zenon DEF RR!Tree!Cardinality, RR!Cardinality, Cardinality

\* Children, segment and leaf in TreeShape are Sons, Line and Feet here.
LEMMA StorageShape ==
  ASSUME NEW u, Tidy(u), NEW n \in Live(u)
  PROVE  /\ RR!Tree(u)!Children(n) = Sons(u, n)
         /\ RR!Tree(u)!ChildCount(n) = Cardinality(Sons(u, n))
         /\ RR!Tree(u)!Below(n) = {d \in Hash : n \in u[d] /\ d # n}
         /\ RR!Tree(u)!Segment(n) = Line(u, n)
         /\ RR!Tree(u)!SegmentLeaf(n) = Feet(u, n)
  <1>0. n \in Hash /\ n \in u[n]
    BY DEF Live, Tidy
  <1>1. \A x \in Live(u) : RR!Tree(u)!Children(x) = Sons(u, x)
    BY DEF RR!Tree!Children, RR!Tree!Below, RR!Tree!Subtree, Sons
  <1>2. \A x \in Live(u) : RR!Tree(u)!ChildCount(x) = Cardinality(Sons(u, x))
    BY <1>1, SameCount DEF RR!Tree!ChildCount
  <1>3. ASSUME NEW l \in Hash, n \in u[l]
        PROVE  /\ l \in Live(u) /\ \A x \in u[l] : x \in Live(u)
               /\ n \in Line(u, l) <=> \A x \in u[l] \ {l} : n \in u[x] => Lonely(u, x)
    BY <1>3, OverNodes DEF Line
  <1>4. RR!Tree(u)!Segment(n) = Line(u, n)
    <2>1. \A x \in u[n] : RR!Tree(u)!ChildCount(x) < 2 <=> Lonely(u, x)
      BY <1>0, <1>2, <1>3, SonsCounted
    <2> QED BY <2>1 DEF RR!Tree!Segment, Line
  <1>5. ASSUME NEW l \in Hash, n \in u[l]
        PROVE  l \in RR!Tree(u)!SegmentLeaf(n) <=> l \in Feet(u, n)
    <2>1. \A x \in u[l] : RR!Tree(u)!ChildCount(x) = 1 <=> Lonely(u, x) /\ Sons(u, x) # {}
      BY <1>2, <1>3, <1>5, SonsCounted
    <2>2. \A x \in u[l] \ {l} : Sons(u, x) # {}
      BY OnTheWay
    <2>3. RR!Tree(u)!ChildCount(l) # 1 <=> l \in Ends(u)
      <3>1. l \in u[l]
        BY <1>3, <1>5 DEF Tidy
      <3> QED BY <1>3, <1>5, <2>1, <3>1 DEF Ends
    <2>4. (\A x \in u[l] \ {l} : n \in u[x] => RR!Tree(u)!ChildCount(x) = 1) <=> n \in Line(u, l)
      BY <1>3, <1>5, <2>1, <2>2
    <2> QED BY <1>5, <2>3, <2>4 DEF RR!Tree!SegmentLeaf, RR!Tree!Subtree, Feet
  <1>6. RR!Tree(u)!SegmentLeaf(n) \subseteq {l \in Hash : n \in u[l]}
    BY DEF RR!Tree!SegmentLeaf, RR!Tree!Subtree
  <1>7. Feet(u, n) \subseteq {l \in Hash : n \in u[l]}
    BY DEF Feet, Line, Ends, Live
  <1>8. RR!Tree(u)!SegmentLeaf(n) = Feet(u, n)
    BY <1>5, <1>6, <1>7
  <1> QED BY <1>0, <1>1, <1>2, <1>4, <1>8 DEF RR!Tree!Below, RR!Tree!Subtree

\* And of the simulator's own tree.
LEMMA OwnShape ==
  ASSUME Rooted
  PROVE  /\ Tidy(up) /\ Live(up) = Nodes
         /\ \A n \in Nodes : Segment(n) = Line(up, n) /\ SegmentLeaf(n) = Feet(up, n)
         /\ \A n \in Hash \ Nodes : SegmentLeaf(n) = {} /\ Segment(n) = {}
         /\ \A n \in Nodes : Parent(n) = IF up[n] = {n} THEN NoNode
                                         ELSE CHOOSE p \in up[n] \ {n} : up[p] = up[n] \ {n}
  <1>1. Tidy(up) /\ Live(up) = Nodes
    BY DEF Rooted, Tidy, Live, Nodes
  <1>2. ASSUME NEW n \in Nodes PROVE Segment(n) = Line(up, n) /\ SegmentLeaf(n) = Feet(up, n)
    <2>1. Segment(n) = RR!Tree(up)!Segment(n)
      BY SameCount DEF RR!Tree!Segment, Segment, RR!Tree!ChildCount, ChildCount,
                       RR!Tree!Children, Children, RR!Tree!Below, Below, RR!Tree!Subtree, Subtree
    <2>2. SegmentLeaf(n) = RR!Tree(up)!SegmentLeaf(n)
      BY SameCount DEF RR!Tree!SegmentLeaf, SegmentLeaf, RR!Tree!ChildCount, ChildCount,
                       RR!Tree!Children, Children, RR!Tree!Below, Below, RR!Tree!Subtree, Subtree
    <2> QED BY <1>1, <2>1, <2>2, StorageShape
  <1>3. ASSUME NEW n \in Hash \ Nodes PROVE SegmentLeaf(n) = {} /\ Segment(n) = {}
    <2>1. up[n] = {} /\ \A d \in Hash : n \notin up[d]
      BY <1>1, OverNodes DEF Nodes
    <2> QED BY <2>1 DEF SegmentLeaf, Segment, Subtree
  <1> QED BY <1>1, <1>2, <1>3 DEF Parent

-----------------------------------------------------------------------------
(* What the index should know, and what erase_segment() and                 *)
(* refresh_segment() do to it.                                              *)

Facts == [RR!Tiers -> [blocks : Nat, last : Nat]]

IndexType(x) ==
  x \in [segments : [Hash -> Facts], candidates : [RR!Tiers -> SUBSET (Nat \X Hash)],
         below : [Hash -> Int], program : [RR!Tiers -> Nat]]

\* The candidates of a tier are the keys of the segments that have blocks there.
Keys(f, t) == {<<f[e][t].last, e>> : e \in {e \in Hash : f[e][t].blocks # 0}}
Keyed(x) == \A t \in RR!Tiers : x.candidates[t] = Keys(x.segments, t)

\* The blocks of R on a tier, and the newest access of some.
On(R, s, t) == {n \in R : s[n] = t}
NewestOf(A, l) == CHOOSE a \in {l[n] : n \in A} : \A n \in A : l[n] <= a

\* What the blocks R of a segment make of it.
Told(R, s, l) ==
  [t \in RR!Tiers |-> IF On(R, s, t) = {} THEN RR!NoSegment[t]
                      ELSE [blocks |-> RR!Cardinality(On(R, s, t)), last |-> NewestOf(On(R, s, t), l)]]

Due(u, s, l, e) == IF e \in Ends(u) THEN Told(Line(u, e), s, l) ELSE RR!NoSegment

\* The newest access of a set of blocks is that of one of them.
LEMMA NewestIs ==
  ASSUME NEW A \in SUBSET Hash, A # {}, NEW l \in [Hash -> Nat]
  PROVE  /\ NewestOf(A, l) \in Nat
         /\ \E m \in A : NewestOf(A, l) = l[m] /\ \A n \in A : l[n] <= l[m]
  <1>1. PICK f : f = [n \in A |-> {m \in Hash : m \in A /\ l[n] <= l[m]}]
    OBVIOUS
  <1>2. \A n \in A : f[n] = {m \in Hash : m \in A /\ l[n] <= l[m]}
    BY <1>1
  <1>3. PICK m \in A : Least(A, f, m)
    <2>1. \A n \in A : f[n] \in SUBSET Hash
      BY <1>2
    <2> QED BY <2>1, LeastSet
  <1>4. ASSUME NEW n \in A, ~(l[n] <= l[m]) PROVE FALSE
    <2>1. l[n] \in Nat /\ l[m] \in Nat /\ l[m] < l[n]
      BY <1>4
    <2>2. ASSUME NEW d \in f[n] PROVE d \in f[m]
      <3>1. d \in Hash /\ d \in A /\ l[n] <= l[d] /\ l[d] \in Nat
        BY <1>2
      <3> QED BY <1>2, <2>1, <3>1
    <2>3. m \in f[m] /\ m \notin f[n]
      BY <1>2, <2>1
    <2> QED BY <1>3, <2>2, <2>3 DEF Least
  <1>5. \E a \in {l[n] : n \in A} : \A n \in A : l[n] <= a
    BY <1>4
  <1>6. /\ NewestOf(A, l) \in {l[n] : n \in A}
        /\ \A n \in A : l[n] <= NewestOf(A, l)
    BY <1>5 DEF NewestOf
  <1> QED BY <1>6

\* What a segment tells the index: per tier its blocks and the newest access of them.
LEMMA ToldIs ==
  ASSUME NEW R \in SUBSET Hash, NEW s, NEW l \in [Hash -> Nat]
  PROVE  /\ Told(R, s, l) \in Facts
         /\ \A t \in RR!Tiers : Told(R, s, l)[t].blocks = 0 <=> On(R, s, t) = {}
         /\ \A t \in RR!Tiers : On(R, s, t) # {} =>
               Told(R, s, l)[t] = [blocks |-> RR!Cardinality(On(R, s, t)),
                                   last |-> NewestOf(On(R, s, t), l)]
         /\ (\A t \in RR!Tiers : On(R, s, t) = {}) <=> Told(R, s, l) = RR!NoSegment
  <1>0. RR!NoSegment \in Facts /\ \A t \in RR!Tiers : RR!NoSegment[t] = [blocks |-> 0, last |-> 0]
    BY DEF RR!NoSegment, Facts
  <1>1. ASSUME NEW t \in RR!Tiers, On(R, s, t) # {}
        PROVE  /\ RR!Cardinality(On(R, s, t)) \in Nat \ {0}
               /\ NewestOf(On(R, s, t), l) \in Nat
    <2>1. On(R, s, t) \in SUBSET Hash
      BY DEF On
    <2> QED BY <1>1, <2>1, BlocksFinite, FS_EmptySet, NewestIs, SameCount
  <1>2. ASSUME NEW t \in RR!Tiers, On(R, s, t) = {}
        PROVE  Told(R, s, l)[t] = [blocks |-> 0, last |-> 0]
    BY <1>0, <1>2 DEF Told
  <1>3. ASSUME NEW t \in RR!Tiers, On(R, s, t) # {}
        PROVE  Told(R, s, l)[t] = [blocks |-> RR!Cardinality(On(R, s, t)),
                                   last |-> NewestOf(On(R, s, t), l)]
    BY <1>3 DEF Told
  <1>4. ASSUME NEW t \in RR!Tiers
        PROVE  /\ Told(R, s, l)[t] \in [blocks : Nat, last : Nat]
               /\ Told(R, s, l)[t].blocks = 0 <=> On(R, s, t) = {}
    <2>1. CASE On(R, s, t) = {}
      BY <1>2, <2>1
    <2>2. CASE On(R, s, t) # {}
      <3>1. PICK c, m : c = RR!Cardinality(On(R, s, t)) /\ m = NewestOf(On(R, s, t), l)
        OBVIOUS
      <3>2. c \in Nat \ {0} /\ m \in Nat
        BY <1>1, <2>2, <3>1
      <3>3. Told(R, s, l)[t] = [blocks |-> c, last |-> m]
        BY <1>3, <2>2, <3>1
      <3> QED BY <2>2, <3>2, <3>3
    <2> QED BY <2>1, <2>2
  <1>5. /\ Told(R, s, l) = [t \in RR!Tiers |-> Told(R, s, l)[t]]
        /\ RR!NoSegment = [t \in RR!Tiers |-> [blocks |-> 0, last |-> 0]]
    BY DEF Told, RR!NoSegment
  <1>6. Told(R, s, l) \in Facts
    BY <1>4, <1>5 DEF Facts
  <1>7. ASSUME \A t \in RR!Tiers : On(R, s, t) = {} PROVE Told(R, s, l) = RR!NoSegment
    BY <1>2, <1>5, <1>7
  <1>8. ASSUME Told(R, s, l) = RR!NoSegment, NEW t \in RR!Tiers PROVE On(R, s, t) = {}
    BY <1>0, <1>4, <1>8
  <1> QED BY <1>3, <1>4, <1>6, <1>7, <1>8

\* Blocks that are nowhere tell nothing, those that stay tell the same.
LEMMA ToldSame ==
  ASSUME NEW R, NEW Q, NEW s, NEW z, NEW l, NEW m,
         \A t \in RR!Tiers : On(R, s, t) = On(Q, z, t),
         \A t \in RR!Tiers : \A n \in On(R, s, t) : l[n] = m[n]
  PROVE  Told(R, s, l) = Told(Q, z, m)
  <1>1. ASSUME NEW t \in RR!Tiers PROVE NewestOf(On(R, s, t), l) = NewestOf(On(Q, z, t), m)
    <2>1. \A n \in On(R, s, t) : l[n] = m[n]
      OBVIOUS
    <2>2. {l[n] : n \in On(R, s, t)} = {m[n] : n \in On(R, s, t)}
      BY <2>1
    <2>3. \A a : (\A n \in On(R, s, t) : l[n] <= a) <=> (\A n \in On(R, s, t) : m[n] <= a)
      BY <2>1
    <2> QED BY <2>2, <2>3 DEF NewestOf
  <1> QED BY <1>1 DEF Told

\* Erasing a segment clears its facts and leaves the other segments as they were.
LEMMA EraseIs ==
  ASSUME NEW x, IndexType(x), NEW e \in Hash
  PROVE  /\ IndexType(RR!Erase(x, e))
         /\ RR!Erase(x, e).segments = [x.segments EXCEPT ![e] = RR!NoSegment]
         /\ RR!Erase(x, e).below = x.below
         /\ Keyed(x) => Keyed(RR!Erase(x, e))
  <1> DEFINE y == RR!Erase(x, e)
             cut(t) == IF x.segments[e][t].blocks = 0 THEN x.candidates[t]
                       ELSE x.candidates[t] \ {<<x.segments[e][t].last, e>>}
  <1>0. RR!NoSegment \in Facts /\ \A t \in RR!Tiers : RR!NoSegment[t].blocks = 0
    BY DEF RR!NoSegment, Facts
  <1>1. /\ y.segments = [x.segments EXCEPT ![e] = RR!NoSegment]
        /\ y.candidates = [t \in RR!Tiers |-> cut(t)]
        /\ y.below = x.below /\ y.program = x.program
        /\ y = [segments |-> y.segments, candidates |-> y.candidates,
                below |-> y.below, program |-> y.program]
    <2>1. PICK c : c = [t \in RR!Tiers |-> cut(t)]
      OBVIOUS
    <2>2. y = [x EXCEPT !.segments = [x.segments EXCEPT ![e] = RR!NoSegment], !.candidates = c]
      BY <2>1 DEF RR!Erase
    <2> HIDE DEF y, cut
    <2>3. /\ y.segments = [x.segments EXCEPT ![e] = RR!NoSegment]
          /\ y.candidates = c /\ y.below = x.below /\ y.program = x.program
      BY <2>2 DEF IndexType
    <2>4. y = [segments |-> y.segments, candidates |-> y.candidates,
                below |-> y.below, program |-> y.program]
      BY <2>2, <2>3 DEF IndexType
    <2> QED BY <2>1, <2>3, <2>4
  <1> HIDE DEF y
  <1>2. y.segments \in [Hash -> Facts]
    BY <1>0, <1>1 DEF IndexType
  <1>3. y.candidates \in [RR!Tiers -> SUBSET (Nat \X Hash)]
    BY <1>1 DEF IndexType
  <1>4. IndexType(y)
    BY <1>1, <1>2, <1>3 DEF IndexType
  <1>5. ASSUME Keyed(x), NEW t \in RR!Tiers PROVE y.candidates[t] = Keys(y.segments, t)
    <2>1. /\ x.candidates[t] = Keys(x.segments, t) /\ y.candidates[t] = cut(t)
          /\ y.segments[e][t].blocks = 0
          /\ \A h \in Hash \ {e} : y.segments[h] = x.segments[h]
      BY <1>0, <1>1, <1>5 DEF Keyed, IndexType
    <2>2. CASE x.segments[e][t].blocks = 0
      BY <2>1, <2>2 DEF Keys
    <2>3. CASE x.segments[e][t].blocks # 0
      <3>1. \A k : k \in Keys(y.segments, t) <=> k \in Keys(x.segments, t) /\ k # <<x.segments[e][t].last, e>>
        BY <2>1 DEF Keys
      <3> QED BY <2>1, <2>3, <3>1
    <2> QED BY <2>2, <2>3
  <1> QED BY <1>1, <1>4, <1>5 DEF Keyed, y

\* Refreshing an end stores what its segment tells, and nothing else.
LEMMA RefreshIs ==
  ASSUME NEW u, Tidy(u), NEW x, IndexType(x), NEW e \in Live(u), NEW s, NEW l \in [Hash -> Nat]
  PROVE  /\ IndexType(RR!Refresh(x, u, s, l, e))
         /\ RR!Refresh(x, u, s, l, e).segments = [x.segments EXCEPT ![e] = Told(Line(u, e), s, l)]
         /\ RR!Refresh(x, u, s, l, e).below = x.below
         /\ Keyed(x) => Keyed(RR!Refresh(x, u, s, l, e))
  <1> DEFINE z == RR!Refresh(x, u, s, l, e)
             y == RR!Erase(x, e)
             R == RR!Tree(u)!Segment(e)
             ext(t) == IF On(R, s, t) = {} THEN y.candidates[t]
                       ELSE y.candidates[t] \cup {<<NewestOf(On(R, s, t), l), e>>}
  <1>0. R = Line(u, e) /\ R \in SUBSET Hash /\ e \in Hash
    BY StorageShape, EndInLine DEF Live
  <1>1. /\ IndexType(y) /\ y.segments = [x.segments EXCEPT ![e] = RR!NoSegment]
        /\ y.below = x.below
        /\ Keyed(x) => Keyed(y)
    BY <1>0, EraseIs
  <1>2. PICK c : c = [t \in RR!Tiers |-> ext(t)]
    OBVIOUS
  <1>3. z = [y EXCEPT !.segments[e] = Told(R, s, l), !.candidates = c]
    BY <1>2 DEF RR!Refresh, Told, On, NewestOf
  <1>4. /\ Told(R, s, l) \in Facts
        /\ \A t \in RR!Tiers : Told(R, s, l)[t].blocks = 0 <=> On(R, s, t) = {}
        /\ \A t \in RR!Tiers : On(R, s, t) # {} =>
              Told(R, s, l)[t].last = NewestOf(On(R, s, t), l) /\ NewestOf(On(R, s, t), l) \in Nat
    <2>1. ASSUME NEW t \in RR!Tiers, On(R, s, t) # {}
          PROVE  Told(R, s, l)[t].last = NewestOf(On(R, s, t), l) /\ NewestOf(On(R, s, t), l) \in Nat
      <3>1. Told(R, s, l)[t] = [blocks |-> RR!Cardinality(On(R, s, t)),
                                last |-> NewestOf(On(R, s, t), l)]
        BY <1>0, <2>1, ToldIs
      <3>2. On(R, s, t) \in SUBSET Hash
        BY <1>0 DEF On
      <3> QED BY <2>1, <3>1, <3>2, NewestIs
    <2> QED BY <1>0, <2>1, ToldIs
  <1> HIDE DEF y, z, R, ext
  <1>5. /\ z.segments = [x.segments EXCEPT ![e] = Told(R, s, l)]
        /\ z.candidates = c /\ z.below = x.below /\ z.program = y.program
    <2>1. /\ z.segments = [y.segments EXCEPT ![e] = Told(R, s, l)]
          /\ z.candidates = c /\ z.below = y.below /\ z.program = y.program
      BY <1>1, <1>3 DEF IndexType
    <2>2. x.segments \in [Hash -> Facts]
      BY DEF IndexType
    <2>3. z.segments = [x.segments EXCEPT ![e] = Told(R, s, l)]
      BY <1>1, <2>1, <2>2
    <2> QED BY <1>1, <2>1, <2>3
  <1>6. z = [segments |-> z.segments, candidates |-> z.candidates,
             below |-> z.below, program |-> z.program]
    BY <1>1, <1>3 DEF IndexType
  <1>7. IndexType(z)
    <2>1. z.segments \in [Hash -> Facts] /\ z.below \in [Hash -> Int] /\ z.program \in [RR!Tiers -> Nat]
      BY <1>1, <1>4, <1>5 DEF IndexType
    <2>2. ASSUME NEW t \in RR!Tiers PROVE ext(t) \in SUBSET (Nat \X Hash)
      <3>1. y.candidates[t] \in SUBSET (Nat \X Hash)
        BY <1>1 DEF IndexType
      <3> QED BY <1>0, <1>4, <3>1 DEF ext
    <2>3. z.candidates \in [RR!Tiers -> SUBSET (Nat \X Hash)]
      BY <1>2, <1>5, <2>2
    <2> QED BY <1>6, <2>1, <2>3 DEF IndexType
  <1>8. ASSUME Keyed(x), NEW t \in RR!Tiers PROVE z.candidates[t] = Keys(z.segments, t)
    <2>1. /\ y.candidates[t] = Keys(y.segments, t) /\ z.candidates[t] = ext(t)
          /\ y.segments[e][t].blocks = 0 /\ z.segments[e][t] = Told(R, s, l)[t]
          /\ \A h \in Hash \ {e} : z.segments[h] = y.segments[h]
      <3>1. RR!NoSegment[t].blocks = 0
        BY DEF RR!NoSegment
      <3>2. x.segments \in [Hash -> Facts]
        BY DEF IndexType
      <3>3. y.segments[e][t].blocks = 0
        BY <1>0, <1>1, <3>1, <3>2
      <3>4. /\ z.segments[e][t] = Told(R, s, l)[t]
            /\ \A h \in Hash \ {e} : z.segments[h] = y.segments[h]
        BY <1>0, <1>1, <1>5, <3>2
      <3>5. z.candidates[t] = ext(t) /\ y.candidates[t] = Keys(y.segments, t)
        BY <1>1, <1>2, <1>5, <1>8 DEF Keyed
      <3> QED BY <3>3, <3>4, <3>5
    <2>2. CASE On(R, s, t) = {}
      <3>1. z.segments[e][t].blocks = 0 /\ ext(t) = y.candidates[t]
        BY <1>4, <2>1, <2>2 DEF ext
      <3> QED BY <2>1, <3>1 DEF Keys
    <2>3. CASE On(R, s, t) # {}
      <3>1. PICK a : a = NewestOf(On(R, s, t), l)
        OBVIOUS
      <3>2. /\ z.segments[e][t].blocks # 0 /\ z.segments[e][t].last = a
            /\ ext(t) = y.candidates[t] \cup {<<a, e>>}
        BY <1>4, <2>1, <2>3, <3>1 DEF ext
      <3>3. \A k : k \in Keys(z.segments, t) <=> k \in Keys(y.segments, t) \/ k = <<a, e>>
        BY <1>0, <2>1, <3>2 DEF Keys
      <3> QED BY <2>1, <3>2, <3>3
    <2> QED BY <2>2, <2>3
  <1> QED BY <1>0, <1>5, <1>7, <1>8 DEF Keyed, z

-----------------------------------------------------------------------------
(* The index agrees with the tree u, the residency s and the access times l. *)

Held(u, s, h) == {d \in Hash : h \in u[d] /\ s[d] # None}

Agrees(x, u, s, l) == \A e \in Hash : x.segments[e] = Due(u, s, l, e)
Counted(x, u, s) == \A h \in Hash : x.below[h] = Cardinality(Held(u, s, h))

Indexed(x, u, s, l) == IndexType(x) /\ Keyed(x) /\ Agrees(x, u, s, l) /\ Counted(x, u, s)

Places(s) == s \in [Hash -> Tier \cup {None}]

\* Segments with the same stored blocks are due the same.
LEMMA DueSame ==
  ASSUME NEW u, NEW v, NEW s, NEW l, NEW e, NEW d, e \in Ends(u), d \in Ends(v),
         \A t \in RR!Tiers : On(Line(u, e), s, t) = On(Line(v, d), s, t)
  PROVE  Due(u, s, l, e) = Due(v, s, l, d)
  BY ToldSame DEF Due

\* A segment with nothing on the SSD is due nothing.
LEMMA DueNothing ==
  ASSUME NEW u, Tidy(u), NEW s, NEW l \in [Hash -> Nat], NEW e \in Ends(u)
  PROVE  Due(u, s, l, e) = RR!NoSegment <=> \A t \in RR!Tiers : On(Line(u, e), s, t) = {}
  <1>1. Line(u, e) \in SUBSET Hash
    BY EndInLine DEF Ends, Live
  <1> QED BY <1>1, ToldIs DEF Due

\* What every segment must tell after a node is created below p.
LEMMA SproutDue ==
  ASSUME NEW u, Tidy(u), NEW n \in Hash \ Live(u), NEW p \in Live(u) \cup {NoNode},
         NEW v, v = Sprout(u, n, p), NEW s, Places(s), s[n] = None, NEW l \in [Hash -> Nat]
  PROVE  /\ \A h \in Hash : Held(v, s, h) = Held(u, s, h)
         /\ Due(u, s, l, n) = RR!NoSegment
         /\ p = NoNode \/ ~Lonely(u, p) => \A e \in Hash : Due(v, s, l, e) = Due(u, s, l, e)
         /\ p # NoNode /\ Sons(u, p) = {} =>
              /\ Due(v, s, l, p) = RR!NoSegment
              /\ Due(v, s, l, n) = Due(u, s, l, p)
              /\ \A e \in Hash \ {n, p} : Due(v, s, l, e) = Due(u, s, l, e)
         /\ p # NoNode /\ Sons(u, p) # {} /\ Lonely(u, p) =>
              \A f \in Ends(u) : p \in Line(u, f) =>
                /\ Due(u, s, l, p) = RR!NoSegment
                /\ Due(u, s, l, f) = RR!NoSegment
                     <=> Due(v, s, l, p) = RR!NoSegment /\ Due(v, s, l, f) = RR!NoSegment
                /\ \A e \in Hash \ {p, f} : Due(v, s, l, e) = Due(u, s, l, e)
  <1>0. \A t \in RR!Tiers : s[n] # t
    BY DEF RR!Tiers, None
  <1>1. /\ Tidy(v) /\ Live(v) = Live(u) \cup {n} /\ Ends(u) \subseteq Live(u) /\ Ends(v) \subseteq Live(v)
        /\ \A x \in Hash \ {n} : v[x] = u[x]
    BY SproutTree DEF Ends
  <1>2. \A h \in Hash : Held(v, s, h) = Held(u, s, h)
    BY <1>1 DEF Held
  <1>3. Due(u, s, l, n) = RR!NoSegment
    BY <1>1 DEF Due
  <1>4. ASSUME n \in Ends(v), Line(v, n) = {n} PROVE Due(v, s, l, n) = RR!NoSegment
    <2>1. \A t \in RR!Tiers : On(Line(v, n), s, t) = {}
      BY <1>0, <1>4 DEF On
    <2> QED BY <1>1, <1>4, <2>1, DueNothing
  <1>5. ASSUME NEW e, e \in Ends(u) <=> e \in Ends(v), e \in Ends(u) => Line(v, e) = Line(u, e)
        PROVE  Due(v, s, l, e) = Due(u, s, l, e)
    BY <1>5 DEF Due
  <1>6. ASSUME p = NoNode \/ ~Lonely(u, p), NEW e \in Hash PROVE Due(v, s, l, e) = Due(u, s, l, e)
    <2>1. /\ Ends(v) = Ends(u) \cup {n} /\ Line(v, n) = {n}
          /\ \A d \in Ends(u) : Line(v, d) = Line(u, d)
      BY <1>6, SproutAlone
    <2> QED BY <1>3, <1>4, <1>5, <2>1
  <1>7. ASSUME p # NoNode, Sons(u, p) = {}
        PROVE  /\ Due(v, s, l, p) = RR!NoSegment
               /\ Due(v, s, l, n) = Due(u, s, l, p)
               /\ \A e \in Hash \ {n, p} : Due(v, s, l, e) = Due(u, s, l, e)
    <2>1. /\ p \in Ends(u) /\ Ends(v) = (Ends(u) \ {p}) \cup {n}
          /\ Line(v, n) = Line(u, p) \cup {n}
          /\ \A e \in Ends(u) \ {p} : Line(v, e) = Line(u, e)
      BY <1>7, SproutLonger
    <2>2. p # n
      BY <1>1, <2>1
    <2>3. Due(v, s, l, p) = RR!NoSegment
      BY <2>1, <2>2 DEF Due
    <2>4. \A t \in RR!Tiers : On(Line(v, n), s, t) = On(Line(u, p), s, t)
      BY <1>0, <2>1 DEF On
    <2>5. Due(v, s, l, n) = Due(u, s, l, p)
      BY <2>1, <2>4, DueSame
    <2>6. \A e \in Hash \ {n, p} : Due(v, s, l, e) = Due(u, s, l, e)
      BY <1>5, <2>1
    <2> QED BY <2>3, <2>5, <2>6
  <1>8. ASSUME p # NoNode, Sons(u, p) # {}, Lonely(u, p), NEW f \in Ends(u), p \in Line(u, f)
        PROVE  /\ Due(u, s, l, p) = RR!NoSegment
               /\ Due(u, s, l, f) = RR!NoSegment
                    <=> Due(v, s, l, p) = RR!NoSegment /\ Due(v, s, l, f) = RR!NoSegment
               /\ \A e \in Hash \ {p, f} : Due(v, s, l, e) = Due(u, s, l, e)
    <2>1. /\ p \notin Ends(u) /\ Ends(v) = Ends(u) \cup {p, n}
          /\ Line(v, n) = {n}
          /\ Line(v, p) = Line(u, f) \cap u[p]
          /\ Line(v, f) = Line(u, f) \ u[p]
          /\ \A e \in Ends(u) \ {f} : Line(v, e) = Line(u, e)
      BY <1>8, SproutCut
    <2>2. Due(u, s, l, p) = RR!NoSegment
      BY <2>1 DEF Due
    <2>3. /\ Due(u, s, l, f) = RR!NoSegment <=> \A t \in RR!Tiers : On(Line(u, f), s, t) = {}
          /\ Due(v, s, l, p) = RR!NoSegment <=> \A t \in RR!Tiers : On(Line(v, p), s, t) = {}
          /\ Due(v, s, l, f) = RR!NoSegment <=> \A t \in RR!Tiers : On(Line(v, f), s, t) = {}
      BY <1>1, <1>8, <2>1, DueNothing
    <2>4. \A t \in RR!Tiers : On(Line(u, f), s, t) = On(Line(v, p), s, t) \cup On(Line(v, f), s, t)
      BY <2>1 DEF On
    <2>5. \A e \in Hash \ {p, f} : Due(v, s, l, e) = Due(u, s, l, e)
      BY <1>3, <1>4, <1>5, <2>1
    <2> QED BY <2>2, <2>3, <2>4, <2>5
  <1> QED BY <1>2, <1>3, <1>6, <1>7, <1>8

\* What the callbacks ask of the tree around the new block.
LEMMA SproutQueries ==
  ASSUME NEW u, Tidy(u), NEW n \in Hash \ Live(u), NEW p \in Live(u) \cup {NoNode},
         NEW v, v = Sprout(u, n, p)
  PROVE  /\ IF v[n] = {n} THEN p = NoNode
            ELSE p = CHOOSE q \in v[n] \ {n} : v[q] = v[n] \ {n}
         /\ p # NoNode =>
              /\ Cardinality(Sons(v, p)) # 0
              /\ Cardinality(Sons(v, p)) = 1 <=> Sons(u, p) = {}
              /\ Cardinality(Sons(v, p)) = 2 <=> Sons(u, p) # {} /\ Lonely(u, p)
  <1>1. /\ Tidy(v) /\ Live(v) = Live(u) \cup {n}
        /\ v[n] = {n} \cup (IF p = NoNode THEN {} ELSE u[p])
        /\ \A x \in Hash \ {n} : v[x] = u[x] /\ n \notin u[x]
        /\ \A x \in Live(u) : Sons(v, x) = IF x = p THEN Sons(u, x) \cup {n} ELSE Sons(u, x)
    BY SproutTree
  <1>2. p # NoNode => /\ p \in Live(u) /\ p \in Hash /\ p # n /\ p \in u[p] /\ v[p] = u[p]
                      /\ v[n] = {n} \cup u[p] /\ n \notin u[p]
                      /\ Sons(v, p) = Sons(u, p) \cup {n} /\ n \notin Sons(u, p)
    BY <1>1 DEF Live, Tidy, Sons
  <1>3. IF v[n] = {n} THEN p = NoNode ELSE p = CHOOSE q \in v[n] \ {n} : v[q] = v[n] \ {n}
    <2>1. CASE p = NoNode
      BY <1>1, <2>1
    <2>2. CASE p # NoNode
      <3>1. v[n] # {n} /\ p \in v[n] \ {n} /\ v[p] = v[n] \ {n} /\ n \in Live(v)
        BY <1>1, <1>2, <2>2
      <3>2. PICK r \in v[n] \ {n} : \A q \in v[n] \ {n} : v[q] = v[n] \ {n} => q = r
        BY <1>1, <3>1, ParentExists
      <3>3. \A q \in v[n] \ {n} : v[q] = v[n] \ {n} => q = p
        BY <3>1, <3>2
      <3> QED BY <3>1, <3>3
    <2> QED BY <2>1, <2>2
  <1>4. ASSUME p # NoNode
        PROVE  /\ Cardinality(Sons(v, p)) # 0
               /\ Cardinality(Sons(v, p)) = 1 <=> Sons(u, p) = {}
               /\ Cardinality(Sons(v, p)) = 2 <=> Sons(u, p) # {} /\ Lonely(u, p)
    <2>1. Sons(v, p) = Sons(u, p) \cup {n} /\ n \notin Sons(u, p)
      BY <1>2, <1>4
    <2>2. Cardinality(Sons(v, p)) # 0
      BY <2>1, SonsCounted
    <2>3. Cardinality(Sons(v, p)) = 1 <=> Lonely(v, p) /\ Sons(v, p) # {}
      BY SonsCounted
    <2>4. Lonely(v, p) /\ Sons(v, p) # {} <=> Sons(u, p) = {}
      BY <2>1 DEF Lonely
    <2>5. ASSUME Cardinality(Sons(v, p)) = 2 PROVE Sons(u, p) # {} /\ Lonely(u, p)
      <3>1. PICK c \in Sons(v, p), d \in Sons(v, p) : c # d /\ Sons(v, p) = {c, d}
        BY <2>5, SonsCounted
      <3> QED BY <2>1, <3>1 DEF Lonely
    <2>6. ASSUME Sons(u, p) # {}, Lonely(u, p) PROVE Cardinality(Sons(v, p)) = 2
      <3>1. PICK c : c # n /\ Sons(v, p) = {c, n}
        BY <2>1, <2>6 DEF Lonely
      <3> QED BY <3>1, SonsCounted
    <2> QED BY <2>2, <2>3, <2>4, <2>5, <2>6
  <1> QED BY <1>3, <1>4

\* A second child of p lies beside the one it had, at the top of what was the
\* same segment.
LEMMA SproutJunction ==
  ASSUME NEW u, Tidy(u), NEW n \in Hash \ Live(u), NEW p \in Live(u), Sons(u, p) # {}, Lonely(u, p),
         NEW v, v = Sprout(u, n, p)
  PROVE  \E c \in Sons(u, p), f \in Ends(u) :
            /\ Sons(v, p) = {c, n} /\ c # n /\ c \in Live(v)
            /\ f # p /\ f # n /\ f \in Ends(v) /\ p \in Ends(v)
            /\ p \in Line(u, f) /\ Feet(u, p) = {f} /\ Feet(v, c) = {f}
  <1>0. /\ Tidy(v) /\ Live(v) = Live(u) \cup {n} /\ p # NoNode
        /\ p \in Hash /\ p # n /\ p \in u[p]
        /\ Sons(v, p) = Sons(u, p) \cup {n} /\ n \notin Sons(u, p)
    <2>1. p # NoNode /\ p \in Hash /\ p # n /\ p \in u[p] /\ n \notin Sons(u, p)
      BY SimulatorAssumption DEF Live, Tidy, Sons, NoNode
    <2>2. /\ Tidy(v) /\ Live(v) = Live(u) \cup {n}
          /\ \A x \in Live(u) : Sons(v, x) = IF x = p THEN Sons(u, x) \cup {n} ELSE Sons(u, x)
      BY SproutTree
    <2> QED BY <2>1, <2>2
  <1>1. PICK c \in Sons(u, p) : Sons(u, p) = {c}
    BY DEF Lonely
  <1>2. PICK f \in Ends(u) : Feet(u, p) = {f}
    BY <1>0, OneFoot
  <1>3. p \in Line(u, f) /\ f \in Live(u) /\ f \in Hash
    BY <1>2 DEF Feet, Ends, Live
  <1>4. /\ p \notin Ends(u) /\ Ends(v) = Ends(u) \cup {p, n} /\ f # p
        /\ Line(v, f) = Line(u, f) \ u[p]
    BY <1>0, <1>3, SproutCut
  <1>5. c \in Hash /\ p \in u[c] /\ c # p /\ c # n /\ c \in Live(v) /\ c \in Live(u)
    BY <1>0, <1>1 DEF Sons, Live
  <1>6. c \in Line(u, f)
    <2>1. p \in u[f] /\ \A x \in u[f] \ {f} : p \in u[x] => Lonely(u, x)
      BY <1>3 DEF Line
    <2>2. c \in u[f]
      BY <1>1, <1>3, <1>4, <2>1, OnTheWay
    <2>3. \A x \in u[f] : c \in u[x] => p \in u[x]
      BY <1>3, <1>5, OverNodes
    <2> QED BY <2>1, <2>2, <2>3 DEF Line
  <1>7. c \notin u[p]
    BY <1>0, <1>5, OverNodes
  <1>8. Feet(v, c) = {f}
    <2>1. PICK g \in Ends(v) : Feet(v, c) = {g}
      BY <1>0, <1>5, OneFoot
    <2>2. f \in Feet(v, c)
      BY <1>4, <1>6, <1>7 DEF Feet
    <2> QED BY <2>1, <2>2
  <1>9. Sons(v, p) = {c, n} /\ f # n
    BY <1>0, <1>1, <1>3
  <1> QED BY <1>2, <1>3, <1>4, <1>5, <1>8, <1>9

\* on_node_created() keeps the index in step with the tree.
LEMMA CreatedKeepsIndex ==
  ASSUME NEW u, Tidy(u), NEW n \in Hash \ Live(u), NEW p \in Live(u) \cup {NoNode},
         NEW v, v = Sprout(u, n, p), NEW s, Places(s), s[n] = None, NEW l \in [Hash -> Nat],
         NEW x, Indexed(x, u, s, l)
  PROVE  Indexed(RR!NodeCreated(x, v, s, l, n), v, s, l)
  <1> DEFINE z == RR!NodeCreated(x, v, s, l, n)
  <1> SUFFICES Indexed(z, v, s, l)
    OBVIOUS
  <1>1. /\ Tidy(v) /\ Live(v) = Live(u) \cup {n} /\ n \in Live(v) /\ p \in Live(v) \cup {NoNode}
        /\ p \in Hash \cup {NoNode} /\ NoNode \notin Hash
    BY SproutTree, SimulatorAssumption DEF Live, NoNode
  <1>2. /\ \A h \in Hash : Held(v, s, h) = Held(u, s, h)
        /\ Due(u, s, l, n) = RR!NoSegment
    BY SproutDue
  <1>3. /\ IndexType(x) /\ Keyed(x) /\ \A e \in Hash : x.segments[e] = Due(u, s, l, e)
        /\ Counted(x, v, s)
    BY <1>2 DEF Indexed, Agrees, Counted
  <1>4. RR!Tree(v)!Parent(n) = p
    BY SproutQueries DEF RR!Tree!Parent, RR!Tree!NoNode, NoNode
  <1>5. RR!Tree(v)!NoNode = NoNode
    BY DEF RR!Tree!NoNode, NoNode
  <1>6. p # NoNode => /\ RR!Tree(v)!ChildCount(p) = Cardinality(Sons(v, p))
                      /\ RR!Tree(v)!Children(p) = Sons(v, p)
                      /\ Cardinality(Sons(v, p)) \in Nat
    BY <1>1, StorageShape, SonsCounted
  <1>7. x.segments \in [Hash -> Facts]
    BY <1>3 DEF IndexType
  <1>8. CASE p = NoNode \/ ~Lonely(u, p)
    <2>1. z = x
      <3>1. p # NoNode => Cardinality(Sons(v, p)) # 1 /\ Cardinality(Sons(v, p)) # 2
        <4>1. ~Lonely(u, p) => Sons(u, p) # {}
          BY DEF Lonely
        <4> QED BY <1>8, <4>1, SproutQueries
      <3> QED BY <1>4, <1>5, <1>6, <3>1 DEF RR!NodeCreated
    <2>2. \A e \in Hash : Due(v, s, l, e) = Due(u, s, l, e)
      BY <1>8, SproutDue
    <2> HIDE DEF z
    <2> QED BY <1>3, <2>1, <2>2 DEF Indexed, Agrees
  <1>9. CASE p # NoNode /\ Sons(u, p) = {}
    <2>1. /\ Due(v, s, l, p) = RR!NoSegment
          /\ Due(v, s, l, n) = Due(u, s, l, p)
          /\ \A e \in Hash \ {n, p} : Due(v, s, l, e) = Due(u, s, l, e)
      BY <1>9, SproutDue
    <2>2. p \in Hash /\ p # n /\ n \in Ends(v)
      BY <1>1, <1>9, SproutLonely DEF Live
    <2>3. z = IF x.segments[p] # RR!NoSegment THEN RR!Refresh(RR!Erase(x, p), v, s, l, n) ELSE x
      <3>1. Cardinality(Sons(v, p)) = 1
        BY <1>9, SproutQueries
      <3> QED BY <1>4, <1>5, <1>6, <1>9, <3>1 DEF RR!NodeCreated, RR!Known
    <2> HIDE DEF z
    <2>4. CASE x.segments[p] = RR!NoSegment
      <3>1. \A e \in Hash : x.segments[e] = Due(v, s, l, e)
        BY <1>2, <1>3, <2>1, <2>2, <2>4
      <3> QED BY <1>3, <2>3, <2>4, <3>1 DEF Indexed, Agrees
    <2>5. CASE x.segments[p] # RR!NoSegment
      <3>1. PICK y : y = RR!Erase(x, p)
        OBVIOUS
      <3>2. /\ IndexType(y) /\ y.segments = [x.segments EXCEPT ![p] = RR!NoSegment]
            /\ y.below = x.below /\ Keyed(y)
        BY <1>3, <2>2, <3>1, EraseIs
      <3>3. /\ IndexType(z) /\ z.segments = [y.segments EXCEPT ![n] = Told(Line(v, n), s, l)]
            /\ z.below = x.below /\ Keyed(z)
        BY <1>1, <2>3, <2>5, <3>1, <3>2, RefreshIs
      <3>4. \A e \in Hash : z.segments[e] = Due(v, s, l, e)
        <4>1. Told(Line(v, n), s, l) = Due(v, s, l, n)
          BY <2>2 DEF Due
        <4> QED BY <1>3, <1>7, <2>1, <2>2, <3>2, <3>3, <4>1
      <3> QED BY <1>3, <3>3, <3>4 DEF Indexed, Agrees, Counted
    <2> QED BY <2>4, <2>5
  <1>10. CASE p # NoNode /\ Sons(u, p) # {} /\ Lonely(u, p)
    <2>1. PICK c \in Sons(u, p), f \in Ends(u) :
             /\ Sons(v, p) = {c, n} /\ c # n /\ c \in Live(v)
             /\ f # p /\ f # n /\ f \in Ends(v) /\ p \in Ends(v)
             /\ p \in Line(u, f) /\ Feet(u, p) = {f} /\ Feet(v, c) = {f}
      BY <1>10, SproutJunction
    <2>2. /\ Due(u, s, l, p) = RR!NoSegment
          /\ Due(u, s, l, f) = RR!NoSegment
               <=> Due(v, s, l, p) = RR!NoSegment /\ Due(v, s, l, f) = RR!NoSegment
          /\ \A e \in Hash \ {p, f} : Due(v, s, l, e) = Due(u, s, l, e)
      BY <1>10, <2>1, SproutDue
    <2>3. /\ p \in Hash /\ f \in Hash /\ f \in Live(v) /\ p \in Live(v)
          /\ Told(Line(v, p), s, l) = Due(v, s, l, p) /\ Told(Line(v, f), s, l) = Due(v, s, l, f)
      BY <2>1 DEF Ends, Live, Due
    <2>4. z = IF x.segments[f] # RR!NoSegment
              THEN RR!Refresh(RR!Refresh(x, v, s, l, p), v, s, l, f) ELSE x
      <3>1. Cardinality(Sons(v, p)) = 2
        BY <1>10, SproutQueries
      <3>2. (CHOOSE d \in RR!Tree(v)!Children(RR!Tree(v)!Parent(n)) : d # n) = c
        BY <1>4, <1>6, <1>10, <2>1
      <3>3. RR!LeafOf(v, CHOOSE d \in RR!Tree(v)!Children(RR!Tree(v)!Parent(n)) : d # n) = f
        BY <1>1, <2>1, <3>2, StorageShape DEF RR!LeafOf
      <3>4. PICK g : g = RR!LeafOf(v, CHOOSE d \in RR!Tree(v)!Children(RR!Tree(v)!Parent(n)) : d # n)
        OBVIOUS
      <3>5. PICK q : q = RR!Tree(v)!Parent(n)
        OBVIOUS
      <3>6. z = IF (IF q = RR!Tree(v)!NoNode THEN 0 ELSE RR!Tree(v)!ChildCount(q)) = 1
                THEN IF x.segments[q] # RR!NoSegment
                     THEN RR!Refresh(RR!Erase(x, q), v, s, l, n) ELSE x
                ELSE IF (IF q = RR!Tree(v)!NoNode THEN 0 ELSE RR!Tree(v)!ChildCount(q)) = 2
                        /\ x.segments[g] # RR!NoSegment
                THEN RR!Refresh(RR!Refresh(x, v, s, l, q), v, s, l, g)
                ELSE x
        BY <3>4, <3>5 DEF RR!NodeCreated, RR!Known
      <3>7. q = p /\ g = f
        BY <1>4, <3>3, <3>4, <3>5
      <3> HIDE DEF z
      <3> QED BY <1>5, <1>6, <1>10, <3>1, <3>6, <3>7
    <2> HIDE DEF z
    <2>5. CASE x.segments[f] = RR!NoSegment
      <3>1. \A e \in Hash : x.segments[e] = Due(v, s, l, e)
        BY <1>3, <2>2, <2>3, <2>5
      <3> QED BY <1>3, <2>4, <2>5, <3>1 DEF Indexed, Agrees
    <2>6. CASE x.segments[f] # RR!NoSegment
      <3>1. PICK y : y = RR!Refresh(x, v, s, l, p)
        OBVIOUS
      <3>2. /\ IndexType(y) /\ y.segments = [x.segments EXCEPT ![p] = Told(Line(v, p), s, l)]
            /\ y.below = x.below /\ Keyed(y)
        BY <1>1, <1>3, <2>3, <3>1, RefreshIs
      <3>3. /\ IndexType(z) /\ z.segments = [y.segments EXCEPT ![f] = Told(Line(v, f), s, l)]
            /\ z.below = x.below /\ Keyed(z)
        BY <1>1, <2>3, <2>4, <2>6, <3>1, <3>2, RefreshIs
      <3>4. \A e \in Hash : z.segments[e] = Due(v, s, l, e)
        BY <1>3, <1>7, <2>1, <2>2, <2>3, <3>2, <3>3
      <3> QED BY <1>3, <3>3, <3>4 DEF Indexed, Agrees, Counted
    <2> QED BY <2>5, <2>6
  <1> QED BY <1>8, <1>9, <1>10

\* And so does on_node_pruned(), which sees the tree without the leaf.
LEMMA PrunedKeepsIndex ==
  ASSUME NEW u, Tidy(u), NEW n \in Hash \ Live(u), NEW p \in Live(u) \cup {NoNode},
         NEW v, v = Sprout(u, n, p), NEW s, Places(s), s[n] = None, NEW l \in [Hash -> Nat],
         NEW x, Indexed(x, v, s, l)
  PROVE  Indexed(RR!NodePruned(x, u, s, l, n, p), u, s, l)
  <1> DEFINE z == RR!NodePruned(x, u, s, l, n, p)
  <1> SUFFICES Indexed(z, u, s, l)
    OBVIOUS
  <1>1. /\ p \in Hash \cup {NoNode} /\ NoNode \notin Hash /\ p # n
    BY SimulatorAssumption DEF Live, NoNode
  <1>2. /\ \A h \in Hash : Held(v, s, h) = Held(u, s, h)
        /\ Due(u, s, l, n) = RR!NoSegment
    BY SproutDue
  <1>3. /\ IndexType(x) /\ Keyed(x) /\ \A e \in Hash : x.segments[e] = Due(v, s, l, e)
        /\ Counted(x, u, s) /\ x.segments \in [Hash -> Facts]
    BY <1>2 DEF Indexed, Agrees, Counted, IndexType
  <1>4. PICK y : y = RR!Erase(x, n)
    OBVIOUS
  <1>5. /\ IndexType(y) /\ y.segments = [x.segments EXCEPT ![n] = RR!NoSegment]
        /\ y.below = x.below /\ Keyed(y) /\ y.segments \in [Hash -> Facts]
    <2>1. IndexType(y) /\ y.below = x.below /\ y.segments = [x.segments EXCEPT ![n] = RR!NoSegment]
      BY <1>3, <1>4, EraseIs
    <2> QED BY <1>3, <1>4, <2>1, EraseIs DEF IndexType
  <1>6. /\ y.segments[n] = RR!NoSegment
        /\ \A e \in Hash \ {n} : y.segments[e] = Due(v, s, l, e)
    BY <1>3, <1>5
  <1>7. Counted(y, u, s)
    BY <1>3, <1>5 DEF Counted
  <1>8. /\ p # NoNode => /\ RR!Tree(u)!ChildCount(p) = Cardinality(Sons(u, p))
                         /\ Cardinality(Sons(u, p)) \in Nat
                         /\ Cardinality(Sons(u, p)) = 0 <=> Sons(u, p) = {}
                         /\ Cardinality(Sons(u, p)) = 1 <=> Lonely(u, p) /\ Sons(u, p) # {}
        /\ RR!Tree(u)!NoNode = NoNode
    BY StorageShape, SonsCounted DEF RR!Tree!NoNode, NoNode
  <1>9. CASE p = NoNode \/ ~Lonely(u, p)
    <2>1. z = y
      <3>1. p # NoNode => Cardinality(Sons(u, p)) # 0 /\ Cardinality(Sons(u, p)) # 1
        BY <1>8, <1>9 DEF Lonely
      <3> QED BY <1>4, <1>8, <3>1 DEF RR!NodePruned
    <2>2. \A e \in Hash : Due(v, s, l, e) = Due(u, s, l, e)
      BY <1>9, SproutDue
    <2>3. \A e \in Hash : y.segments[e] = Due(u, s, l, e)
      BY <1>2, <1>6, <2>2
    <2> HIDE DEF z
    <2> QED BY <1>5, <1>7, <2>1, <2>3 DEF Indexed, Agrees
  <1>10. CASE p # NoNode /\ Sons(u, p) = {}
    <2>1. /\ Due(v, s, l, p) = RR!NoSegment
          /\ Due(v, s, l, n) = Due(u, s, l, p)
          /\ \A e \in Hash \ {n, p} : Due(v, s, l, e) = Due(u, s, l, e)
      BY <1>10, SproutDue
    <2>2. p \in Hash /\ p \in Live(u) /\ p \in Ends(u)
      BY <1>1, <1>10, SproutLonger
    <2>3. z = IF x.segments[n] # RR!NoSegment THEN RR!Refresh(y, u, s, l, p) ELSE y
      BY <1>4, <1>8, <1>10 DEF RR!NodePruned, RR!Known
    <2> HIDE DEF z
    <2>4. CASE x.segments[n] = RR!NoSegment
      <3>1. \A e \in Hash : y.segments[e] = Due(u, s, l, e)
        BY <1>2, <1>3, <1>6, <2>1, <2>2, <2>4
      <3> QED BY <1>5, <1>7, <2>3, <2>4, <3>1 DEF Indexed, Agrees
    <2>5. CASE x.segments[n] # RR!NoSegment
      <3>1. /\ IndexType(z) /\ z.segments = [y.segments EXCEPT ![p] = Told(Line(u, p), s, l)]
            /\ z.below = y.below /\ Keyed(z)
        BY <1>5, <2>2, <2>3, <2>5, RefreshIs
      <3>2. Told(Line(u, p), s, l) = Due(u, s, l, p)
        BY <2>2 DEF Due
      <3>3. \A e \in Hash : z.segments[e] = Due(u, s, l, e)
        BY <1>2, <1>5, <1>6, <2>1, <2>2, <3>1, <3>2
      <3> QED BY <1>7, <3>1, <3>3 DEF Indexed, Agrees, Counted
    <2> QED BY <2>4, <2>5
  <1>11. CASE p # NoNode /\ Sons(u, p) # {} /\ Lonely(u, p)
    <2>1. PICK c \in Sons(u, p), f \in Ends(u) :
             /\ Sons(v, p) = {c, n} /\ c # n /\ c \in Live(v)
             /\ f # p /\ f # n /\ f \in Ends(v) /\ p \in Ends(v)
             /\ p \in Line(u, f) /\ Feet(u, p) = {f} /\ Feet(v, c) = {f}
      BY <1>11, SproutJunction
    <2>2. /\ Due(u, s, l, p) = RR!NoSegment
          /\ Due(u, s, l, f) = RR!NoSegment
               <=> Due(v, s, l, p) = RR!NoSegment /\ Due(v, s, l, f) = RR!NoSegment
          /\ \A e \in Hash \ {p, f} : Due(v, s, l, e) = Due(u, s, l, e)
      BY <1>11, <2>1, SproutDue
    <2>3. /\ p \in Hash /\ f \in Hash /\ f \in Live(u) /\ p \in Live(u)
          /\ Told(Line(u, f), s, l) = Due(u, s, l, f)
      BY <1>11, <2>1 DEF Ends, Live, Due
    <2>4. z = IF y.segments[p] # RR!NoSegment \/ y.segments[f] # RR!NoSegment
              THEN RR!Refresh(RR!Erase(y, p), u, s, l, f) ELSE y
      <3>1. Cardinality(Sons(u, p)) = 1
        BY <1>8, <1>11
      <3>2. RR!LeafOf(u, p) = f
        BY <2>1, <2>3, StorageShape DEF RR!LeafOf
      <3> QED BY <1>4, <1>8, <1>11, <3>1, <3>2 DEF RR!NodePruned, RR!Known
    <2> HIDE DEF z
    <2>5. CASE y.segments[p] = RR!NoSegment /\ y.segments[f] = RR!NoSegment
      <3>1. \A e \in Hash : y.segments[e] = Due(u, s, l, e)
        BY <1>1, <1>2, <1>6, <2>1, <2>2, <2>3, <2>5
      <3> QED BY <1>5, <1>7, <2>4, <2>5, <3>1 DEF Indexed, Agrees
    <2>6. CASE ~(y.segments[p] = RR!NoSegment /\ y.segments[f] = RR!NoSegment)
      <3>1. PICK w : w = RR!Erase(y, p)
        OBVIOUS
      <3>2. /\ IndexType(w) /\ w.segments = [y.segments EXCEPT ![p] = RR!NoSegment]
            /\ w.below = y.below /\ Keyed(w)
        BY <1>5, <2>3, <3>1, EraseIs
      <3>3. /\ IndexType(z) /\ z.segments = [w.segments EXCEPT ![f] = Told(Line(u, f), s, l)]
            /\ z.below = y.below /\ Keyed(z)
        BY <2>3, <2>4, <2>6, <3>1, <3>2, RefreshIs
      <3>4. \A e \in Hash : z.segments[e] = Due(u, s, l, e)
        BY <1>2, <1>5, <1>6, <2>1, <2>2, <2>3, <3>2, <3>3
      <3> QED BY <1>7, <3>3, <3>4 DEF Indexed, Agrees, Counted
    <2> QED BY <2>5, <2>6
  <1> QED BY <1>9, <1>10, <1>11

-----------------------------------------------------------------------------
(* on_commit(): blocks of one segment were written, trimmed or accessed.    *)

\* Where only blocks of the segment that ends at f changed, it is enough to
\* refresh that one.
LEMMA RefreshSuffices ==
  ASSUME NEW u, Tidy(u), NEW s, NEW z, NEW l \in [Hash -> Nat], NEW m \in [Hash -> Nat],
         NEW x, IndexType(x), Keyed(x), Agrees(x, u, s, l), Counted(x, u, z),
         NEW f \in Ends(u),
         \A h \in Hash \ Line(u, f) : z[h] = s[h] /\ m[h] = l[h]
  PROVE  Indexed(RR!Refresh(x, u, z, m, f), u, z, m)
  <1> DEFINE y == RR!Refresh(x, u, z, m, f)
  <1> SUFFICES Indexed(y, u, z, m)
    OBVIOUS
  <1>1. f \in Live(u) /\ f \in Hash
    BY DEF Ends, Live
  <1>2. /\ IndexType(y) /\ y.segments = [x.segments EXCEPT ![f] = Told(Line(u, f), z, m)]
        /\ y.below = x.below /\ Keyed(y)
    BY <1>1, RefreshIs
  <1> HIDE DEF y
  <1>3. ASSUME NEW e \in Hash, e # f PROVE Due(u, z, m, e) = Due(u, s, l, e)
    <2>1. CASE e \in Ends(u)
      <3>1. \A h \in Line(u, e) : h \in Hash /\ h \notin Line(u, f)
        <4>1. ASSUME NEW h \in Line(u, e), h \in Line(u, f) PROVE FALSE
          <5>1. h \in Live(u)
            BY <2>1, EndInLine DEF Ends
          <5>2. PICK g \in Ends(u) : Feet(u, h) = {g}
            BY <5>1, OneFoot
          <5> QED BY <1>3, <2>1, <4>1, <5>2 DEF Feet
        <4>2. Line(u, e) \subseteq Hash
          BY <2>1, EndInLine DEF Ends, Live
        <4> QED BY <4>1, <4>2
      <3>2. \A t \in RR!Tiers : /\ On(Line(u, e), z, t) = On(Line(u, e), s, t)
                                /\ \A h \in On(Line(u, e), z, t) : m[h] = l[h]
        BY <3>1 DEF On
      <3> QED BY <2>1, <3>2, ToldSame DEF Due
    <2>2. CASE e \notin Ends(u)
      BY <2>2 DEF Due
    <2> QED BY <2>1, <2>2
  <1>4. Told(Line(u, f), z, m) = Due(u, z, m, f)
    BY DEF Due
  <1>5. \A e \in Hash : y.segments[e] = Due(u, z, m, e)
    <2>1. x.segments \in [Hash -> Facts]
      BY DEF IndexType
    <2> QED BY <1>1, <1>2, <1>3, <1>4, <2>1 DEF Agrees
  <1> QED BY <1>2, <1>5 DEF Indexed, Agrees, Counted

\* The nodes of K at or below a node.
Through(u, K, h) == {n \in K : h \in u[n]}
Changed(x, u, K, d, y) ==
  /\ IndexType(y) /\ y.segments = x.segments /\ Keyed(y)
  /\ \A h \in Hash : y.below[h] = x.below[h] + d * Cardinality(Through(u, K, h))

\* change_ancestors() adds d to the count of a node for each block of K below it.
LEMMA ChangeIs ==
  ASSUME NEW u, NEW x, IndexType(x), Keyed(x), NEW K \in SUBSET Hash, NEW d \in Int
  PROVE  Changed(x, u, K, d, RR!ChangeAncestors(x, u, K, d))
  <1> DEFINE y == RR!ChangeAncestors(x, u, K, d)
             b == [h \in Hash |-> x.below[h] + d * RR!Cardinality(Through(u, K, h))]
  <1>1. y = [x EXCEPT !.below = b]
    BY DEF RR!ChangeAncestors, Through
  <1>2. b \in [Hash -> Int] /\ \A h \in Hash : b[h] = x.below[h] + d * Cardinality(Through(u, K, h))
    <2>1. ASSUME NEW h \in Hash
          PROVE  /\ x.below[h] + d * RR!Cardinality(Through(u, K, h)) \in Int
                 /\ RR!Cardinality(Through(u, K, h)) = Cardinality(Through(u, K, h))
      <3>1. Through(u, K, h) \in SUBSET Hash
        BY DEF Through
      <3>2. PICK c : c = RR!Cardinality(Through(u, K, h))
        OBVIOUS
      <3>3. c \in Nat /\ c = Cardinality(Through(u, K, h))
        BY <3>1, <3>2, BlocksFinite, SameCount
      <3>4. x.below[h] \in Int
        BY DEF IndexType
      <3> QED BY <3>2, <3>3, <3>4
    <2> QED BY <2>1
  <1> HIDE DEF b, y
  <1>3. IndexType(y) /\ y.segments = x.segments /\ y.below = b /\ y.candidates = x.candidates
    BY <1>1, <1>2 DEF IndexType
  <1>4. Keyed(y)
    BY <1>3 DEF Keyed
  <1>5. Changed(x, u, K, d, y)
    BY <1>2, <1>3, <1>4 DEF Changed
  <1> QED BY <1>5 DEF y

\* Counting written bytes leaves the segments and the counts below alone.
LEMMA BookedIs ==
  ASSUME NEW x, IndexType(x), NEW t \in RR!Tiers, NEW c \in Nat
  PROVE  LET y == [x EXCEPT !.program[t] = @ + c]
         IN  /\ IndexType(y) /\ y.segments = x.segments /\ y.below = x.below
             /\ Keyed(x) => Keyed(y)
  <1> DEFINE y == [x EXCEPT !.program[t] = @ + c]
  <1>1. /\ y.segments = x.segments /\ y.below = x.below /\ y.candidates = x.candidates
        /\ y.program = [x.program EXCEPT ![t] = @ + c]
        /\ y = [segments |-> y.segments, candidates |-> y.candidates,
                below |-> y.below, program |-> y.program]
    BY DEF IndexType
  <1> HIDE DEF y
  <1>2. IndexType(y)
    BY <1>1 DEF IndexType
  <1> QED BY <1>1, <1>2 DEF Keyed, y

\* A commit names a node of the segment.
LEMMA CommitLeaf ==
  ASSUME NEW u, Tidy(u), NEW e \in Live(u), NEW f, Feet(u, e) = {f}
  PROVE  RR!Endpoint(u, e) = f
  BY StorageShape DEF RR!Endpoint, RR!LeafOf

\* The callback of a dump brings the index from the blocks before it to those after it.
LEMMA WrittenKeepsIndex ==
  ASSUME NEW u, Tidy(u), NEW s, Places(s), NEW z, Places(z), NEW l \in [Hash -> Nat], NEW m \in [Hash -> Nat],
         NEW x, Indexed(x, u, s, l), NEW e \in Live(u), NEW f, Feet(u, e) = {f},
         NEW K \in SUBSET Line(u, f), NEW t \in RR!Tiers,
         \A h \in K : s[h] = None /\ z[h] # None,
         \A h \in Hash \ K : z[h] = s[h] /\ m[h] = l[h]
  PROVE  Indexed(RR!Written(x, u, z, m, e, K, t), u, z, m)
  <1>0. /\ f \in Ends(u) /\ K \in SUBSET Hash /\ RR!Cardinality(K) \in Nat
        /\ RR!Endpoint(u, e) = f
    <2>1. f \in Ends(u) /\ Line(u, f) \subseteq Hash
      BY EndInLine DEF Feet, Ends, Live
    <2> QED BY <2>1, BlocksFinite, SameCount, CommitLeaf
  <1>1. PICK w : w = [x EXCEPT !.program[t] = @ + RR!Cardinality(K)]
    OBVIOUS
  <1>2. IndexType(w) /\ w.segments = x.segments /\ w.below = x.below /\ Keyed(w)
    BY <1>0, <1>1, BookedIs DEF Indexed
  <1>3. PICK y : y = RR!ChangeAncestors(w, u, K, 1)
    OBVIOUS
  <1>4. Changed(w, u, K, 1, y)
    BY <1>0, <1>2, <1>3, ChangeIs
  <1>5. Counted(y, u, z)
    <2> SUFFICES ASSUME NEW h \in Hash PROVE y.below[h] = Cardinality(Held(u, z, h))
      BY DEF Counted
    <2>1. PICK J : J = Through(u, K, h)
      OBVIOUS
    <2>2. /\ Held(u, z, h) = Held(u, s, h) \cup J /\ Held(u, s, h) \cap J = {}
          /\ Held(u, s, h) \in SUBSET Hash /\ J \in SUBSET Hash
      BY <1>0, <2>1 DEF Held, Through
    <2>3. Cardinality(Held(u, z, h)) = Cardinality(Held(u, s, h)) + Cardinality(J)
      BY <2>2, BlocksAdded
    <2>4. x.below[h] = Cardinality(Held(u, s, h)) /\ Cardinality(J) \in Nat
      BY <2>2, BlocksFinite DEF Indexed, Counted
    <2>5. PICK i, j : i = Cardinality(Held(u, s, h)) /\ j = Cardinality(J)
      OBVIOUS
    <2>6. y.below[h] = i + 1 * j /\ i \in Nat /\ j \in Nat
      BY <1>2, <1>4, <2>1, <2>2, <2>4, <2>5, BlocksFinite DEF Changed
    <2> QED BY <2>3, <2>5, <2>6
  <1>6. RR!Written(x, u, z, m, e, K, t) = RR!Refresh(y, u, z, m, f)
    BY <1>0, <1>1, <1>3 DEF RR!Written
  <1>7. \A h \in Hash \ Line(u, f) : z[h] = s[h] /\ m[h] = l[h]
    OBVIOUS
  <1>8. IndexType(y) /\ Keyed(y) /\ Agrees(y, u, s, l)
    BY <1>2, <1>4 DEF Changed, Indexed, Agrees
  <1> QED BY <1>0, <1>5, <1>6, <1>7, <1>8, RefreshSuffices

\* The callback of a trim does the same when blocks leave storage.
LEMMA TrimmedKeepsIndex ==
  ASSUME NEW u, Tidy(u), NEW s, Places(s), NEW z, Places(z), NEW l \in [Hash -> Nat], NEW m \in [Hash -> Nat],
         NEW x, Indexed(x, u, s, l), NEW e \in Live(u), NEW f, Feet(u, e) = {f},
         NEW K \in SUBSET Line(u, f),
         \A h \in K : s[h] # None /\ z[h] = None,
         \A h \in Hash \ K : z[h] = s[h] /\ m[h] = l[h]
  PROVE  Indexed(RR!Trimmed(x, u, z, m, e, K), u, z, m)
  <1>0. /\ f \in Ends(u) /\ K \in SUBSET Hash /\ RR!Endpoint(u, e) = f
    <2>1. f \in Ends(u) /\ Line(u, f) \subseteq Hash
      BY EndInLine DEF Feet, Ends, Live
    <2> QED BY <2>1, CommitLeaf
  <1>3. PICK y : y = RR!ChangeAncestors(x, u, K, -1)
    OBVIOUS
  <1>4. Changed(x, u, K, -1, y)
    BY <1>0, <1>3, ChangeIs DEF Indexed
  <1>5. Counted(y, u, z)
    <2> SUFFICES ASSUME NEW h \in Hash PROVE y.below[h] = Cardinality(Held(u, z, h))
      BY DEF Counted
    <2>1. PICK J : J = Through(u, K, h)
      OBVIOUS
    <2>2. /\ Held(u, s, h) = Held(u, z, h) \cup J /\ Held(u, z, h) \cap J = {}
          /\ Held(u, z, h) \in SUBSET Hash /\ J \in SUBSET Hash
      BY <1>0, <2>1 DEF Held, Through
    <2>3. Cardinality(Held(u, s, h)) = Cardinality(Held(u, z, h)) + Cardinality(J)
      BY <2>2, BlocksAdded
    <2>4. /\ x.below[h] = Cardinality(Held(u, s, h)) /\ Cardinality(J) \in Nat
          /\ Cardinality(Held(u, z, h)) \in Nat
      BY <2>2, BlocksFinite DEF Indexed, Counted
    <2>5. PICK i, j : i = Cardinality(Held(u, s, h)) /\ j = Cardinality(J)
      OBVIOUS
    <2>6. PICK k : k = Cardinality(Held(u, z, h))
      OBVIOUS
    <2>7. y.below[h] = i + (-1) * j /\ i = k + j /\ k \in Nat /\ j \in Nat
      BY <1>4, <2>1, <2>3, <2>4, <2>5, <2>6 DEF Changed
    <2>8. y.below[h] = k
      BY <2>7
    <2> QED BY <2>6, <2>8
  <1>6. RR!Trimmed(x, u, z, m, e, K) = RR!Refresh(y, u, z, m, f)
    BY <1>0, <1>3 DEF RR!Trimmed
  <1>7. \A h \in Hash \ Line(u, f) : z[h] = s[h] /\ m[h] = l[h]
    OBVIOUS
  <1>8. IndexType(y) /\ Keyed(y) /\ Agrees(y, u, s, l)
    BY <1>4 DEF Changed, Indexed, Agrees
  <1> QED BY <1>0, <1>5, <1>6, <1>7, <1>8, RefreshSuffices

\* The callback of an access does the same when only times of one segment change.
LEMMA TouchedKeepsIndex ==
  ASSUME NEW u, Tidy(u), NEW s, Places(s), NEW l \in [Hash -> Nat], NEW m \in [Hash -> Nat],
         NEW x, Indexed(x, u, s, l), NEW e \in Live(u), NEW f, Feet(u, e) = {f},
         \A h \in Hash \ Line(u, f) : m[h] = l[h]
  PROVE  Indexed(RR!Touched(x, u, s, m, e), u, s, m)
  <1>1. f \in Ends(u) /\ RR!Endpoint(u, e) = f
    BY CommitLeaf DEF Feet
  <1>2. RR!Touched(x, u, s, m, e) = RR!Refresh(x, u, s, m, f)
    BY <1>1 DEF RR!Touched
  <1>3. IndexType(x) /\ Keyed(x) /\ Agrees(x, u, s, l) /\ Counted(x, u, s)
    BY DEF Indexed
  <1>4. \A h \in Hash \ Line(u, f) : s[h] = s[h] /\ m[h] = l[h]
    OBVIOUS
  <1>5. Indexed(RR!Refresh(x, u, s, m, f), u, s, m)
    BY <1>1, <1>3, <1>4, RefreshSuffices
  <1> QED BY <1>2, <1>5

-----------------------------------------------------------------------------
(* The nodes that one step prunes.                                          *)

Down(u, h) == {d \in Hash : h \in u[d]}
Rank(u, h) == Cardinality(Down(u, h))

\* Nodes in line with all that is below them.
Tip(u, D) ==
  /\ D \subseteq Live(u)
  /\ \A h \in D : Down(u, h) \subseteq D
  /\ \A a, b \in D : a \in u[b] \/ b \in u[a]

\* The tree once the i deepest nodes of D are detached.
Cut(u, D, i) == [h \in Hash |-> IF h \in D /\ Rank(u, h) <= i THEN {} ELSE u[h]]

\* A node has more below it than the nodes below it.
LEMMA RanksDiffer ==
  ASSUME NEW u, Tidy(u), NEW D, Tip(u, D), NEW a \in D
  PROVE  /\ a \in Hash /\ a \in Down(u, a) /\ Down(u, a) \in SUBSET Hash
         /\ Rank(u, a) \in Nat \ {0} /\ Rank(u, a) <= Cardinality(D)
         /\ \A b \in Down(u, a) : Rank(u, b) \in Nat /\ Rank(u, b) <= Rank(u, a)
                                  /\ (Rank(u, b) = Rank(u, a) => b = a)
  <1>1. /\ a \in Hash /\ a \in u[a] /\ a \in Down(u, a) /\ Down(u, a) \in SUBSET Hash
        /\ Down(u, a) \subseteq D /\ D \in SUBSET Hash
    BY DEF Tip, Tidy, Live, Down
  <1>2. IsFiniteSet(D) /\ IsFiniteSet(Down(u, a)) /\ Rank(u, a) \in Nat
    BY <1>1, BlocksFinite DEF Rank
  <1>3. Rank(u, a) # 0 /\ Rank(u, a) <= Cardinality(D)
    BY <1>1, <1>2, FS_EmptySet, FS_Subset DEF Rank
  <1>4. ASSUME NEW b \in Down(u, a)
        PROVE  Rank(u, b) \in Nat /\ Rank(u, b) <= Rank(u, a) /\ (Rank(u, b) = Rank(u, a) => b = a)
    <2>1. b \in Hash /\ a \in u[b]
      BY DEF Down
    <2>2. \A d \in Hash : b \in u[d] => u[b] \subseteq u[d]
      BY OverNodes
    <2>3. Down(u, b) \in SUBSET Down(u, a)
      BY <2>1, <2>2 DEF Down
    <2>4. Rank(u, b) \in Nat
      BY <1>1, <2>3, BlocksFinite DEF Rank
    <2>5. /\ Cardinality(Down(u, b)) <= Cardinality(Down(u, a))
          /\ Cardinality(Down(u, b)) = Cardinality(Down(u, a)) => Down(u, b) = Down(u, a)
      BY <1>2, <2>3, FS_Subset
    <2>6. Down(u, b) = Down(u, a) => b = a
      BY <1>1, <2>1, OverNodes DEF Down
    <2> QED BY <2>4, <2>5, <2>6 DEF Rank
  <1> QED BY <1>1, <1>2, <1>3, <1>4

\* The ranks of the nodes of D are 1, 2, ... , each once.
LEMMA RankFound ==
  ASSUME NEW u, Tidy(u), NEW D, Tip(u, D), NEW i \in 1 .. Cardinality(D)
  PROVE  \E h \in D : Rank(u, h) = i /\ \A g \in D : Rank(u, g) = i => g = h
  <1>0. D \in SUBSET Hash /\ D \subseteq Live(u) /\ Cardinality(D) \in Nat /\ i \in Nat \ {0}
    BY BlocksFinite DEF Tip, Live
  <1>1. \A a \in D : /\ a \in Hash /\ a \in Down(u, a) /\ Rank(u, a) \in Nat \ {0}
                     /\ \A b \in Down(u, a) : Rank(u, b) \in Nat /\ Rank(u, b) <= Rank(u, a)
                                              /\ (Rank(u, b) = Rank(u, a) => b = a)
    BY RanksDiffer
  <1> DEFINE B == {h \in D : i <= Rank(u, h)}
  <1>2. B # {}
    <2>1. D # {}
      BY <1>0, FS_EmptySet
    <2>2. PICK t \in D : \A g \in D : g \in u[t] => g = t
      BY <1>0, <2>1, Extremes
    <2>3. \A g \in D : t \in u[g]
      BY <1>1, <2>2 DEF Tip, Down
    <2>4. Down(u, t) = D
      BY <1>0, <2>2, <2>3 DEF Down, Tip
    <2> QED BY <2>2, <2>4 DEF Rank
  <1>3. PICK h \in B : \A g \in B : h \in u[g] => g = h
    <2>1. B \in SUBSET Live(u)
      BY <1>0
    <2> HIDE DEF B
    <2> QED BY <1>2, <2>1, Extremes
  <1>4. h \in D /\ i <= Rank(u, h) /\ \A g \in Down(u, h) \ {h} : g \in D /\ Rank(u, g) < i
    <2>1. ASSUME NEW g \in Down(u, h) \ {h} PROVE g \in D /\ Rank(u, g) < i
      <3>1. g \in D /\ h \in u[g]
        BY DEF Tip, Down
      <3>2. g \notin B
        BY <1>3, <3>1
      <3>3. Rank(u, g) \in Nat /\ ~(i <= Rank(u, g))
        BY <1>1, <3>1, <3>2
      <3> QED BY <1>0, <3>1, <3>3
    <2> QED BY <2>1
  <1> HIDE DEF B
  <1>5. Rank(u, h) <= i
    <2>1. CASE Down(u, h) = {h}
      <3>1. Rank(u, h) = 1
        BY <2>1, FS_Singleton DEF Rank
      <3> QED BY <1>0, <3>1
    <2>2. CASE Down(u, h) # {h}
      <3> DEFINE E == Down(u, h) \ {h}
      <3>1. E # {} /\ E \in SUBSET Live(u) /\ E \subseteq D /\ E \in SUBSET Hash
        BY <1>0, <1>1, <1>4, <2>2
      <3>2. PICK g \in E : \A k \in E : k \in u[g] => k = g
        <4> HIDE DEF E
        <4> QED BY <3>1, Extremes
      <3>3. \A k \in E : g \in u[k]
        BY <1>1, <3>1, <3>2 DEF Tip, Down
      <3>4. Down(u, g) = E
        <4>1. ASSUME NEW d \in Down(u, g) PROVE d \in E
          <5>1. d \in Hash /\ g \in u[d] /\ h \in u[g] /\ g # h /\ g \in Hash
            BY <3>1, <3>2 DEF Down
          <5>2. h \in u[d] /\ u[g] \subseteq u[d]
            BY <5>1, OverNodes
          <5>3. d # h
            BY <5>1, OverNodes
          <5> QED BY <5>1, <5>2, <5>3 DEF Down
        <4> QED BY <3>1, <3>3, <4>1 DEF Down
      <3>5. Cardinality(E) < i
        BY <1>4, <3>2, <3>4 DEF Rank
      <3>6. Cardinality(Down(u, h)) = Cardinality(E) + 1
        <4>1. Down(u, h) = E \cup {h} /\ E \cap {h} = {}
          BY <1>1, <1>4
        <4>2. {h} \in SUBSET Hash /\ Cardinality({h}) = 1
          BY <1>0, <1>4, FS_Singleton
        <4> HIDE DEF E
        <4>3. Cardinality(E \cup {h}) = Cardinality(E) + Cardinality({h})
          BY <3>1, <4>1, <4>2, BlocksAdded
        <4> QED BY <4>1, <4>2, <4>3
      <3>7. Cardinality(E) \in Nat
        BY <3>1, BlocksFinite
      <3> HIDE DEF E
      <3> QED BY <1>0, <3>5, <3>6, <3>7 DEF Rank
    <2> QED BY <2>1, <2>2
  <1>6. Rank(u, h) = i
    BY <1>0, <1>1, <1>4, <1>5
  <1>7. ASSUME NEW g \in D, Rank(u, g) = i PROVE g = h
    <2>1. g \in u[h] \/ h \in u[g]
      BY <1>4 DEF Tip
    <2>2. h \in Down(u, g) \/ g \in Down(u, h)
      BY <1>1, <1>4, <2>1 DEF Down
    <2> QED BY <1>1, <1>4, <1>6, <1>7, <2>2
  <1> QED BY <1>4, <1>6, <1>7

\* Without the deepest nodes of D it is a tree still.
LEMMA CutTree ==
  ASSUME NEW u, Tidy(u), NEW D, Tip(u, D), NEW i \in Nat, NEW w, w = Cut(u, D, i)
  PROVE  /\ Tidy(w) /\ Live(w) = Live(u) \ {h \in D : Rank(u, h) <= i}
         /\ \A h \in Live(w) : w[h] = u[h]
         /\ \A h \in Hash : h \notin Live(w) => w[h] = {}
  <1> DEFINE G == {h \in D : Rank(u, h) <= i}
  <1>1. w = [h \in Hash |-> IF h \in G THEN {} ELSE u[h]]
    BY DEF Cut
  <1>2. \A h \in G : h \in Hash /\ \A d \in Hash : h \in u[d] => d \in G
    <2> SUFFICES ASSUME NEW h \in G, NEW d \in Hash, h \in u[d] PROVE d \in G
      BY DEF Tip, Live
    <2>1. h \in D /\ d \in Down(u, h) /\ d \in D
      BY DEF Tip, Down
    <2>2. Rank(u, h) \in Nat /\ Rank(u, d) \in Nat /\ Rank(u, d) <= Rank(u, h) /\ Rank(u, h) <= i
      BY <2>1, RanksDiffer
    <2>3. Rank(u, d) <= i
      BY <2>2
    <2> QED BY <2>1, <2>3
  <1> HIDE DEF G
  <1>3. /\ \A h \in Hash : w[h] = IF h \in G THEN {} ELSE u[h]
        /\ w \in [Hash -> SUBSET Hash]
    BY <1>1 DEF Tidy
  <1>4. Live(w) = Live(u) \ G
    BY <1>3 DEF Live
  <1>5. \A h \in Live(w) : w[h] = u[h] /\ h \in Hash /\ h \in Live(u) /\ h \notin G
    BY <1>3, <1>4 DEF Live
  <1>6. \A h \in Live(w) : \A a \in w[h] : a \in Hash /\ a \notin G /\ a \in Live(u) /\ a \in Live(w)
    <2> SUFFICES ASSUME NEW h \in Live(w), NEW a \in w[h]
                 PROVE  a \in Hash /\ a \notin G /\ a \in Live(u) /\ a \in Live(w)
      OBVIOUS
    <2>1. h \in Hash /\ a \in u[h] /\ h \notin G
      BY <1>5
    <2>2. a \in Hash /\ a \in Live(u)
      BY <2>1, OverNodes
    <2> QED BY <1>2, <1>4, <2>1, <2>2
  <1>7. Tidy(w)
    <2>1. ASSUME NEW h \in Live(w)
          PROVE  h \in w[h] /\ \A a \in w[h] : a \in w[a] /\ w[a] \subseteq w[h]
      <3>1. h \in Live(u) /\ w[h] = u[h] /\ \A a \in u[h] : w[a] = u[a]
        BY <1>5, <1>6
      <3> QED BY <3>1 DEF Tidy
    <2>2. ASSUME NEW h \in Live(w) PROVE \A a, b \in w[h] : a \in w[b] \/ b \in w[a]
      <3>1. h \in Live(u) /\ w[h] = u[h] /\ \A a \in u[h] : w[a] = u[a]
        BY <1>5, <1>6
      <3> QED BY <3>1 DEF Tidy
    <2>3. \A a, b \in Live(w) : a \in w[b] /\ b \in w[a] => a = b
      BY <1>5 DEF Tidy
    <2> QED BY <1>3, <2>1, <2>2, <2>3 DEF Tidy
  <1> QED BY <1>3, <1>4, <1>5, <1>7 DEF G, Live

\* And the i-th node was a leaf of the tree before.
LEMMA CutStep ==
  ASSUME NEW u, Tidy(u), NEW D, Tip(u, D), NEW i \in 1 .. Cardinality(D),
         NEW n \in D, Rank(u, n) = i, NEW p,
         p = IF u[n] = {n} THEN NoNode ELSE CHOOSE q \in u[n] \ {n} : u[q] = u[n] \ {n},
         NEW w, w = Cut(u, D, i)
  PROVE  /\ n \in Hash \ Live(w) /\ p \in Live(w) \cup {NoNode}
         /\ Cut(u, D, i - 1) = Sprout(w, n, p)
  <1>0. D \in SUBSET Hash /\ Cardinality(D) \in Nat /\ i \in Nat \ {0} /\ i - 1 \in Nat
    BY BlocksFinite DEF Tip, Live
  <1>1. /\ n \in Hash /\ n \in Live(u) /\ n \in u[n]
        /\ \A g \in D : Rank(u, g) \in Nat /\ (Rank(u, g) = i => g = n)
    <2>1. PICK h \in D : Rank(u, h) = i /\ \A g \in D : Rank(u, g) = i => g = h
      BY RankFound
    <2>2. \A g \in D : Rank(u, g) \in Nat
      BY RanksDiffer
    <2> QED BY <2>1, <2>2 DEF Tip, Live, Tidy
  <1>2. /\ Live(w) = Live(u) \ {h \in D : Rank(u, h) <= i}
        /\ \A h \in Live(w) : w[h] = u[h]
        /\ \A h \in Hash : h \notin Live(w) => w[h] = {}
    BY <1>0, CutTree
  <1>3. n \notin Live(w)
    BY <1>0, <1>1, <1>2
  <1>4. CASE u[n] = {n}
    <2>1. p = NoNode
      BY <1>4
    <2>2. Sprout(w, n, p) = [w EXCEPT ![n] = u[n]]
      BY <1>4, <2>1 DEF Sprout
    <2>3. Sprout(w, n, p) = [h \in Hash |-> IF h = n THEN u[n] ELSE w[h]]
      BY <1>1, <2>2 DEF Cut
    <2>4. ASSUME NEW h \in Hash, h # n
          PROVE  w[h] = IF h \in D /\ Rank(u, h) <= i - 1 THEN {} ELSE u[h]
      <3>1. w[h] = IF h \in D /\ Rank(u, h) <= i THEN {} ELSE u[h]
        BY DEF Cut
      <3>2. h \in D => (Rank(u, h) <= i <=> Rank(u, h) <= i - 1)
        BY <1>0, <1>1, <2>4
      <3> QED BY <3>1, <3>2
    <2>5. ~(Rank(u, n) <= i - 1)
      BY <1>0
    <2>6. Sprout(w, n, p) = Cut(u, D, i - 1)
      BY <2>3, <2>4, <2>5 DEF Cut
    <2> QED BY <1>1, <1>3, <2>1, <2>6
  <1>5. CASE u[n] # {n}
    <2>1. PICK r \in u[n] \ {n} : /\ u[r] = u[n] \ {n} /\ n \in Sons(u, r)
                                  /\ \A q \in u[n] \ {n} : u[q] = u[n] \ {n} => q = r
      BY <1>1, <1>5, ParentExists
    <2>2. p = r
      <3>1. \E q \in u[n] \ {n} : u[q] = u[n] \ {n}
        BY <2>1
      <3>2. p \in u[n] \ {n} /\ u[p] = u[n] \ {n}
        BY <1>5, <3>1
      <3> QED BY <2>1, <3>2
    <2>3. p \in Hash /\ p \in Live(u) /\ p \in u[n] /\ p # n
      BY <1>1, <2>1, <2>2, OverNodes
    <2>4. p \in D => ~(Rank(u, p) <= i)
      <3> SUFFICES ASSUME p \in D, Rank(u, p) <= i PROVE FALSE
        OBVIOUS
      <3>1. n \in Down(u, p)
        BY <1>1, <2>3 DEF Down
      <3>2. Rank(u, p) \in Nat /\ Rank(u, n) <= Rank(u, p) /\ Rank(u, n) # Rank(u, p)
        BY <2>3, <3>1, RanksDiffer
      <3> QED BY <1>0, <3>2
    <2>5. p \in Live(w) /\ w[p] = u[p]
      BY <1>2, <2>3, <2>4
    <2>6. p # NoNode
      BY <2>3, SimulatorAssumption DEF NoNode
    <2>7. {n} \cup w[p] = u[n]
      BY <1>1, <2>1, <2>2, <2>5
    <2>8. Sprout(w, n, p) = [w EXCEPT ![n] = u[n]]
      BY <2>6, <2>7 DEF Sprout
    <2>9. Sprout(w, n, p) = [h \in Hash |-> IF h = n THEN u[n] ELSE w[h]]
      BY <1>1, <2>8 DEF Cut
    <2>10. ASSUME NEW h \in Hash, h # n
          PROVE  w[h] = IF h \in D /\ Rank(u, h) <= i - 1 THEN {} ELSE u[h]
      <3>1. w[h] = IF h \in D /\ Rank(u, h) <= i THEN {} ELSE u[h]
        BY DEF Cut
      <3>2. h \in D => (Rank(u, h) <= i <=> Rank(u, h) <= i - 1)
        BY <1>0, <1>1, <2>10
      <3> QED BY <3>1, <3>2
    <2>11. ~(Rank(u, n) <= i - 1)
      BY <1>0
    <2>12. Sprout(w, n, p) = Cut(u, D, i - 1)
      BY <2>9, <2>10, <2>11 DEF Cut
    <2> QED BY <1>1, <1>3, <2>5, <2>12
  <1> QED BY <1>4, <1>5

\* What a step prunes from blocks in line is a tip of the tree.
LEMMA PrunedTip ==
  ASSUME Rooted, NEW e \in Nodes, NEW S \in SUBSET up[e], NEW K, up' = Pruned(S, K)
  PROVE  /\ Tip(up, Dead) /\ Dead \cap K = {}
         /\ up' = Cut(up, Dead, Cardinality(Dead)) /\ up = Cut(up, Dead, 0)
  <1> DEFINE reach == UNION {up[s] : s \in S}
             dead == {n \in reach : Subtree(n) \subseteq reach \ K}
  <1>0. /\ Tidy(up) /\ Live(up) = Nodes /\ e \in Hash
        /\ up' = [h \in Hash |-> IF h \in dead THEN {} ELSE up[h]]
    BY OwnShape DEF Pruned, Nodes
  <1>1. /\ reach \subseteq up[e]
        /\ \A n \in reach : n \in Nodes /\ n \in Hash
    <2>1. ASSUME NEW n \in reach PROVE n \in up[e]
      <3>1. PICK s \in S : n \in up[s]
        OBVIOUS
      <3> QED BY <1>0, <3>1, OverNodes
    <2> QED BY <1>0, <2>1, OverNodes
  <1>2. \A n \in dead : \A d \in Hash : n \in up[d] => d \in reach /\ d \notin K
    BY DEF Subtree
  <1>3. \A n \in dead : n \in reach /\ n \notin K
    <2> SUFFICES ASSUME NEW n \in dead PROVE n \in reach /\ n \notin K
      OBVIOUS
    <2>1. n \in Hash /\ n \in up[n]
      BY <1>0, <1>1, OverNodes
    <2> QED BY <1>2, <2>1
  <1>4. \A n \in dead : \A d \in Hash : n \in up[d] => d \in dead
    <2> SUFFICES ASSUME NEW n \in dead, NEW d \in Hash, n \in up[d] PROVE d \in dead
      OBVIOUS
    <2>1. d \in reach
      BY <1>2
    <2>2. ASSUME NEW b \in Hash, d \in up[b] PROVE b \in reach /\ b \notin K
      <3>1. n \in up[b]
        BY <1>0, <2>2, OverNodes
      <3> QED BY <1>2, <3>1
    <2> QED BY <2>1, <2>2 DEF Subtree
  <1> HIDE DEF dead
  <1>5. Dead = dead
    <2>1. \A h \in Hash : up'[h] = IF h \in dead THEN {} ELSE up[h]
      BY <1>0
    <2>2. \A h \in dead : h \in Nodes
      BY <1>1, <1>3
    <2> QED BY <2>1, <2>2 DEF Dead, Nodes
  <1>6. \A a, b \in dead : a \in up[b] \/ b \in up[a]
    BY <1>0, <1>1, <1>3 DEF Tidy, Nodes
  <1>7. Tip(up, Dead)
    BY <1>0, <1>1, <1>3, <1>4, <1>5, <1>6 DEF Tip, Down
  <1>8. \A h \in Dead : Rank(up, h) \in Nat \ {0} /\ Rank(up, h) <= Cardinality(Dead)
    BY <1>0, <1>7, RanksDiffer
  <1>9. up' = Cut(up, Dead, Cardinality(Dead))
    BY <1>0, <1>5, <1>8 DEF Cut
  <1>10. up = Cut(up, Dead, 0)
    <2>1. \A h \in Dead : ~(Rank(up, h) <= 0)
      BY <1>8
    <2>2. up = [h \in Hash |-> up[h]]
      BY <1>0 DEF Tidy
    <2> QED BY <2>1, <2>2 DEF Cut
  <1> QED BY <1>3, <1>5, <1>7, <1>9, <1>10

\* One callback of the prune, and the equation StoragePruned solves.
PrunedOne(y, i) ==
  RR!NodePruned(y, TreeAfter(i), loc', last', Detached(i), Parent(Detached(i)))
Prunings(x, n, q) == q = [i \in 0 .. n |-> IF i = 0 THEN x ELSE PrunedOne(q[i - 1], i)]

\* Removing one node after the other has a sequence of intermediate indexes.
LEMMA PruningsExist ==
  ASSUME NEW x, NEW n \in Nat
  PROVE  \E q : Prunings(x, n, q)
  <1> DEFINE T == {m \in Nat : ~\E q : Prunings(x, m, q)}
  <1>1. T = {}
    <2> SUFFICES ASSUME T # {} PROVE FALSE
      OBVIOUS
    <2>1. T \in SUBSET Nat
      OBVIOUS
    <2>2. PICK m \in T : \A y \in T : m <= y
      <3> HIDE DEF T
      <3> QED BY <2>1, LeastNatural
    <2>3. m \in Nat
      OBVIOUS
    <2>4. CASE m = 0
      <3> DEFINE z == [i \in 0 .. 0 |-> x]
      <3>1. Prunings(x, 0, z)
        BY DEF Prunings
      <3> HIDE DEF z
      <3> QED BY <2>4, <3>1
    <2>5. CASE m # 0
      <3>1. m - 1 \in Nat /\ m - 1 \notin T
        <4> HIDE DEF T
        <4> QED BY <2>2, <2>3, <2>5
      <3>2. PICK q : Prunings(x, m - 1, q)
        BY <3>1
      <3>6. ~\E v : Prunings(x, m, v)
        OBVIOUS
      <3> HIDE DEF T
      <3> DEFINE r == [i \in 0 .. m |-> IF i < m THEN q[i] ELSE PrunedOne(q[m - 1], m)]
      <3>3. ASSUME NEW i \in 0 .. m PROVE r[i] = IF i = 0 THEN x ELSE PrunedOne(r[i - 1], i)
        <4>1. CASE i = m
          <5>1. r[i] = PrunedOne(q[i - 1], i) /\ i # 0
            BY <2>5, <4>1
          <5>2. r[i - 1] = q[i - 1]
            BY <2>3, <2>5, <4>1
          <5> QED BY <5>1, <5>2
        <4>2. CASE i # m
          <5>1. i \in 0 .. m - 1 /\ r[i] = q[i]
            BY <2>3, <4>2
          <5>2. q[i] = IF i = 0 THEN x ELSE PrunedOne(q[i - 1], i)
            BY <3>2, <5>1 DEF Prunings
          <5>3. i # 0 => r[i - 1] = q[i - 1]
            BY <2>3, <5>1
          <5> QED BY <5>1, <5>2, <5>3
        <4> QED BY <4>1, <4>2
      <3>4. r = [i \in 0 .. m |-> r[i]]
        OBVIOUS
      <3> HIDE DEF r
      <3>5. Prunings(x, m, r)
        BY <3>3, <3>4 DEF Prunings
      <3> QED BY <3>5, <3>6
    <2> QED BY <2>4, <2>5
  <1>2. n \notin T
    <2> HIDE DEF T
    <2> QED BY <1>1
  <1> QED BY <1>2

\* The callbacks of a prune keep the index in step with the tree.
LEMMA PruningKeepsIndex ==
  ASSUME Rooted, NEW e \in Nodes, NEW S \in SUBSET up[e], NEW K, up' = Pruned(S, K),
         \A h \in Hash : loc'[h] # None => h \in K,
         Places(loc'), last' \in [Hash -> Nat],
         NEW x, Indexed(x, up, loc', last')
  PROVE  Indexed(StoragePruned(x), up', loc', last')
  <1> DEFINE n == Cardinality(Dead)
             q == CHOOSE q : Prunings(x, n, q)
             T == {m \in 0 .. n : ~Indexed(q[m], Cut(up, Dead, m), loc', last')}
  <1>1. /\ Tidy(up) /\ Tip(up, Dead) /\ Dead \cap K = {} /\ n \in Nat /\ Dead \in SUBSET Hash
        /\ up' = Cut(up, Dead, n) /\ up = Cut(up, Dead, 0)
    BY OwnShape, PrunedTip, BlocksFinite DEF Dead, Nodes
  <1>2. Prunings(x, n, q)
    BY <1>1, PruningsExist, Zenon
  <1>3. StoragePruned(x) = q[n]
    BY Zenon DEF StoragePruned, Prunings, PrunedOne
  <1> HIDE DEF q, n
  <1>4. \A i \in 0 .. n : q[i] = IF i = 0 THEN x ELSE PrunedOne(q[i - 1], i)
    BY <1>2 DEF Prunings
  <1>5. ASSUME NEW m \in 1 .. n, Indexed(q[m - 1], Cut(up, Dead, m - 1), loc', last')
        PROVE  Indexed(q[m], Cut(up, Dead, m), loc', last')
    <2>1. PICK d \in Dead : Rank(up, d) = m /\ \A g \in Dead : Rank(up, g) = m => g = d
      BY <1>1, RankFound DEF n
    <2>2. Detached(m) = d
      BY <2>1 DEF Detached, Rank, Down, Subtree
    <2>3. PICK w : w = Cut(up, Dead, m)
      OBVIOUS
    <2>4. PICK p : p = Parent(d)
      OBVIOUS
    <2>5. p = IF up[d] = {d} THEN NoNode ELSE CHOOSE r \in up[d] \ {d} : up[r] = up[d] \ {d}
      BY <2>4 DEF Parent
    <2>6. /\ Tidy(w) /\ d \in Hash \ Live(w) /\ p \in Live(w) \cup {NoNode}
          /\ Cut(up, Dead, m - 1) = Sprout(w, d, p)
      <3>1. m \in Nat /\ m \in 1 .. Cardinality(Dead)
        BY <1>1 DEF n
      <3> QED BY <1>1, <2>1, <2>3, <2>5, <3>1, CutTree, CutStep
    <2>7. loc'[d] = None
      BY <1>1, <2>1
    <2>8. w = TreeAfter(m)
      BY <2>3 DEF TreeAfter, Cut, Rank, Down, Subtree
    <2>9. q[m] = RR!NodePruned(q[m - 1], w, loc', last', d, p)
      BY <1>1, <1>4, <2>2, <2>4, <2>8 DEF PrunedOne
    <2>10. Indexed(RR!NodePruned(q[m - 1], w, loc', last', d, p), w, loc', last')
      BY <1>5, <2>6, <2>7, PrunedKeepsIndex
    <2> QED BY <2>3, <2>9, <2>10
  <1>6. T = {}
    <2> SUFFICES ASSUME T # {} PROVE FALSE
      OBVIOUS
    <2>1. T \in SUBSET Nat
      BY <1>1
    <2>2. PICK m \in T : \A y \in T : m <= y
      <3> HIDE DEF T
      <3> QED BY <2>1, LeastNatural
    <2>3. m \in 0 .. n /\ ~Indexed(q[m], Cut(up, Dead, m), loc', last')
      OBVIOUS
    <2>4. CASE m = 0
      BY <1>1, <1>4, <2>3, <2>4
    <2>5. CASE m # 0
      <3>1. m \in 1 .. n /\ m - 1 \in 0 .. n /\ m - 1 \notin T
        <4> HIDE DEF T
        <4> QED BY <1>1, <2>2, <2>3, <2>5
      <3>2. Indexed(q[m - 1], Cut(up, Dead, m - 1), loc', last')
        BY <3>1
      <3> QED BY <1>5, <2>3, <3>1, <3>2
    <2> QED BY <2>4, <2>5
  <1>7. n \notin T
    <2> HIDE DEF T
    <2> QED BY <1>6
  <1>8. Indexed(q[n], Cut(up, Dead, n), loc', last')
    BY <1>1, <1>7
  <1> QED BY <1>1, <1>3, <1>8

-----------------------------------------------------------------------------
(* The invariant: the index agrees with what it indexes, and the blocks that *)
(* a pending call noted as a segment still are in the segment of its endpoint. *)

StorageInv == Indexed(storage, up, loc, last)
Noted == \A i \in DOMAIN frames : frames[i].segment \subseteq Segment(frames[i].endpoint)

\* The segment that a node is in has all that is in line above the node.
LEMMA LineJoins ==
  ASSUME NEW u, Tidy(u), NEW b \in Live(u), NEW f, Feet(u, b) = {f}
  PROVE  Line(u, b) \subseteq Line(u, f) /\ f \in Ends(u) /\ f \in Live(u)
  <1>1. /\ b \in Hash /\ f \in Ends(u) /\ f \in Live(u) /\ f \in Hash
        /\ b \in u[f] /\ \A x \in u[f] \ {f} : b \in u[x] => Lonely(u, x)
    BY DEF Feet, Line, Ends, Live
  <1>2. ASSUME NEW a \in Line(u, b) PROVE a \in Line(u, f)
    <2>1. a \in u[b] /\ \A x \in u[b] \ {b} : a \in u[x] => Lonely(u, x)
      BY DEF Line
    <2>2. a \in u[f]
      BY <1>1, <2>1, OverNodes
    <2>3. ASSUME NEW x \in u[f] \ {f}, a \in u[x] PROVE Lonely(u, x)
      <3>1. b \in u[x] \/ x \in u[b]
        BY <1>1 DEF Tidy
      <3>2. x = b => b \in u[x]
        BY DEF Tidy
      <3> QED BY <1>1, <2>1, <2>3, <3>1, <3>2
    <2> QED BY <2>2, <2>3 DEF Line
  <1> QED BY <1>1, <1>2

\* An end is the only end of its own segment.
LEMMA EndIsFoot ==
  ASSUME NEW u, Tidy(u), NEW e \in Ends(u)
  PROVE  Feet(u, e) = {e}
  <1>1. e \in Live(u) /\ e \in Line(u, e)
    BY EndInLine DEF Ends
  <1>2. PICK f \in Ends(u) : Feet(u, e) = {f}
    BY <1>1, OneFoot
  <1>3. e \in Feet(u, e)
    BY <1>1 DEF Feet
  <1> QED BY <1>2, <1>3

\* What is pruned elsewhere cuts no segment.
LEMMA LineKept ==
  ASSUME NEW u, Tidy(u), NEW w, Tidy(w), \A h \in Live(w) : w[h] = u[h], NEW b \in Live(w)
  PROVE  Line(u, b) \subseteq Line(w, b)
  <1>1. w[b] = u[b] /\ b \in Hash
    BY DEF Live
  <1>2. ASSUME NEW x \in w[b], Lonely(u, x) PROVE Lonely(w, x)
    <2>1. \A c \in Sons(w, x) : c \in Sons(u, x)
      <3> SUFFICES ASSUME NEW c \in Sons(w, x) PROVE c \in Sons(u, x)
        OBVIOUS
      <3>1. c \in Hash /\ x \in w[c] /\ c # x /\ w[c] = w[x] \cup {c}
        BY DEF Sons
      <3>2. c \in Live(w) /\ x \in Live(w)
        BY <3>1, OverNodes DEF Live
      <3> QED BY <3>1, <3>2 DEF Sons
    <2> QED BY <1>2, <2>1 DEF Lonely
  <1>3. ASSUME NEW a \in Line(u, b) PROVE a \in Line(w, b)
    <2>1. a \in u[b] /\ \A x \in u[b] \ {b} : a \in u[x] => Lonely(u, x)
      BY DEF Line
    <2>2. ASSUME NEW x \in w[b] \ {b}, a \in w[x] PROVE Lonely(w, x)
      <3>1. x \in Live(w)
        BY <1>1, OverNodes
      <3>2. Lonely(u, x)
        BY <1>1, <2>1, <2>2, <3>1
      <3> QED BY <1>2, <3>2
    <2> QED BY <1>1, <2>1, <2>2 DEF Line
  <1> QED BY <1>3

\* What a policy finds on a tier is a segment, and ends it.
LEMMA TierEnds ==
  ASSUME Rooted, NEW n \in Hash, NEW e \in SegmentLeaf(n)
  PROVE  e \in Ends(up) /\ e \in Nodes /\ Feet(up, e) = {e} /\ n \in Segment(e)
         /\ SegmentLeaf(n) = {e}
  <1>1. Tidy(up) /\ Live(up) = Nodes
    BY OwnShape
  <1>2. n \in Nodes
    BY OwnShape
  <1>3. SegmentLeaf(n) = Feet(up, n)
    BY <1>2, OwnShape
  <1>4. e \in Ends(up) /\ n \in Line(up, e) /\ e \in Nodes
    BY <1>1, <1>3 DEF Feet, Ends
  <1>5. Feet(up, e) = {e}
    BY <1>1, <1>4, EndIsFoot
  <1>6. Segment(e) = Line(up, e)
    BY <1>4, OwnShape
  <1>7. PICK f \in Ends(up) : Feet(up, n) = {f}
    BY <1>1, <1>2, OneFoot
  <1> QED BY <1>3, <1>4, <1>5, <1>6, <1>7

\* The newest access of a segment's blocks on a tier.
LEMMA NewestOnTier ==
  ASSUME TypeOK, NEW e, NEW t, ResidentNodes(e, t) \in SUBSET Hash, ResidentNodes(e, t) # {}
  PROVE  LastNs(e, t) = NewestOf(ResidentNodes(e, t), last) /\ LastNs(e, t) \in Nat
  <1>1. last \in [Hash -> Nat]
    BY DEF TypeOK
  <1>2. LastNs(e, t) = NewestOf(ResidentNodes(e, t), last)
    <2>1. PICK R : R = ResidentNodes(e, t)
      OBVIOUS
    <2>2. NewestOf(R, last) = CHOOSE x \in {last[n] : n \in R} : \A y \in {last[n] : n \in R} : y <= x
      <3>1. \A x : (\A n \in R : last[n] <= x) <=> (\A y \in {last[n] : n \in R} : y <= x)
        OBVIOUS
      <3> QED BY <3>1 DEF NewestOf
    <2> QED BY <2>1, <2>2 DEF LastNs
  <1> QED BY <1>1, <1>2, NewestIs

\* A tier has one victim.
LEMMA OneVictim ==
  ASSUME TypeOK, Rooted, NEW t, NEW S, NEW e \in LruLeaf(t, S), NEW o \in LruLeaf(t, S)
  PROVE  e = o
  <1>1. ASSUME NEW a \in LruLeaf(t, S) PROVE a \in Nat /\ LastNs(a, t) \in Nat
    <2>1. a \in TierSegments(t)
      BY DEF LruLeaf, LruLeaves
    <2>2. PICK n \in Stored(t) : a \in SegmentLeaf(n)
      BY <2>1 DEF TierSegments
    <2>3. a \in Nodes /\ n \in Segment(a) /\ n \in Hash /\ loc[n] = t
      BY <2>2, TierEnds DEF Stored
    <2>4. a \in Hash /\ Segment(a) \subseteq Hash
      BY <2>3, SegmentType DEF Nodes
    <2>5. ResidentNodes(a, t) \in SUBSET Hash /\ ResidentNodes(a, t) # {}
      BY <2>3, <2>4 DEF ResidentNodes
    <2> QED BY <2>4, <2>5, NewestOnTier, SimulatorAssumption
  <1>2. PICK i, j : i = LastNs(e, t) /\ j = LastNs(o, t)
    OBVIOUS
  <1>3. /\ i < j \/ (i = j /\ e <= o)
        /\ j < i \/ (j = i /\ o <= e)
    BY <1>2 DEF LruLeaf
  <1>4. i \in Nat /\ j \in Nat /\ e \in Nat /\ o \in Nat
    BY <1>1, <1>2
  <1> QED BY <1>3, <1>4

\* What Simulator's steps keep, whichever policies it has.
CoreInv == IInv /\ TreeInv /\ AccessInv /\ LiveInv

\* A step with its callbacks is a step of Simulator.
LEMMA StepsAreSteps == [IndexedNext]_indexedVars => [Next]_vars
  <1> SUFFICES ASSUME IndexedNext PROVE Next
    BY DEF indexedVars
  <1>1. CASE Hit \/ Miss \/ ReadStorage
    BY <1>1 DEF Hit, Miss, ReadStorage, Next, Run, BlockStep
  <1>2. CASE Admit \/ Place \/ LeaveUnwritten
    BY <1>2 DEF Admit, Place, LeaveUnwritten, Next, Run, MemoryStep, CapacityStep
  <1>3. CASE LeaveWritten \/ Reclaim
    BY <1>3 DEF LeaveWritten, Reclaim, Next, Run, CapacityStep
  <1>4. CASE Silent
    BY <1>4 DEF Silent, Next, Run, BlockStep, MemoryStep
  <1> QED BY <1>1, <1>2, <1>3, <1>4 DEF IndexedNext

\* The invariant of Simulator holds here: an indexed step is a step of Simulator.
LEMMA CoreInvariance == IndexedSpec => []CoreInv
  <1>1. IndexedInit => Init
    BY DEF IndexedInit
  <1>2. Init => CoreInv
    <2>1. Init => LiveInv
      BY DEF Init, LiveInv
    <2> QED BY <2>1, InitIInv, InitTree DEF CoreInv
  <1>3. CoreInv /\ [Next]_vars => CoreInv'
    <2>1. IInv /\ TreeInv /\ AccessInv /\ LiveInv /\ [Next]_vars => LiveInv'
      BY OutsideKeepsLive, MemoryKeepsLive, CapacityKeepsLive DEF Next, Run
    <2> QED BY <2>1, NextIInv, NextTree DEF CoreInv
  <1> QED BY <1>1, <1>2, <1>3, StepsAreSteps, PTL DEF IndexedSpec

\* What the proofs of the indexes use of the invariant of Simulator.
LEMMA CoreTypes ==
  ASSUME CoreInv
  PROVE  /\ TypeOK /\ Rooted /\ Tidy(up) /\ Live(up) = Nodes
         /\ Places(loc) /\ last \in [Hash -> Nat] /\ \A h \in Hash : loc[h] # None => h \in Nodes
  <1>1. TypeOK /\ Rooted /\ ResidentsRooted
    BY DEF CoreInv, IInv, TreeInv
  <1> QED BY <1>1, OwnShape DEF TypeOK, Places, ResidentsRooted, Resident

\* A step that changes neither index, tree, place nor time keeps the index true.
LEMMA QuietIndex ==
  ASSUME StorageInv, UNCHANGED <<storage, up, loc, last>>
  PROVE  StorageInv'
  BY DEF StorageInv

\* A block is looked up or created below the one before it.
LEMMA MissKeepsIndex ==
  ASSUME CoreInv, StorageInv, Miss
  PROVE  StorageInv'
  <1>1. /\ UNCHANGED <<loc, last>> /\ up' = Located /\ pc = "access"
        /\ Here \in Hash /\ loc[Here] = None
        /\ storage' = IF up' = up THEN storage ELSE RR!NodeCreated(storage, up', loc, last, Here)
    BY CoreTypes, BlockType DEF Miss, GlobalMiss, Resident, AtBlock, At
  <1>2. CASE up[Here] # {}
    <2>1. up' = up
      BY <1>1, <1>2 DEF Located
    <2> QED BY <1>1, <2>1, QuietIndex
  <1>3. CASE up[Here] = {}
    <2> DEFINE p == IF req.pos = 1 THEN NoNode ELSE req.path[req.pos - 1]
    <2>1. p \in Nodes \cup {NoNode} /\ up' = Sprout(up, Here, p) /\ Here \notin Nodes
      BY <1>1, <1>3 DEF CoreInv, AccessInv, Located, Grown, Sprout, Nodes
    <2> HIDE DEF p
    <2>2. up' # up
      <3>1. up'[Here] = {Here} \cup (IF p = NoNode THEN {} ELSE up[p])
        BY <1>1, <2>1, CoreTypes DEF Sprout, Tidy
      <3> QED BY <1>3, <3>1
    <2>3. Indexed(storage, up, loc, last)
      BY DEF StorageInv
    <2>4. Indexed(RR!NodeCreated(storage, up', loc, last, Here), up', loc, last)
      BY <1>1, <2>1, <2>3, CoreTypes, CreatedKeepsIndex
    <2> QED BY <1>1, <2>2, <2>4 DEF StorageInv
  <1> QED BY <1>2, <1>3

\* A read refreshes the segment it touched.
LEMMA ReadKeepsIndex ==
  ASSUME CoreInv, StorageInv, CoreInv', ReadStorage
  PROVE  StorageInv'
  <1>1. PICK a \in PromotionAges : StorageHit(a)
    BY DEF ReadStorage
  <1>2. UNCHANGED <<up, loc>> /\ Here \in Hash
    BY <1>1, CoreTypes, BlockType DEF StorageHit
  <1>3. PICK e \in SegmentLeaf(Here) :
          last' = [h \in Hash |-> IF h \in ResidentNodes(e, loc[Here]) THEN req.time ELSE last[h]]
    BY <1>1 DEF StorageHit
  <1>4. /\ e \in Nodes /\ e \in Live(up) /\ Feet(up, e) = {e} /\ SegmentLeaf(Here) = {e}
        /\ Segment(e) = Line(up, e)
    BY <1>2, CoreTypes, TierEnds, OwnShape
  <1>5. storage' = RR!Touched(storage, up, loc, last', e)
    BY <1>4 DEF ReadStorage
  <1>6. \A h \in Hash \ Line(up, e) : last'[h] = last[h]
    BY <1>3, <1>4 DEF ResidentNodes
  <1>7. last' \in [Hash -> Nat]
    BY CoreTypes DEF CoreInv, IInv, TypeOK
  <1>8. Indexed(storage, up, loc, last)
    BY DEF StorageInv
  <1>9. Indexed(RR!Touched(storage, up, loc, last', e), up, loc, last')
    BY <1>4, <1>6, <1>7, <1>8, CoreTypes, TouchedKeepsIndex
  <1> QED BY <1>2, <1>5, <1>9 DEF StorageInv

\* An eviction or a trim of blocks of the segment of e prunes from them.
LEMMA SegmentPruned ==
  ASSUME CoreInv, CoreInv', NEW e \in Nodes, NEW S \in SUBSET Segment(e), NEW m,
         up' = Pruned(S, Kept(m, loc')), NEW x, Indexed(x, up, loc', last')
  PROVE  Indexed(StoragePruned(x), up', loc', last')
  <1>1. PICK K : K = Kept(m, loc')
    OBVIOUS
  <1>2. \A h \in Hash : loc'[h] # None => h \in K
    BY <1>1 DEF Kept
  <1>3. S \in SUBSET up[e]
    BY DEF Segment
  <1>4. Rooted /\ Places(loc') /\ last' \in [Hash -> Nat]
    BY CoreTypes DEF CoreInv, IInv, TypeOK, Places
  <1> QED BY <1>1, <1>2, <1>3, <1>4, PruningKeepsIndex

\* Blocks leave DRAM and none is written.
LEMMA UnwrittenKeepsIndex ==
  ASSUME CoreInv, StorageInv, Noted, CoreInv', LeaveUnwritten
  PROVE  StorageInv'
  <1>1. ASSUME NEW e \in Nodes, NEW S \in SUBSET Segment(e), NEW out, LeaveMemory(S, out, {}, None)
        PROVE  StorageInv'
    <2>1. /\ loc' = [h \in Hash |-> loc[h]] /\ last' = [h \in Hash |-> last[h]]
          /\ up' = Pruned(S, Kept(mem \ out, loc'))
      BY <1>1 DEF LeaveMemory
    <2>2. loc' = loc /\ last' = last
      BY <2>1, CoreTypes DEF Places
    <2>3. Indexed(storage, up, loc', last')
      BY <2>2 DEF StorageInv
    <2>4. Indexed(StoragePruned(storage), up', loc', last')
      BY <2>1, <2>3, SegmentPruned
    <2>5. storage' = StoragePruned(storage)
      BY DEF LeaveUnwritten
    <2> QED BY <2>4, <2>5 DEF StorageInv
  <1>2. CASE DropVictim
    <2>1. PICK e \in Victims, g \in Grains : LeaveMemory(Segment(e), Leaving(e, g), {}, None)
      BY <1>2 DEF DropVictim
    <2>2. e \in Nodes
      BY <2>1, LeavesAreNodes DEF Victims, MemoryVictim, MemoryLeaves
    <2> QED BY <1>1, <2>1, <2>2
  <1>3. CASE EvictCopies
    <2>1. PICK g \in Grains : LeaveMemory(Segment(cursor), Leaving(cursor, g), {}, None)
      BY <1>3 DEF EvictCopies
    <2>2. cursor \in Nodes
      BY <1>3 DEF EvictCopies, CoreInv, LiveInv
    <2> QED BY <1>1, <2>1, <2>2
  <1>4. CASE RejectDump
    <2>1. LeaveMemory(Caller.segment, Caller.leaving, {}, None) /\ Pending
      BY <1>4 DEF RejectDump, Denied
    <2>2. Len(frames) \in DOMAIN frames /\ Caller = frames[Len(frames)]
      BY <2>1, StackCases DEF CoreInv, IInv, Caller
    <2>3. Caller.endpoint \in Nodes /\ Caller.segment \in SUBSET Segment(Caller.endpoint)
      BY <2>2 DEF CoreInv, LiveInv, Noted
    <2> QED BY <1>1, <2>1, <2>3
  <1> QED BY <1>2, <1>3, <1>4 DEF LeaveUnwritten

\* A dump is written and its blocks leave DRAM.
LEMMA DumpKeepsIndex ==
  ASSUME CoreInv, StorageInv, Noted, CoreInv', LeaveWritten
  PROVE  StorageInv'
  <1>1. PICK f : f = Top
    OBVIOUS
  <1>2. /\ f.then = "dump" /\ Pending /\ LeaveMemory(f.segment, f.leaving, f.nodes, f.tier)
        /\ storage' = StoragePruned(RR!Written(storage, up, loc', last', f.endpoint, f.nodes, f.tier))
    BY <1>1 DEF LeaveWritten, GrantDump, Grant
  <1>3. /\ f \in Calls /\ f.nodes = {n \in f.leaving : loc[n] = None}
        /\ f.leaving \subseteq f.segment
        /\ f.endpoint \in Nodes /\ f.segment \in SUBSET Segment(f.endpoint)
    <2>1. 1 \in DOMAIN frames /\ f = frames[1]
      BY <1>1, <1>2, StackCases DEF CoreInv, IInv, Top
    <2>2. f \in Calls /\ f.nodes = {n \in f.leaving : loc[n] = None}
      BY <1>1, <1>2, PendingFacts DEF CoreInv
    <2> QED BY <2>1, <2>2 DEF CoreInv, AccessInv, LiveInv, Noted
  <1>4. PICK e, N, t : e = f.endpoint /\ N = f.nodes /\ t = f.tier
    OBVIOUS
  <1>5. e \in Nodes /\ e \in Live(up) /\ t \in RR!Tiers /\ t # None
    BY <1>3, <1>4, CoreTypes DEF Calls, Tier, RR!Tiers, None
  <1>6. PICK g \in Ends(up) : Feet(up, e) = {g}
    BY <1>5, CoreTypes, OneFoot
  <1>7. N \in SUBSET Line(up, g)
    <2>1. N \subseteq Segment(e)
      BY <1>3, <1>4
    <2>2. Segment(e) = Line(up, e)
      BY <1>5, CoreTypes, OwnShape
    <2>3. Line(up, e) \subseteq Line(up, g)
      BY <1>5, <1>6, CoreTypes, LineJoins
    <2> QED BY <2>1, <2>2, <2>3
  <1>8. /\ loc' = [h \in Hash |-> IF h \in N THEN t ELSE loc[h]]
        /\ last' = [h \in Hash |-> IF h \in N THEN req.time ELSE last[h]]
        /\ up' = Pruned(f.segment, Kept(mem \ f.leaving, loc'))
    BY <1>2, <1>4 DEF LeaveMemory
  <1>9. Places(loc') /\ last' \in [Hash -> Nat]
    BY DEF CoreInv, IInv, TypeOK, Places
  <1>10. N \subseteq Hash /\ \A h \in N : loc[h] = None
    BY <1>3, <1>4 DEF Calls
  <1>11. /\ \A h \in N : loc[h] = None /\ loc'[h] # None
         /\ \A h \in Hash \ N : loc'[h] = loc[h] /\ last'[h] = last[h]
    BY <1>5, <1>8, <1>10
  <1>12. Indexed(storage, up, loc, last)
    BY DEF StorageInv
  <1>13. Indexed(RR!Written(storage, up, loc', last', e, N, t), up, loc', last')
    BY <1>5, <1>6, <1>7, <1>9, <1>11, <1>12, CoreTypes, WrittenKeepsIndex
  <1>14. Indexed(StoragePruned(RR!Written(storage, up, loc', last', e, N, t)), up', loc', last')
    BY <1>3, <1>4, <1>5, <1>8, <1>13, SegmentPruned
  <1> QED BY <1>2, <1>4, <1>14 DEF StorageInv

\* A victim is trimmed.
LEMMA TrimKeepsIndex ==
  ASSUME CoreInv, StorageInv, CoreInv', Reclaim
  PROVE  StorageInv'
  <1>1. PICK t : t = Top.tier
    OBVIOUS
  <1>2. PICK e \in LruLeaf(t, Top.protected) : TrimNodes(ResidentNodes(e, t), t)
    BY <1>1 DEF Reclaim, ReclaimByTrim
  <1>3. storage' = StoragePruned(RR!Trimmed(storage, up, loc', last', e, ResidentNodes(e, t)))
    BY <1>1, <1>2, CoreTypes, OneVictim DEF Reclaim
  <1>4. t \in Tier
    <2>1. Pending
      BY DEF Reclaim, ReclaimByTrim
    <2> QED BY <1>1, <2>1, PendingFacts DEF CoreInv, Calls
  <1>5. /\ e \in Nodes /\ Feet(up, e) = {e} /\ Segment(e) = Line(up, e) /\ e \in Live(up)
    <2>1. PICK n \in Hash : e \in SegmentLeaf(n)
      BY <1>2 DEF LruLeaf, LruLeaves, TierSegments, Stored
    <2>2. e \in Nodes /\ Feet(up, e) = {e}
      BY <2>1, CoreTypes, TierEnds
    <2> QED BY <2>2, CoreTypes, OwnShape
  <1>6. PICK N : N = ResidentNodes(e, t)
    OBVIOUS
  <1>7. N \in SUBSET Line(up, e) /\ N \subseteq Hash /\ \A h \in N : loc[h] = t
    BY <1>5, <1>6, SegmentType, CoreTypes DEF ResidentNodes, Nodes
  <1>8. /\ loc' = [h \in Hash |-> IF h \in N THEN None ELSE loc[h]]
        /\ last' = [h \in Hash |-> IF h \in N THEN 0 ELSE last[h]]
        /\ up' = Pruned(N, Kept(mem, loc'))
    BY <1>2, <1>6 DEF TrimNodes
  <1>9. Places(loc') /\ last' \in [Hash -> Nat]
    BY DEF CoreInv, IInv, TypeOK, Places
  <1>10. /\ \A h \in N : loc[h] # None /\ loc'[h] = None
         /\ \A h \in Hash \ N : loc'[h] = loc[h] /\ last'[h] = last[h]
    BY <1>4, <1>7, <1>8 DEF Tier, None
  <1>11. Indexed(storage, up, loc, last)
    BY DEF StorageInv
  <1>12. Indexed(RR!Trimmed(storage, up, loc', last', e, N), up, loc', last')
    BY <1>5, <1>7, <1>9, <1>10, <1>11, CoreTypes, TrimmedKeepsIndex
  <1>13. Indexed(StoragePruned(RR!Trimmed(storage, up, loc', last', e, N)), up', loc', last')
    BY <1>5, <1>7, <1>8, <1>12, SegmentPruned
  <1> QED BY <1>3, <1>6, <1>13 DEF StorageInv

\* A pending call keeps its segment, and a call that is begun notes the segment
\* as it is.
LEMMA SegmentsStay ==
  ASSUME CoreInv, Noted, CoreInv', IndexedNext
  PROVE  Noted'
  <1>1. Rooted /\ Tidy(up) /\ TypeOK
    BY CoreTypes
  <1>2. ASSUME frames' = <<>> PROVE Noted'
    BY <1>2 DEF Noted
  <1>3. ASSUME UNCHANGED <<up, frames>> PROVE Noted'
    BY <1>3 DEF Noted, Segment, ChildCount, Children, Below, Subtree
  <1>4. ASSUME NEW f, frames' = <<f>>, f.segment = Segment(f.endpoint), UNCHANGED up
        PROVE  Noted'
    <2>2. DOMAIN frames' = {1} /\ frames'[1] = f
      BY <1>4, StackOfOne
    <2>3. \A e : Segment(e)' = Segment(e)
      BY <1>4 DEF Segment, ChildCount, Children, Below, Subtree
    <2> QED BY <1>4, <2>2, <2>3 DEF Noted
  <1>5. CASE Hit \/ Miss \/ Admit
    <2>1. frames' = <<>>
      BY <1>5 DEF Hit, Miss, Admit, MemoryHit, GlobalMiss, Insert, AtBlock, At
    <2> QED BY <1>2, <2>1
  <1>6. CASE Silent
    <2>1. UNCHANGED <<up, frames>>
      BY <1>6 DEF Silent, Environment, Finish, Submit, BeginRequest, EndRequest, Close, Terminated,
                  AdmitHit, BypassHit, SelectVictim, EvictDone, treeVars, vars
    <2> QED BY <1>3, <2>1
  <1>7. CASE ReadStorage
    <2>1. PICK a \in PromotionAges : StorageHit(a)
      BY <1>7 DEF ReadStorage
    <2>2. up' = up
      BY <2>1 DEF StorageHit
    <2>3. PICK leaf :
            \/ frames' = <<>>
            \/ frames' = <<Frame("TLC", ResidentNodes(leaf, loc[Here]),
                                 req.prefix \cup Segment(leaf), leaf, "promote")>>
      BY <2>1 DEF StorageHit
    <2>4. CASE frames' = <<>>
      BY <1>2, <2>4
    <2>5. CASE frames' # <<>>
      <3>1. PICK f : f = Frame("TLC", ResidentNodes(leaf, loc[Here]),
                               req.prefix \cup Segment(leaf), leaf, "promote")
        OBVIOUS
      <3>2. f.endpoint = leaf /\ f.segment = Segment(leaf)
        BY <3>1 DEF Frame
      <3> QED BY <1>4, <2>2, <2>3, <2>5, <3>1, <3>2
    <2> QED BY <2>4, <2>5
  <1>8. CASE Place
    <2>1. PICK t \in Placements, g \in Grains : frames' = <<DumpFrame(t, cursor, g)>>
      BY <1>8 DEF Place, Dump
    <2>2. up' = up
      BY <1>8 DEF Place, Dump, treeVars
    <2>3. PICK f : f = DumpFrame(t, cursor, g)
      OBVIOUS
    <2>4. f.endpoint = cursor /\ f.segment = Segment(cursor)
      BY <2>3 DEF DumpFrame, Frame
    <2> QED BY <1>4, <2>1, <2>2, <2>3, <2>4
  <1>9. CASE LeaveUnwritten
    <2>1. frames' = <<>>
      BY <1>9 DEF LeaveUnwritten, DropVictim, EvictCopies, RejectDump, At
    <2> QED BY <1>2, <2>1
  <1>10. CASE LeaveWritten
    <2>1. frames' = <<>>
      <3>1. Pending /\ Top.then = "dump" /\ frames' = Tail(frames)
        BY <1>10 DEF LeaveWritten, GrantDump, Grant
      <3> QED BY <3>1, PendingCases DEF CoreInv
    <2> QED BY <1>2, <2>1
  <1>11. CASE Reclaim
    <2>1. PICK e, t : TrimNodes(ResidentNodes(e, t), t) /\ e \in LruLeaf(t, Top.protected)
      BY <1>11 DEF Reclaim, ReclaimByTrim
    <2>2. frames' = frames
      BY <1>11 DEF Reclaim, ReclaimByTrim
    <2>3. PICK K, S : up' = Pruned(S, K) /\ S = ResidentNodes(e, t)
      BY <2>1 DEF TrimNodes
    <2>4. e \in Nodes /\ S \in SUBSET up[e]
      <3>1. e \in Nodes
        BY <2>1, LeavesAreNodes DEF LruLeaf, LruLeaves, TierSegments
      <3> QED BY <2>3, <3>1 DEF ResidentNodes, Segment
    <2>5. Tip(up, Dead) /\ up' = Cut(up, Dead, Cardinality(Dead)) /\ Dead \in SUBSET Hash
      BY <1>1, <2>3, <2>4, PrunedTip DEF Dead, Nodes
    <2>6. Tidy(up') /\ \A h \in Live(up') : up'[h] = up[h]
      <3>1. Cardinality(Dead) \in Nat
        BY <2>5, BlocksFinite
      <3> QED BY <1>1, <2>5, <3>1, CutTree
    <2>7. ASSUME NEW i \in DOMAIN frames
          PROVE  frames[i].segment \subseteq Segment(frames[i].endpoint)'
      <3>1. PICK b : b = frames[i].endpoint
        OBVIOUS
      <3>2. b \in Nodes /\ b \in Nodes'
        BY <2>2, <3>1 DEF CoreInv, LiveInv
      <3>3. b \in Live(up')
        BY <3>2 DEF Live, Nodes
      <3>4. Segment(b) = Line(up, b)
        BY <1>1, <3>2, OwnShape
      <3>5. Segment(b)' = Line(up', b)
        <4>1. Segment(b)' = RR!Tree(up')!Segment(b)
          BY SameCount DEF RR!Tree!Segment, Segment, RR!Tree!ChildCount, ChildCount,
                           RR!Tree!Children, Children, RR!Tree!Below, Below,
                           RR!Tree!Subtree, Subtree
        <4> QED BY <2>6, <3>3, <4>1, StorageShape
      <3>6. Line(up, b) \subseteq Line(up', b)
        BY <1>1, <2>6, <3>3, LineKept
      <3>7. frames[i].segment \subseteq Segment(b)
        BY <3>1 DEF Noted
      <3> QED BY <2>2, <3>1, <3>4, <3>5, <3>6, <3>7
    <2> QED BY <2>2, <2>7 DEF Noted
  <1> QED BY <1>5, <1>6, <1>7, <1>8, <1>9, <1>10, <1>11 DEF IndexedNext

\* The empty index is true of the empty tree.
LEMMA InitIndex == IndexedInit => StorageInv /\ Noted
  <1> SUFFICES ASSUME IndexedInit PROVE StorageInv /\ Noted
    OBVIOUS
  <1>1. /\ up = [h \in Hash |-> {}] /\ loc = [h \in Hash |-> None] /\ frames = <<>>
        /\ storage = RR!EmptyIndex
    BY DEF IndexedInit, Init
  <1>2. PICK x : x = storage
    OBVIOUS
  <1>3. /\ x.segments = [h \in Hash |-> RR!NoSegment] /\ x.candidates = [t \in RR!Tiers |-> {}]
        /\ x.below = [h \in Hash |-> 0]
        /\ x = [segments |-> [h \in Hash |-> RR!NoSegment], candidates |-> [t \in RR!Tiers |-> {}],
                below |-> [h \in Hash |-> 0], program |-> [t \in RR!Tiers |-> 0]]
    BY <1>1, <1>2 DEF RR!EmptyIndex
  <1>4. RR!NoSegment \in Facts /\ \A t \in RR!Tiers : RR!NoSegment[t].blocks = 0
    BY DEF RR!NoSegment, Facts
  <1>5. IndexType(x)
    BY <1>3, <1>4 DEF IndexType
  <1>6. Keyed(x)
    BY <1>3, <1>4 DEF Keyed, Keys
  <1>7. Agrees(x, up, loc, last)
    BY <1>1, <1>3 DEF Agrees, Due, Ends, Live
  <1>8. Counted(x, up, loc)
    <2>1. \A h \in Hash : Held(up, loc, h) = {}
      BY <1>1 DEF Held
    <2>2. \A h \in Hash : Cardinality(Held(up, loc, h)) = 0
      BY <2>1, FS_EmptySet
    <2> QED BY <1>3, <2>2 DEF Counted
  <1> QED BY <1>1, <1>2, <1>5, <1>6, <1>7, <1>8 DEF StorageInv, Indexed, Noted

\* Every step keeps the storage index true; the actions are the lemmas above.
LEMMA NextIndex ==
  CoreInv /\ StorageInv /\ Noted /\ CoreInv' /\ [IndexedNext]_indexedVars => (StorageInv /\ Noted)'
  <1> SUFFICES ASSUME CoreInv, StorageInv, Noted, CoreInv', [IndexedNext]_indexedVars
               PROVE  StorageInv' /\ Noted'
    OBVIOUS
  <1>1. CASE UNCHANGED indexedVars
    <2>1. UNCHANGED <<storage, up, loc, last, frames>>
      BY <1>1 DEF indexedVars, vars
    <2> QED BY <2>1, QuietIndex DEF Noted, Segment, ChildCount, Children, Below, Subtree
  <1>2. CASE IndexedNext
    <2>1. Noted'
      BY <1>2, SegmentsStay
    <2>2. CASE Hit \/ Admit \/ Place \/ Silent
      <3>1. UNCHANGED <<storage, up, loc, last>>
        BY <2>2 DEF Hit, Admit, Place, MemoryHit, Insert, Dump, Silent, Environment, Finish, Submit,
                    BeginRequest, EndRequest, Close, Terminated, AdmitHit, BypassHit, SelectVictim,
                    EvictDone, treeVars, vars
      <3> QED BY <2>1, <3>1, QuietIndex
    <2> QED BY <1>2, <2>1, <2>2, MissKeepsIndex, ReadKeepsIndex, UnwrittenKeepsIndex,
               DumpKeepsIndex, TrimKeepsIndex DEF IndexedNext
  <1> QED BY <1>1, <1>2

-----------------------------------------------------------------------------
(* The victim.                                                              *)

\* The candidates of a true index lead to the segment that the scan names.
LEMMA VictimIsScan ==
  ASSUME CoreInv, StorageInv, NEW t \in Tier, NEW S, NEW counts \in BOOLEAN
  PROVE  RR!Victim(storage, up, loc, t, S, counts) = LruLeaf(t, S)
  <1>0. /\ Rooted /\ Tidy(up) /\ Live(up) = Nodes /\ TypeOK /\ last \in [Hash -> Nat] /\ t \in RR!Tiers
        /\ t # None
    BY CoreTypes DEF Tier, RR!Tiers, None
  <1>1. /\ storage.candidates[t] = Keys(storage.segments, t)
        /\ \A e \in Hash : storage.segments[e] = Due(up, loc, last, e)
        /\ \A h \in Hash : storage.below[h] = Cardinality(Held(up, loc, h))
    BY <1>0 DEF StorageInv, Indexed, Keyed, Agrees, Counted
  <1>2. ASSUME NEW e \in Ends(up)
        PROVE  /\ e \in Hash /\ e \in Nodes /\ On(Line(up, e), loc, t) = ResidentNodes(e, t)
               /\ ResidentNodes(e, t) \in SUBSET Hash
               /\ RR!Tree(up)!Segment(e) = Segment(e) /\ RR!Tree(up)!Below(e) = Below(e)
    <2>1. e \in Hash /\ e \in Nodes /\ e \in Live(up)
      BY <1>0 DEF Ends, Live
    <2>2. Segment(e) = Line(up, e) /\ RR!Tree(up)!Segment(e) = Line(up, e)
      BY <1>0, <2>1, OwnShape, StorageShape
    <2>3. RR!Tree(up)!Below(e) = Below(e)
      BY DEF RR!Tree!Below, Below, RR!Tree!Subtree, Subtree
    <2>4. On(Line(up, e), loc, t) = ResidentNodes(e, t)
      BY <2>2 DEF On, ResidentNodes
    <2>5. Segment(e) \subseteq Hash
      BY <1>0, <2>1, SegmentType
    <2> QED BY <2>1, <2>2, <2>3, <2>4, <2>5 DEF ResidentNodes
  <1>3. \A e : e \in TierSegments(t) <=> e \in Ends(up) /\ ResidentNodes(e, t) # {}
    <2>1. ASSUME NEW e \in TierSegments(t) PROVE e \in Ends(up) /\ ResidentNodes(e, t) # {}
      <3>1. PICK n \in Hash : loc[n] = t /\ e \in SegmentLeaf(n)
        BY DEF TierSegments, Stored
      <3>2. e \in Ends(up) /\ n \in Segment(e)
        BY <1>0, <3>1, TierEnds
      <3> QED BY <3>1, <3>2 DEF ResidentNodes
    <2>2. ASSUME NEW e \in Ends(up), NEW n \in ResidentNodes(e, t) PROVE e \in TierSegments(t)
      <3>1. n \in Hash /\ loc[n] = t /\ n \in Line(up, e)
        BY <1>2 DEF On
      <3>2. n \in Live(up)
        BY <1>0, <3>1, EndInLine DEF Ends
      <3>3. e \in SegmentLeaf(n)
        BY <1>0, <3>1, <3>2, OwnShape DEF Feet
      <3> QED BY <3>1, <3>3 DEF TierSegments, Stored
    <2> QED BY <2>1, <2>2
  <1>4. ASSUME NEW e \in Hash
        PROVE  /\ storage.segments[e][t].blocks # 0 <=> e \in TierSegments(t)
               /\ e \in TierSegments(t) => storage.segments[e][t].last = LastNs(e, t)
    <2>1. CASE e \in Ends(up)
      <3>1. storage.segments[e] = Told(Line(up, e), loc, last)
        BY <1>1, <2>1 DEF Due
      <3>2. Line(up, e) \in SUBSET Hash
        BY <1>0, <2>1, EndInLine DEF Ends, Live
      <3>3. /\ Told(Line(up, e), loc, last)[t].blocks = 0 <=> On(Line(up, e), loc, t) = {}
            /\ On(Line(up, e), loc, t) # {} =>
                  Told(Line(up, e), loc, last)[t] =
                      [blocks |-> RR!Cardinality(On(Line(up, e), loc, t)),
                       last |-> NewestOf(On(Line(up, e), loc, t), last)]
        BY <1>0, <3>2, ToldIs
      <3>4. ResidentNodes(e, t) # {} => LastNs(e, t) = NewestOf(ResidentNodes(e, t), last)
        BY <1>0, <1>2, <2>1, NewestOnTier
      <3> QED BY <1>2, <1>3, <2>1, <3>1, <3>3, <3>4
    <2>2. CASE e \notin Ends(up)
      <3>1. storage.segments[e] = RR!NoSegment
        BY <1>1, <2>2 DEF Due
      <3>2. RR!NoSegment[t].blocks = 0
        BY <1>0 DEF RR!NoSegment
      <3> QED BY <1>3, <2>2, <3>1, <3>2
    <2> QED BY <2>1, <2>2
  <1>5. \A k : k \in storage.candidates[t] <=> \E e \in TierSegments(t) : k = <<LastNs(e, t), e>>
    <2>1. \A e \in TierSegments(t) : e \in Hash
      BY <1>2, <1>3
    <2> QED BY <1>1, <1>4, <2>1 DEF Keys
  <1> DEFINE Unused(e) == IF counts THEN storage.below[e] = IF loc[e] = "None" THEN 0 ELSE 1
                          ELSE \A d \in RR!Tree(up)!Below(e) : loc[d] = "None"
             K == {k \in storage.candidates[t] :
                      Unused(k[2]) /\ RR!Tree(up)!Segment(k[2]) \cap S = {}}
  <1>6. ASSUME NEW e \in TierSegments(t) PROVE Unused(e) <=> IsStorageLeaf(e)
    <2>1. /\ e \in Hash /\ e \in Nodes /\ RR!Tree(up)!Below(e) = Below(e)
          /\ \E n \in Segment(e) : loc[n] # None
      BY <1>0, <1>2, <1>3 DEF ResidentNodes
    <2>2. IsStorageLeaf(e) <=> \A d \in Below(e) : loc[d] = None
      BY <2>1 DEF IsStorageLeaf
    <2>3. e \in up[e]
      BY <1>0, <2>1 DEF Tidy
    <2>4. PICK H : H = Held(up, loc, e)
      OBVIOUS
    <2>5. H \in SUBSET Hash /\ (e \in H <=> loc[e] # None) /\ H \ {e} = {d \in Below(e) : loc[d] # None}
      BY <2>1, <2>3, <2>4 DEF Held, Below, Subtree
    <2>6. storage.below[e] = Cardinality(H)
      BY <1>1, <2>1, <2>4
    <2>7. Cardinality(H) = (IF loc[e] = None THEN 0 ELSE 1) <=> H \ {e} = {}
      <3>1. IsFiniteSet(H) /\ Cardinality(H) \in Nat
        BY <2>5, BlocksFinite
      <3>2. CASE loc[e] = None
        <4>1. Cardinality(H) = 0 <=> H = {}
          BY <3>1, FS_EmptySet
        <4> QED BY <2>5, <3>2, <4>1
      <3>3. CASE loc[e] # None
        <4>1. {e} \in SUBSET H /\ Cardinality({e}) = 1
          BY <2>5, <3>3, FS_Singleton
        <4>2. Cardinality(H) = Cardinality({e}) => H = {e}
          BY <3>1, <4>1, FS_Subset
        <4>3. H \ {e} = {} => H = {e}
          BY <4>1
        <4> QED BY <3>3, <4>1, <4>2, <4>3
      <3> QED BY <3>2, <3>3
    <2>8. CASE counts
      BY <2>2, <2>5, <2>6, <2>7, <2>8 DEF None
    <2>9. CASE ~counts
      BY <2>1, <2>2, <2>9 DEF None
    <2> QED BY <2>8, <2>9
  <1> HIDE DEF Unused
  <1>7. \A k : k \in K <=> \E e \in LruLeaves(t, S) : k = <<LastNs(e, t), e>>
    <2>1. ASSUME NEW k \in K PROVE \E e \in LruLeaves(t, S) : k = <<LastNs(e, t), e>>
      <3>1. PICK e \in TierSegments(t) : k = <<LastNs(e, t), e>>
        BY <1>5
      <3>2. Unused(e) /\ RR!Tree(up)!Segment(e) \cap S = {}
        BY <3>1
      <3> QED BY <1>2, <1>3, <1>6, <3>1, <3>2 DEF LruLeaves
    <2>2. ASSUME NEW e \in LruLeaves(t, S) PROVE <<LastNs(e, t), e>> \in K
      <3>1. e \in TierSegments(t) /\ Unused(e) /\ Segment(e) \cap S = {}
        BY <1>6 DEF LruLeaves
      <3>2. RR!Tree(up)!Segment(e) \cap S = {}
        BY <1>2, <1>3, <3>1
      <3>3. PICK k : k = <<LastNs(e, t), e>>
        OBVIOUS
      <3>4. k \in storage.candidates[t] /\ k[2] = e
        BY <1>5, <3>1, <3>3
      <3> QED BY <3>1, <3>2, <3>3, <3>4
    <2> QED BY <2>1, <2>2
  <1>8. RR!Victim(storage, up, loc, t, S, counts)
          = {k[2] : k \in {k \in K : \A j \in K : k[1] < j[1] \/ (k[1] = j[1] /\ k[2] <= j[2])}}
    BY DEF RR!Victim, Unused
  <1> HIDE DEF K
  <1>9. \A e : e \in LruLeaf(t, S) <=>
          /\ e \in LruLeaves(t, S)
          /\ \A o \in LruLeaves(t, S) :
                LastNs(e, t) < LastNs(o, t) \/ (LastNs(e, t) = LastNs(o, t) /\ e <= o)
    BY DEF LruLeaf
  <1>10. ASSUME NEW e \in LruLeaf(t, S) PROVE e \in RR!Victim(storage, up, loc, t, S, counts)
    <2>1. PICK k : k = <<LastNs(e, t), e>>
      OBVIOUS
    <2>2. k \in K /\ \A j \in K : k[1] < j[1] \/ (k[1] = j[1] /\ k[2] <= j[2])
      BY <1>7, <1>9, <2>1
    <2>3. k[2] = e
      BY <2>1
    <2> QED BY <1>8, <2>2, <2>3
  <1>11. ASSUME NEW e \in RR!Victim(storage, up, loc, t, S, counts) PROVE e \in LruLeaf(t, S)
    <2>1. PICK k \in K : /\ e = k[2]
                         /\ \A j \in K : k[1] < j[1] \/ (k[1] = j[1] /\ k[2] <= j[2])
      BY <1>8
    <2>2. e \in LruLeaves(t, S) /\ k[1] = LastNs(e, t) /\ k[2] = e
      BY <1>7, <2>1
    <2>3. ASSUME NEW o \in LruLeaves(t, S)
          PROVE  LastNs(e, t) < LastNs(o, t) \/ (LastNs(e, t) = LastNs(o, t) /\ e <= o)
      <3>1. PICK j : j = <<LastNs(o, t), o>>
        OBVIOUS
      <3>2. j \in K /\ j[1] = LastNs(o, t) /\ j[2] = o
        BY <1>7, <3>1
      <3> QED BY <2>1, <2>2, <3>2
    <2> QED BY <1>9, <2>2, <2>3
  <1> QED BY <1>10, <1>11

\* Through requests, dumps and trims, and the blocks these create and prune, the
\* index of WearShareRoundRobinStoragePolicy names the segment that a scan of all
\* stored blocks names.
THEOREM StorageIndexFindsTheScan == IndexedSpec => []StorageVictimIsScan
  <1>1. CoreInv /\ StorageInv => StorageVictimIsScan
    BY VictimIsScan DEF StorageVictimIsScan
  <1> QED BY <1>1, CoreInvariance, InitIndex, NextIndex, PTL DEF IndexedSpec

-----------------------------------------------------------------------------
(* The memory index by itself: what its parts say of each other.            *)

Desks == [endpoint : Hash, group : MI!Group, members : SUBSET (Nat \X Hash)]
Ledgers == UNION {[D -> Desks] : D \in SUBSET (Nat \ {0})}

\* The group of a segment is one that the grouping has.
Zoned(x) == \A s \in DOMAIN x.segments : \E h \in Hash : x.segments[s].group = x.groupOf[h]
MemoryType(x) ==
  /\ x \in [groupOf : [Hash -> MI!Group], recency : [Hash -> Nat], handle : [Hash -> Nat],
            segments : Ledgers, ends : [Hash -> Nat], groups : [MI!Group -> SUBSET (Nat \X Hash)],
            below : [Hash -> Int], next : Nat]
  /\ Zoned(x)

\* The blocks the index has in DRAM, those a handle has, and the endpoint that
\* the handle of a block leads to.
InDram(x) == {h \in Hash : x.recency[h] # 0}
Team(x, s) == {h \in Hash : x.handle[h] = s}
Seat(x, h) == x.segments[x.handle[h]].endpoint

\* The member keys of blocks, and the group keys of the published segments.
Stamped(x, K) == {<<x.recency[h], h>> : h \in K}
Entry(d) == <<MI!Newest(d.members)[1], d.endpoint>>
Entries(x, O, g) == {Entry(x.segments[s]) : s \in {s \in DOMAIN x.segments \ O : x.segments[s].group = g}}

\* Recencies differ and are from the past.
Clocked(x) ==
  /\ \A h \in Hash : x.recency[h] <= x.next /\ (x.recency[h] = 0 <=> x.handle[h] = 0)
  /\ \A h, k \in Hash : x.recency[h] = x.recency[k] /\ x.recency[h] # 0 => h = k

\* A block is a member of the segment its handle leads to.
Staffed(x) ==
  /\ \A h \in Hash : x.handle[h] # 0 => x.handle[h] \in DOMAIN x.segments
  /\ \A s \in DOMAIN x.segments : x.segments[s].members = Stamped(x, Team(x, s))

\* An endpoint has one segment.
Seated(x) ==
  /\ \A s \in DOMAIN x.segments : x.ends[x.segments[s].endpoint] = s
  /\ \A e \in Hash : x.ends[e] # 0 => /\ x.ends[e] \in DOMAIN x.segments
                                      /\ x.segments[x.ends[e]].endpoint = e

\* The groups have the segments but for those of O, and they have members.
Listing(x, O) ==
  /\ \A s \in DOMAIN x.segments \ O : Team(x, s) # {}
  /\ \A g \in MI!Group : x.groups[g] = Entries(x, O, g)

Sound(x, O) == MemoryType(x) /\ Clocked(x) /\ Staffed(x) /\ Seated(x) /\ Listing(x, O)

\* The segments are those of the tree, and what is below a node is counted.
Fitting(x, u) == \A h \in InDram(x) : h \in Live(u) /\ Feet(u, h) = {Seat(x, h)}
Tallied(x, u) == \A h \in Hash : x.below[h] = Cardinality(Through(u, InDram(x), h))

Matched(x, u) == Sound(x, {}) /\ Fitting(x, u) /\ Tallied(x, u)

\* What it is to be a segments_ map: handles to segments.
LEMMA LedgerIs ==
  ASSUME NEW a
  PROVE  a \in Ledgers <=> /\ a = [s \in DOMAIN a |-> a[s]]
                           /\ DOMAIN a \subseteq Nat \ {0}
                           /\ \A s \in DOMAIN a : a[s] \in Desks
  <1>1. ASSUME a \in Ledgers
        PROVE  /\ a = [s \in DOMAIN a |-> a[s]] /\ DOMAIN a \subseteq Nat \ {0}
               /\ \A s \in DOMAIN a : a[s] \in Desks
    <2>1. PICK D \in SUBSET (Nat \ {0}) : a \in [D -> Desks]
      BY <1>1 DEF Ledgers
    <2> QED BY <2>1
  <1>2. ASSUME a = [s \in DOMAIN a |-> a[s]], DOMAIN a \subseteq Nat \ {0},
               \A s \in DOMAIN a : a[s] \in Desks
        PROVE  a \in Ledgers
    <2>1. a \in [DOMAIN a -> Desks] /\ DOMAIN a \in SUBSET (Nat \ {0})
      BY <1>2
    <2> QED BY <2>1 DEF Ledgers
  <1> QED BY <1>1, <1>2

\* What the parts of an index are.
LEMMA PartTypes ==
  ASSUME NEW x, MemoryType(x)
  PROVE  /\ x.groupOf \in [Hash -> MI!Group] /\ x.recency \in [Hash -> Nat]
         /\ x.handle \in [Hash -> Nat] /\ x.ends \in [Hash -> Nat]
         /\ x.groups \in [MI!Group -> SUBSET (Nat \X Hash)]
         /\ x.below \in [Hash -> Int] /\ x.next \in Nat /\ x.segments \in Ledgers
         /\ x.segments = [s \in DOMAIN x.segments |-> x.segments[s]]
         /\ DOMAIN x.segments \subseteq Nat \ {0}
         /\ \A s \in DOMAIN x.segments : x.segments[s] \in Desks
  <1>1. x.segments \in Ledgers
    BY DEF MemoryType
  <1> QED BY <1>1, LedgerIs DEF MemoryType


\* The newest of the member keys of some blocks.
LEMMA NewestStamp ==
  ASSUME NEW x, MemoryType(x), NEW K \in SUBSET Hash, K # {}
  PROVE  \E m \in K : /\ MI!Newest(Stamped(x, K)) = <<MI!Newest(Stamped(x, K))[1], MI!Newest(Stamped(x, K))[2]>>
                      /\ MI!Newest(Stamped(x, K)) \in Stamped(x, K)
                      /\ MI!Newest(Stamped(x, K))[1] = x.recency[m]
                      /\ x.recency[m] \in Nat /\ \A h \in K : x.recency[h] <= x.recency[m]
  <1>1. x.recency \in [Hash -> Nat]
    BY PartTypes
  <1>2. PICK m \in K : \A h \in K : x.recency[h] <= x.recency[m]
    BY <1>1, NewestIs
  <1>3. PICK M : M = Stamped(x, K)
    OBVIOUS
  <1>4. \A k \in M : \E h \in K : k = <<x.recency[h], h>>
    BY <1>3 DEF Stamped
  <1>5. <<x.recency[m], m>> \in M
    BY <1>3 DEF Stamped
  <1>6. \A k \in M : k[1] <= <<x.recency[m], m>>[1]
    BY <1>2, <1>4
  <1>7. MI!Newest(M) \in M /\ \A k \in M : k[1] <= MI!Newest(M)[1]
    BY <1>5, <1>6 DEF MI!Newest
  <1>8. PICK k : k = MI!Newest(M)
    OBVIOUS
  <1>9. PICK h \in K : k = <<x.recency[h], h>>
    BY <1>4, <1>7, <1>8
  <1>10. x.recency[m] <= x.recency[h] /\ x.recency[h] <= x.recency[m]
    BY <1>2, <1>5, <1>7, <1>8, <1>9
  <1>11. k[1] = x.recency[m] /\ k = <<k[1], k[2]>>
    BY <1>1, <1>9, <1>10
  <1> QED BY <1>1, <1>2, <1>3, <1>7, <1>8, <1>11

\* Segments that are the same have the same group keys.
LEMMA EntriesSame ==
  ASSUME NEW x, NEW y, NEW O, NEW P, DOMAIN x.segments \ O = DOMAIN y.segments \ P,
         \A s \in DOMAIN x.segments \ O : y.segments[s] = x.segments[s]
  PROVE  \A g : Entries(y, P, g) = Entries(x, O, g)
  BY DEF Entries

\* What the updates that leave the blocks and their order alone have in common.
Alike(x, y) ==
  /\ y.groupOf = x.groupOf /\ y.recency = x.recency /\ y.below = x.below /\ y.next = x.next

\* unpublish() takes a segment out of its group.
LEMMA UnpublishIs ==
  ASSUME NEW x, NEW O, Sound(x, O), NEW s \in DOMAIN x.segments, s \in O => Team(x, s) = {},
         NEW y, y = MI!Unpublish(x, s)
  PROVE  /\ Sound(y, O \cup {s}) /\ Alike(x, y)
         /\ y.handle = x.handle /\ y.segments = x.segments /\ y.ends = x.ends
  <1> DEFINE d == x.segments[s]
  <1>0. /\ MemoryType(x) /\ Clocked(x) /\ Staffed(x) /\ Seated(x) /\ Listing(x, O)
        /\ d \in Desks /\ d.group \in MI!Group /\ d.members = Stamped(x, Team(x, s))
    <2>1. MemoryType(x) /\ Clocked(x) /\ Staffed(x) /\ Seated(x) /\ Listing(x, O)
      BY DEF Sound
    <2>2. d \in Desks
      BY <2>1, PartTypes
    <2> QED BY <2>1, <2>2 DEF Staffed, Desks
  <1>1. CASE d.members = {}
    <2>1. y = x
      BY <1>1 DEF MI!Unpublish
    <2>2. Team(x, s) = {}
      BY <1>0, <1>1 DEF Stamped
    <2>3. s \in O
      BY <1>0, <2>2 DEF Listing
    <2>4. O \cup {s} = O
      BY <2>3
    <2> QED BY <2>1, <2>4 DEF Alike
  <1>2. CASE d.members # {}
    <2>1. y = [x EXCEPT !.groups = [x.groups EXCEPT ![d.group] = @ \ {Entry(d)}]]
      BY <1>2 DEF MI!Unpublish, Entry
    <2>2. Team(x, s) # {} /\ s \notin O
      BY <1>0, <1>2 DEF Stamped
    <2> HIDE DEF d
    <2>3. x.groups \in [MI!Group -> SUBSET (Nat \X Hash)]
      BY <1>0, PartTypes
    <2>4. PICK G : G = [x.groups EXCEPT ![d.group] = @ \ {Entry(d)}]
      OBVIOUS
    <2>5. /\ G \in [MI!Group -> SUBSET (Nat \X Hash)]
          /\ \A g \in MI!Group : G[g] = IF g = d.group THEN x.groups[g] \ {Entry(d)} ELSE x.groups[g]
      BY <2>3, <2>4
    <2>6. y = [x EXCEPT !.groups = G]
      BY <2>1, <2>4
    <2>7. /\ MemoryType(y) /\ Alike(x, y) /\ y.groups = G
          /\ y.handle = x.handle /\ y.segments = x.segments /\ y.ends = x.ends
      <3>1. y.groupOf = x.groupOf /\ y.segments = x.segments /\ Zoned(x)
        BY <1>0, <2>6 DEF MemoryType
      <3>2. Zoned(y)
        BY <3>1 DEF Zoned
      <3> QED BY <1>0, <2>5, <2>6, <3>2 DEF MemoryType, Alike
    <2>8. Clocked(y) /\ Staffed(y) /\ Seated(y)
      BY <1>0, <2>7 DEF Clocked, Staffed, Seated, Alike, Stamped, Team
    <2>9. ASSUME NEW g \in MI!Group PROVE y.groups[g] = Entries(y, O \cup {s}, g)
      <3>1. x.groups[g] = Entries(x, O, g) /\ Entries(y, O \cup {s}, g) = Entries(x, O \cup {s}, g)
        BY <1>0, <2>7 DEF Listing, Entries
      <3>2. ASSUME NEW t \in DOMAIN x.segments, Entry(x.segments[t]) = Entry(d) PROVE t = s
        <4>1. x.segments[t].endpoint = d.endpoint
          BY <3>2 DEF Entry
        <4> QED BY <1>0, <4>1 DEF Seated, d
      <3>3. CASE g = d.group
        <4>1. Entries(x, O \cup {s}, g) = Entries(x, O, g) \ {Entry(d)}
          BY <3>2 DEF Entries, d
        <4> QED BY <2>5, <2>7, <3>1, <3>3, <4>1
      <3>4. CASE g # d.group
        <4>1. Entries(x, O \cup {s}, g) = Entries(x, O, g)
          BY <3>4 DEF Entries, d
        <4> QED BY <2>5, <2>7, <3>1, <3>4, <4>1
      <3> QED BY <3>3, <3>4
    <2>10. Listing(y, O \cup {s})
      BY <1>0, <2>7, <2>9 DEF Listing, Team
    <2> QED BY <2>7, <2>8, <2>10 DEF Sound
  <1> QED BY <1>1, <1>2

\* publish() puts it back, or forgets it when it has no block.
LEMMA PublishIs ==
  ASSUME NEW x, NEW O, Sound(x, O), NEW s \in DOMAIN x.segments, s \in O,
         NEW y, y = MI!Publish(x, s)
  PROVE  /\ Sound(y, O \ {s}) /\ Alike(x, y) /\ y.handle = x.handle
         /\ \A t \in DOMAIN x.segments : t # s => t \in DOMAIN y.segments /\ y.segments[t] = x.segments[t]
         /\ Team(x, s) # {} => s \in DOMAIN y.segments /\ y.segments[s] = x.segments[s]
         /\ \A h \in InDram(x) : Seat(y, h) = Seat(x, h)
  <1> DEFINE d == x.segments[s]
  <1>0. /\ MemoryType(x) /\ Clocked(x) /\ Staffed(x) /\ Seated(x) /\ Listing(x, O)
        /\ d \in Desks /\ d.group \in MI!Group /\ d.endpoint \in Hash
        /\ d.members = Stamped(x, Team(x, s)) /\ s # 0
        /\ \A t \in DOMAIN x.segments : x.segments[t] \in Desks
    <2>1. MemoryType(x) /\ Clocked(x) /\ Staffed(x) /\ Seated(x) /\ Listing(x, O)
      BY DEF Sound
    <2>2. s # 0 /\ \A t \in DOMAIN x.segments : x.segments[t] \in Desks
      BY <2>1, PartTypes
    <2> QED BY <2>1, <2>2 DEF Staffed, Desks
  <1>t. /\ x.segments = [t \in DOMAIN x.segments |-> x.segments[t]] /\ DOMAIN x.segments \subseteq Nat \ {0}
        /\ x.ends \in [Hash -> Nat] /\ x.groups \in [MI!Group -> SUBSET (Nat \X Hash)]
    BY <1>0, PartTypes
  <1>1. CASE d.members = {}
    <2>0. Team(x, s) = {}
      BY <1>0, <1>1 DEF Stamped
    <2>1. PICK E, L : E = [x.ends EXCEPT ![d.endpoint] = 0]
                      /\ L = [t \in DOMAIN x.segments \ {s} |-> x.segments[t]]
      OBVIOUS
    <2>2. y = [x EXCEPT !.ends = E, !.segments = L]
      BY <1>1, <2>1 DEF MI!Publish, MI!Forget, MI!NoHandle
    <2>3. /\ L \in Ledgers /\ DOMAIN L = DOMAIN x.segments \ {s}
          /\ \A t \in DOMAIN L : L[t] = x.segments[t]
      <3>1. DOMAIN L = DOMAIN x.segments \ {s} /\ \A t \in DOMAIN L : L[t] = x.segments[t]
        BY <2>1
      <3> QED BY <1>0, <1>t, <2>1, <3>1, LedgerIs
    <2>4. E \in [Hash -> Nat] /\ \A e \in Hash : E[e] = IF e = d.endpoint THEN 0 ELSE x.ends[e]
      BY <1>t, <2>1
    <2> HIDE DEF d
    <2>5. /\ MemoryType(y) /\ Alike(x, y) /\ y.groups = x.groups
          /\ y.handle = x.handle /\ y.segments = L /\ y.ends = E
      <3>1. y.groupOf = x.groupOf /\ y.segments = L /\ Zoned(x)
        BY <1>0, <2>2 DEF MemoryType
      <3>2. Zoned(y)
        BY <2>3, <3>1 DEF Zoned
      <3> QED BY <1>0, <2>2, <2>3, <2>4, <3>2 DEF MemoryType, Alike
    <2>6. Clocked(y)
      BY <1>0, <2>5 DEF Clocked, Alike
    <2>7. Staffed(y)
      <3>1. \A h \in Hash : x.handle[h] # s
        BY <2>0 DEF Team
      <3> QED BY <1>0, <2>3, <2>5, <3>1 DEF Staffed, Alike, Stamped, Team
    <2>8. Seated(y)
      <3>1. ASSUME NEW t \in DOMAIN L PROVE E[L[t].endpoint] = t
        <4>1. x.segments[t].endpoint \in Hash /\ x.ends[x.segments[t].endpoint] = t /\ t # s
          BY <1>0, <2>3 DEF Seated, Desks
        <4>2. x.segments[t].endpoint # d.endpoint
          BY <1>0, <4>1 DEF Seated, d
        <4> QED BY <2>3, <2>4, <4>1, <4>2
      <3>2. ASSUME NEW e \in Hash, E[e] # 0 PROVE E[e] \in DOMAIN L /\ L[E[e]].endpoint = e
        <4>1. e # d.endpoint /\ E[e] = x.ends[e]
          BY <2>4, <3>2
        <4>2. x.ends[e] \in DOMAIN x.segments /\ x.segments[x.ends[e]].endpoint = e
          BY <1>0, <3>2, <4>1 DEF Seated
        <4>3. x.ends[e] # s
          BY <4>1, <4>2 DEF d
        <4> QED BY <2>3, <4>1, <4>2, <4>3
      <3> QED BY <2>5, <3>1, <3>2 DEF Seated
    <2>9. Listing(y, O \ {s})
      <3>1. DOMAIN y.segments \ (O \ {s}) = DOMAIN x.segments \ O
        BY <2>3, <2>5
      <3>2. \A t \in DOMAIN x.segments \ O : y.segments[t] = x.segments[t] /\ Team(y, t) = Team(x, t)
        BY <2>3, <2>5 DEF Team
      <3>3. \A g : Entries(y, O \ {s}, g) = Entries(x, O, g)
        BY <3>1, <3>2, EntriesSame
      <3> QED BY <1>0, <2>5, <3>1, <3>2, <3>3 DEF Listing
    <2>10. \A h \in InDram(x) : Seat(y, h) = Seat(x, h)
      <3> SUFFICES ASSUME NEW h \in InDram(x) PROVE y.segments[y.handle[h]] = x.segments[x.handle[h]]
        BY DEF Seat
      <3>1. x.handle[h] # 0 /\ h \in Hash /\ x.handle[h] # s
        BY <1>0, <2>0 DEF InDram, Clocked, Team
      <3>2. x.handle[h] \in DOMAIN x.segments
        BY <1>0, <3>1 DEF Staffed
      <3> QED BY <2>3, <2>5, <3>1, <3>2
    <2> QED BY <2>0, <2>3, <2>5, <2>6, <2>7, <2>8, <2>9, <2>10 DEF Sound
  <1>2. CASE d.members # {}
    <2>0. Team(x, s) # {}
      BY <1>0, <1>2 DEF Stamped
    <2>1. y = [x EXCEPT !.groups = [x.groups EXCEPT ![d.group] = @ \cup {Entry(d)}]]
      BY <1>2 DEF MI!Publish, Entry
    <2>2. Entry(d) \in Nat \X Hash
      <3>1. Team(x, s) \in SUBSET Hash
        BY DEF Team
      <3>2. PICK m \in Team(x, s) : MI!Newest(d.members)[1] = x.recency[m] /\ x.recency[m] \in Nat
        BY <1>0, <2>0, <3>1, NewestStamp
      <3> QED BY <1>0, <3>2 DEF Entry
    <2> HIDE DEF d
    <2>3. PICK G : G = [x.groups EXCEPT ![d.group] = @ \cup {Entry(d)}]
      OBVIOUS
    <2>5. /\ G \in [MI!Group -> SUBSET (Nat \X Hash)]
          /\ \A g \in MI!Group : G[g] = IF g = d.group THEN x.groups[g] \cup {Entry(d)} ELSE x.groups[g]
      BY <1>t, <2>2, <2>3
    <2>6. y = [x EXCEPT !.groups = G]
      BY <2>1, <2>3
    <2>7. /\ MemoryType(y) /\ Alike(x, y) /\ y.groups = G
          /\ y.handle = x.handle /\ y.segments = x.segments /\ y.ends = x.ends
      <3>1. y.groupOf = x.groupOf /\ y.segments = x.segments /\ Zoned(x)
        BY <1>0, <2>6 DEF MemoryType
      <3>2. Zoned(y)
        BY <3>1 DEF Zoned
      <3> QED BY <1>0, <2>5, <2>6, <3>2 DEF MemoryType, Alike
    <2>8. Clocked(y) /\ Staffed(y) /\ Seated(y)
      BY <1>0, <2>7 DEF Clocked, Staffed, Seated, Alike, Stamped, Team
    <2>9. ASSUME NEW g \in MI!Group PROVE y.groups[g] = Entries(y, O \ {s}, g)
      <3>1. x.groups[g] = Entries(x, O, g) /\ Entries(y, O \ {s}, g) = Entries(x, O \ {s}, g)
        BY <1>0, <2>7 DEF Listing, Entries
      <3>3. CASE g = d.group
        <4>1. Entries(x, O \ {s}, g) = Entries(x, O, g) \cup {Entry(d)}
          BY <3>3 DEF Entries, d
        <4> QED BY <2>5, <2>7, <3>1, <3>3, <4>1
      <3>4. CASE g # d.group
        <4>1. Entries(x, O \ {s}, g) = Entries(x, O, g)
          BY <3>4 DEF Entries, d
        <4> QED BY <2>5, <2>7, <3>1, <3>4, <4>1
      <3> QED BY <3>3, <3>4
    <2>10. Listing(y, O \ {s})
      BY <1>0, <2>0, <2>7, <2>9 DEF Listing, Team
    <2> QED BY <2>7, <2>8, <2>10 DEF Sound, Seat
  <1> QED BY <1>1, <1>2

\* From x to y segment s was ensured for the endpoint e: it was there, or it is
\* new, without members and in no group yet.
Ensured(x, O, e, y, s) ==
  /\ Sound(y, IF x.ends[e] = 0 THEN O \cup {s} ELSE O)
  /\ Alike(x, y) /\ y.handle = x.handle
  /\ s \in DOMAIN y.segments /\ y.segments[s].endpoint = e
  /\ x.ends[e] = 0 => s \notin DOMAIN x.segments /\ Team(y, s) = {}
  /\ \A t \in DOMAIN x.segments : t \in DOMAIN y.segments /\ y.segments[t] = x.segments[t]

\* ensure_segment() finds the segment of an endpoint or adds one without blocks.
LEMMA EnsureIs ==
  ASSUME NEW x, NEW O, Sound(x, O), NEW e \in Hash, NEW y, y = MI!EnsureSegment(x, e),
         NEW s, s = y.ends[e]
  PROVE  Ensured(x, O, e, y, s)
  <1> USE DEF Ensured
  <1>0. /\ MemoryType(x) /\ Clocked(x) /\ Staffed(x) /\ Seated(x) /\ Listing(x, O)
        /\ x.segments = [t \in DOMAIN x.segments |-> x.segments[t]] /\ DOMAIN x.segments \subseteq Nat \ {0}
        /\ \A t \in DOMAIN x.segments : x.segments[t] \in Desks
        /\ x.ends \in [Hash -> Nat] /\ x.groupOf \in [Hash -> MI!Group]
    <2>1. MemoryType(x) /\ Clocked(x) /\ Staffed(x) /\ Seated(x) /\ Listing(x, O)
      BY DEF Sound
    <2> QED BY <2>1, PartTypes
  <1>1. CASE x.ends[e] # 0
    <2>1. y = x
      BY <1>1 DEF MI!EnsureSegment, MI!NoHandle
    <2> QED BY <1>0, <1>1, <2>1 DEF Alike, Seated
  <1>2. CASE x.ends[e] = 0
    <2> DEFINE n == Cardinality(DOMAIN x.segments)
               r == CHOOSE r \in 1 .. n + 1 : r \notin DOMAIN x.segments
               d == [endpoint |-> e, group |-> x.groupOf[e], members |-> {}]
    <2>1. MI!Cardinality(DOMAIN x.segments) = n
      BY Zenon DEF MI!Cardinality, Cardinality
    <2>2. r \in 1 .. n + 1 /\ r \notin DOMAIN x.segments /\ r \in Nat \ {0}
      <3>1. IsFiniteSet(DOMAIN x.segments) /\ n \in Nat
        <4>1. PICK f : f = [t \in DOMAIN x.segments |-> x.segments[t].endpoint]
          OBVIOUS
        <4>2. f \in Injection(DOMAIN x.segments, Hash)
          <5>1. f \in [DOMAIN x.segments -> Hash]
            BY <1>0, <4>1 DEF Desks
          <5>2. \A t, z \in DOMAIN x.segments : f[t] = f[z] => t = z
            BY <1>0, <4>1 DEF Seated
          <5> QED BY <5>1, <5>2 DEF Injection, IsInjective
        <4>3. IsFiniteSet(DOMAIN x.segments)
          BY <4>2, SimulatorAssumption, FS_Injection
        <4> QED BY <4>3, FS_CardinalityType
      <3>2. \E q \in 1 .. n + 1 : q \notin DOMAIN x.segments
        <4> SUFFICES ASSUME 1 .. n + 1 \in SUBSET DOMAIN x.segments PROVE FALSE
          OBVIOUS
        <4>1. Cardinality(1 .. n + 1) <= n
          BY <3>1, FS_Subset
        <4>2. Cardinality(1 .. n + 1) = n + 1
          <5> HIDE DEF n
          <5>1. 1 \in Int /\ n + 1 \in Int /\ ~(1 > n + 1) /\ (n + 1) - 1 + 1 = n + 1
            BY <3>1
          <5> QED BY <5>1, FS_Interval
        <4> HIDE DEF n
        <4> QED BY <3>1, <4>1, <4>2
      <3> HIDE DEF n
      <3> QED BY <3>1, <3>2
    <2>3. PICK E, L : E = [x.ends EXCEPT ![e] = r]
                      /\ L = [t \in DOMAIN x.segments \cup {r} |-> IF t = r THEN d ELSE x.segments[t]]
      OBVIOUS
    <2>4. y = [x EXCEPT !.ends = E, !.segments = L]
      BY <1>2, <2>1, <2>3 DEF MI!EnsureSegment, MI!NoHandle
    <2>5. d \in Desks /\ d.endpoint = e /\ d.members = {} /\ d.group = x.groupOf[e]
      BY <1>0 DEF Desks
    <2> HIDE DEF r, d
    <2>6. /\ DOMAIN L = DOMAIN x.segments \cup {r} /\ L[r] = d
          /\ \A t \in DOMAIN x.segments : L[t] = x.segments[t]
          /\ L \in Ledgers
      <3>1. /\ DOMAIN L = DOMAIN x.segments \cup {r} /\ L[r] = d
            /\ \A t \in DOMAIN x.segments : L[t] = x.segments[t]
            /\ L = [t \in DOMAIN L |-> L[t]]
        BY <2>2, <2>3
      <3>2. DOMAIN L \subseteq Nat \ {0} /\ \A t \in DOMAIN L : L[t] \in Desks
        BY <1>0, <2>2, <2>5, <3>1
      <3>3. L \in Ledgers
        BY <3>1, <3>2, LedgerIs
      <3> QED BY <3>1, <3>3
    <2>7. E \in [Hash -> Nat] /\ E[e] = r /\ \A h \in Hash \ {e} : E[h] = x.ends[h]
      BY <1>0, <2>2, <2>3
    <2>8. /\ MemoryType(y) /\ Alike(x, y) /\ y.groups = x.groups
          /\ y.handle = x.handle /\ y.segments = L /\ y.ends = E
      <3>1. y.groupOf = x.groupOf /\ y.segments = L /\ Zoned(x)
        BY <1>0, <2>4 DEF MemoryType
      <3>2. Zoned(y)
        BY <2>5, <2>6, <3>1 DEF Zoned
      <3> QED BY <1>0, <2>4, <2>6, <2>7, <3>2 DEF MemoryType, Alike
    <2>9. s = r
      BY <2>7, <2>8
    <2>10. Team(x, r) = {} /\ Team(y, r) = {}
      BY <1>0, <2>2, <2>8 DEF Team, Staffed
    <2>11. Clocked(y)
      BY <1>0, <2>8 DEF Clocked, Alike
    <2>12. Staffed(y)
      <3>1. Stamped(y, Team(y, r)) = {}
        BY <2>10 DEF Stamped
      <3>2. \A t \in DOMAIN x.segments : Stamped(y, Team(y, t)) = Stamped(x, Team(x, t))
        BY <2>8 DEF Stamped, Team, Alike
      <3>3. \A t \in DOMAIN x.segments : y.segments[t].members = Stamped(y, Team(y, t))
        BY <1>0, <2>6, <2>8, <3>2 DEF Staffed
      <3>4. y.segments[r].members = Stamped(y, Team(y, r))
        BY <2>5, <2>6, <2>8, <3>1
      <3>5. \A h \in Hash : y.handle[h] # 0 => y.handle[h] \in DOMAIN y.segments
        BY <1>0, <2>6, <2>8 DEF Staffed
      <3>6. DOMAIN y.segments = DOMAIN x.segments \cup {r}
        BY <2>6, <2>8
      <3> QED BY <3>3, <3>4, <3>5, <3>6 DEF Staffed
    <2>13. Seated(y)
      <3>1. ASSUME NEW t \in DOMAIN x.segments PROVE E[x.segments[t].endpoint] = t
        <4>1. x.segments[t].endpoint \in Hash /\ x.ends[x.segments[t].endpoint] = t /\ t # 0
          BY <1>0 DEF Seated, Desks
        <4> QED BY <1>2, <2>7, <4>1
      <3>2. ASSUME NEW h \in Hash \ {e}, x.ends[h] # 0
            PROVE x.ends[h] \in DOMAIN x.segments /\ x.segments[x.ends[h]].endpoint = h
        BY <1>0, <3>2 DEF Seated
      <3> QED BY <2>5, <2>6, <2>7, <2>8, <3>1, <3>2 DEF Seated
    <2>14. Listing(y, O \cup {r})
      <3>1. DOMAIN y.segments \ (O \cup {r}) = DOMAIN x.segments \ O
        BY <1>0, <2>2, <2>6, <2>8
      <3>2. \A t \in DOMAIN x.segments \ O : y.segments[t] = x.segments[t] /\ Team(y, t) = Team(x, t)
        BY <2>6, <2>8 DEF Team
      <3>3. \A g : Entries(y, O \cup {r}, g) = Entries(x, O, g)
        BY <3>1, <3>2, EntriesSame
      <3> QED BY <1>0, <2>8, <3>1, <3>2, <3>3 DEF Listing
    <2> QED BY <1>2, <2>2, <2>5, <2>6, <2>8, <2>9, <2>10, <2>11, <2>12, <2>13, <2>14 DEF Sound
  <1> QED BY <1>1, <1>2

\* move_endpoint() names a segment by another node, one that names none.
LEMMA MoveIs ==
  ASSUME NEW x, Sound(x, {}), NEW s \in DOMAIN x.segments, NEW e \in Hash, x.ends[e] = 0,
         NEW y, y = MI!MoveEndpoint(x, s, e)
  PROVE  /\ Sound(y, {}) /\ Alike(x, y)
         /\ \A h \in InDram(x) : Seat(y, h) = IF Seat(x, h) = x.segments[s].endpoint THEN e
                                              ELSE Seat(x, h)
  <1>1. PICK z : z = MI!Unpublish(x, s)
    OBVIOUS
  <1>2. /\ Sound(z, {s}) /\ Alike(x, z)
        /\ z.handle = x.handle /\ z.segments = x.segments /\ z.ends = x.ends
    <2>1. {} \cup {s} = {s}
      OBVIOUS
    <2>2. Sound(z, {} \cup {s}) /\ Alike(x, z) /\ z.handle = x.handle /\ z.segments = x.segments /\ z.ends = x.ends
      BY <1>1, UnpublishIs
    <2> QED BY <2>1, <2>2
  <1>3. /\ MemoryType(z) /\ Clocked(z) /\ Staffed(z) /\ Seated(z) /\ Listing(z, {s})
        /\ z.segments = [t \in DOMAIN z.segments |-> z.segments[t]] /\ DOMAIN z.segments \subseteq Nat \ {0}
        /\ \A t \in DOMAIN z.segments : z.segments[t] \in Desks
        /\ z.ends \in [Hash -> Nat] /\ s \in DOMAIN z.segments /\ s \in Nat \ {0}
    <2>1. MemoryType(z) /\ Clocked(z) /\ Staffed(z) /\ Seated(z) /\ Listing(z, {s})
      BY <1>2 DEF Sound
    <2> QED BY <1>2, <2>1, PartTypes
  <1>4. PICK o, d : o = z.segments[s].endpoint /\ d = [z.segments[s] EXCEPT !.endpoint = e]
    OBVIOUS
  <1>5. /\ d \in Desks /\ d.endpoint = e /\ d.group = z.segments[s].group
        /\ d.members = z.segments[s].members /\ o \in Hash /\ z.ends[o] = s /\ o # e
    <2>1. z.segments[s] \in Desks
      BY <1>3
    <2>2. /\ d \in Desks /\ d.endpoint = e /\ d.group = z.segments[s].group
          /\ d.members = z.segments[s].members /\ o \in Hash
      BY <1>4, <2>1 DEF Desks
    <2> QED BY <1>2, <1>3, <1>4, <2>2 DEF Seated
  <1>6. PICK E, L : E = [[z.ends EXCEPT ![o] = 0] EXCEPT ![e] = s] /\ L = [z.segments EXCEPT ![s] = d]
    OBVIOUS
  <1>7. PICK w : w = [z EXCEPT !.ends = E, !.segments = L]
    OBVIOUS
  <1>8. y = MI!Publish(w, s)
    BY <1>1, <1>4, <1>6, <1>7 DEF MI!MoveEndpoint, MI!NoHandle
  <1>9. /\ L \in Ledgers /\ DOMAIN L = DOMAIN z.segments /\ L[s] = d
        /\ \A t \in DOMAIN z.segments : t # s => L[t] = z.segments[t]
        /\ E \in [Hash -> Nat] /\ E[e] = s /\ E[o] = 0
        /\ \A h \in Hash : h # e /\ h # o => E[h] = z.ends[h]
    <2>1. /\ DOMAIN L = DOMAIN z.segments /\ L[s] = d
          /\ \A t \in DOMAIN z.segments : t # s => L[t] = z.segments[t]
          /\ L = [t \in DOMAIN L |-> L[t]]
      BY <1>3, <1>6
    <2>2. L \in Ledgers
      BY <1>3, <1>5, <2>1, LedgerIs
    <2>3. /\ E \in [Hash -> Nat] /\ E[e] = s /\ E[o] = 0
          /\ \A h \in Hash : h # e /\ h # o => E[h] = z.ends[h]
      BY <1>3, <1>5, <1>6
    <2> QED BY <2>1, <2>2, <2>3
  <1>10. /\ MemoryType(w) /\ Alike(z, w) /\ w.groups = z.groups /\ w.handle = z.handle
         /\ w.segments = L /\ w.ends = E
    <2>1. w.groupOf = z.groupOf /\ w.segments = L /\ Zoned(z)
      BY <1>3, <1>7 DEF MemoryType
    <2>2. Zoned(w)
      BY <1>3, <1>5, <1>9, <2>1 DEF Zoned
    <2> QED BY <1>3, <1>7, <1>9, <2>2 DEF MemoryType, Alike
  <1>11. Clocked(w)
    BY <1>3, <1>10 DEF Clocked, Alike
  <1>12. Staffed(w)
    <2>1. \A t \in DOMAIN z.segments : /\ L[t].members = z.segments[t].members
                                       /\ Stamped(w, Team(w, t)) = Stamped(z, Team(z, t))
      BY <1>5, <1>9, <1>10 DEF Stamped, Team, Alike
    <2> QED BY <1>3, <1>9, <1>10, <2>1 DEF Staffed
  <1>13. Seated(w)
    <2>1. ASSUME NEW t \in DOMAIN z.segments PROVE E[L[t].endpoint] = t
      <3>1. CASE t = s
        BY <1>5, <1>9, <3>1
      <3>2. CASE t # s
        <4>1. L[t] = z.segments[t] /\ z.segments[t].endpoint \in Hash /\ z.ends[z.segments[t].endpoint] = t
              /\ t # 0
          BY <1>3, <1>9, <3>2 DEF Seated, Desks
        <4>2. z.segments[t].endpoint # e /\ z.segments[t].endpoint # o
          BY <1>2, <1>5, <3>2, <4>1
        <4> QED BY <1>9, <4>1, <4>2
      <3> QED BY <3>1, <3>2
    <2>2. ASSUME NEW h \in Hash, E[h] # 0 PROVE E[h] \in DOMAIN L /\ L[E[h]].endpoint = h
      <3>1. CASE h = e
        BY <1>3, <1>5, <1>9, <3>1
      <3>2. CASE h # e
        <4>1. h # o /\ E[h] = z.ends[h]
          BY <1>9, <2>2, <3>2
        <4>2. z.ends[h] \in DOMAIN z.segments /\ z.segments[z.ends[h]].endpoint = h
          BY <1>3, <2>2, <4>1 DEF Seated
        <4>3. z.ends[h] # s
          BY <1>4, <4>1, <4>2
        <4> QED BY <1>9, <4>1, <4>2, <4>3
      <3> QED BY <3>1, <3>2
    <2> QED BY <1>9, <1>10, <2>1, <2>2 DEF Seated
  <1>14. Listing(w, {s})
    <2>1. /\ DOMAIN w.segments \ {s} = DOMAIN z.segments \ {s}
          /\ \A t \in DOMAIN z.segments \ {s} : w.segments[t] = z.segments[t] /\ Team(w, t) = Team(z, t)
      BY <1>9, <1>10 DEF Team
    <2>2. \A g : Entries(w, {s}, g) = Entries(z, {s}, g)
      BY <2>1, EntriesSame
    <2> QED BY <1>3, <1>10, <2>1, <2>2 DEF Listing
  <1>15. Sound(w, {s})
    BY <1>10, <1>11, <1>12, <1>13, <1>14 DEF Sound
  <1>16. /\ Sound(y, {s} \ {s}) /\ Alike(w, y) /\ \A h \in InDram(w) : Seat(y, h) = Seat(w, h)
    BY <1>3, <1>8, <1>9, <1>10, <1>15, PublishIs
  <1>17. ASSUME NEW h \in InDram(x)
         PROVE  Seat(w, h) = IF Seat(x, h) = x.segments[s].endpoint THEN e ELSE Seat(x, h)
    <2>1. h \in Hash /\ z.recency[h] # 0
      BY <1>2 DEF InDram, Alike
    <2>2. z.handle[h] \in DOMAIN z.segments
      BY <1>3, <2>1 DEF Clocked, Staffed
    <2>3. z.handle[h] # s => z.segments[z.handle[h]].endpoint # o
      BY <1>3, <1>5, <2>2 DEF Seated
    <2>4. PICK r : r = z.handle[h]
      OBVIOUS
    <2>5. Seat(x, h) = z.segments[r].endpoint /\ Seat(w, h) = L[r].endpoint /\ x.segments[s].endpoint = o
      BY <1>2, <1>4, <1>10, <2>4 DEF Seat
    <2>6. CASE r = s
      BY <1>4, <1>5, <1>9, <2>5, <2>6
    <2>7. CASE r # s
      BY <1>9, <2>2, <2>3, <2>4, <2>5, <2>7
    <2> QED BY <2>6, <2>7
  <1>18. InDram(w) = InDram(x) /\ Alike(x, y) /\ {s} \ {s} = {}
    BY <1>2, <1>10, <1>16 DEF InDram, Alike
  <1> QED BY <1>16, <1>17, <1>18

\* Where the handle of a DRAM block leads.
LEMMA SeatIs ==
  ASSUME NEW x, NEW O, Sound(x, O), NEW h \in InDram(x)
  PROVE  /\ h \in Hash /\ x.handle[h] # 0 /\ x.handle[h] \in DOMAIN x.segments
         /\ Seat(x, h) \in Hash /\ x.ends[Seat(x, h)] = x.handle[h]
  <1>1. MemoryType(x) /\ Clocked(x) /\ Staffed(x) /\ Seated(x) /\ h \in Hash
    BY DEF Sound, InDram
  <1>2. x.handle[h] # 0 /\ x.handle[h] \in DOMAIN x.segments
    BY <1>1 DEF InDram, Clocked, Staffed
  <1>3. x.segments[x.handle[h]] \in Desks
    BY <1>1, <1>2, PartTypes
  <1> QED BY <1>1, <1>2, <1>3 DEF Seat, Seated, Desks

\* merge() gives the blocks of one segment to another.
LEMMA MergeIs ==
  ASSUME NEW x, Sound(x, {}), NEW p \in Hash, NEW f \in Hash, p # f, NEW y, y = MI!Merge(x, p, f)
  PROVE  /\ Sound(y, {}) /\ Alike(x, y)
         /\ \A h \in InDram(x) : Seat(y, h) = IF Seat(x, h) = p THEN f ELSE Seat(x, h)
  <1>0. PICK a, b : a = x.ends[p] /\ b = x.ends[f]
    OBVIOUS
  <1>1. CASE a = 0
    <2>1. y = x
      BY <1>0, <1>1 DEF MI!Merge, MI!NoHandle
    <2>2. ASSUME NEW h \in InDram(x) PROVE Seat(x, h) # p
      <3>1. x.handle[h] # 0 /\ x.ends[Seat(x, h)] = x.handle[h]
        BY SeatIs
      <3> QED BY <1>0, <1>1, <3>1
    <2> QED BY <2>1, <2>2 DEF Alike
  <1>2. a # 0 => a \in DOMAIN x.segments /\ x.segments[a].endpoint = p
    BY <1>0 DEF Sound, Seated
  <1>3. CASE a # 0 /\ b = 0
    <2>1. y = MI!MoveEndpoint(x, a, f)
      BY <1>0, <1>3 DEF MI!Merge, MI!NoHandle
    <2>2. a \in DOMAIN x.segments /\ x.ends[f] = 0 /\ x.segments[a].endpoint = p
      BY <1>0, <1>2, <1>3
    <2>3. /\ Sound(y, {}) /\ Alike(x, y)
          /\ \A h \in InDram(x) : Seat(y, h) = IF Seat(x, h) = x.segments[a].endpoint THEN f
                                               ELSE Seat(x, h)
      BY <2>1, <2>2, MoveIs
    <2> QED BY <2>2, <2>3
  <1>4. CASE a # 0 /\ b # 0
    <2>1. /\ b \in DOMAIN x.segments /\ x.segments[b].endpoint = f
          /\ a \in DOMAIN x.segments /\ x.segments[a].endpoint = p /\ a # b
      BY <1>0, <1>2, <1>4 DEF Sound, Seated
    <2>2. PICK c : c = MI!Unpublish(x, a)
      OBVIOUS
    <2>3. /\ Sound(c, {} \cup {a}) /\ Alike(x, c)
          /\ c.handle = x.handle /\ c.segments = x.segments /\ c.ends = x.ends
      BY <2>1, <2>2, UnpublishIs
    <2>4. PICK z : z = MI!Unpublish(c, b)
      OBVIOUS
    <2>5. /\ Sound(z, ({} \cup {a}) \cup {b}) /\ Alike(c, z)
          /\ z.handle = c.handle /\ z.segments = c.segments /\ z.ends = c.ends
      BY <2>1, <2>3, <2>4, UnpublishIs
    <2>6. /\ Sound(z, {a, b}) /\ Alike(x, z)
          /\ z.handle = x.handle /\ z.segments = x.segments /\ z.ends = x.ends
      <3>1. ({} \cup {a}) \cup {b} = {a, b}
        OBVIOUS
      <3> QED BY <2>3, <2>5, <3>1 DEF Alike
    <2>7. /\ MemoryType(z) /\ Clocked(z) /\ Staffed(z) /\ Seated(z) /\ Listing(z, {a, b})
          /\ z.segments = [t \in DOMAIN z.segments |-> z.segments[t]] /\ DOMAIN z.segments \subseteq Nat \ {0}
          /\ \A t \in DOMAIN z.segments : z.segments[t] \in Desks
          /\ z.ends \in [Hash -> Nat] /\ z.handle \in [Hash -> Nat]
      <3>1. MemoryType(z) /\ Clocked(z) /\ Staffed(z) /\ Seated(z) /\ Listing(z, {a, b})
        BY <2>6 DEF Sound
      <3> QED BY <3>1, PartTypes
    <2>8. /\ a \in DOMAIN z.segments /\ b \in DOMAIN z.segments /\ a \in Nat \ {0} /\ b \in Nat \ {0}
          /\ z.segments[a].endpoint = p /\ z.segments[b].endpoint = f
          /\ z.ends[p] = a /\ z.ends[f] = b
      BY <1>0, <2>1, <2>6, <2>7
    <2>9. PICK K, d : K = z.segments[a].members
                      /\ d = [z.segments[b] EXCEPT !.members = @ \cup K]
      OBVIOUS
    <2>10. /\ d \in Desks /\ d.endpoint = f /\ d.group = z.segments[b].group
           /\ d.members = z.segments[b].members \cup K
      <3>1. z.segments[b] \in Desks /\ z.segments[a] \in Desks
        BY <2>7, <2>8
      <3>2. K \in SUBSET (Nat \X Hash)
        BY <2>9, <3>1 DEF Desks
      <3> QED BY <2>8, <2>9, <3>1, <3>2 DEF Desks
    <2>11. PICK H, M : H = [h \in Hash |-> IF \E k \in K : k[2] = h THEN b ELSE z.handle[h]]
                       /\ M = [z.segments EXCEPT ![b] = d]
      OBVIOUS
    <2>12. PICK v : v = [z EXCEPT !.handle = H, !.segments = M]
      OBVIOUS
    <2>13. PICK w : w = MI!Forget(v, a)
      OBVIOUS
    <2>14. y = MI!Publish(w, b)
      BY <1>0, <1>4, <2>2, <2>4, <2>9, <2>11, <2>12, <2>13 DEF MI!Merge, MI!NoHandle
    <2>15. /\ DOMAIN M = DOMAIN z.segments /\ M[b] = d
           /\ \A t \in DOMAIN z.segments : t # b => M[t] = z.segments[t]
      BY <2>7, <2>8, <2>11
    <2>16. v.segments = M /\ v.ends = z.ends
      BY <2>7, <2>12 DEF MemoryType
    <2>17. PICK E, L : E = [z.ends EXCEPT ![p] = 0] /\ L = [t \in DOMAIN M \ {a} |-> M[t]]
      OBVIOUS
    <2>18. w = [v EXCEPT !.ends = E, !.segments = L]
      <3>1. M[a].endpoint = p
        BY <2>1, <2>8, <2>15
      <3> QED BY <2>13, <2>16, <2>17, <3>1 DEF MI!Forget, MI!NoHandle
    <2>19. /\ L \in Ledgers /\ DOMAIN L = DOMAIN z.segments \ {a} /\ L[b] = d /\ b \in DOMAIN L
           /\ \A t \in DOMAIN L : t # b => L[t] = z.segments[t]
      <3>1. /\ DOMAIN L = DOMAIN z.segments \ {a} /\ L[b] = d /\ b \in DOMAIN L
            /\ \A t \in DOMAIN L : t # b => L[t] = z.segments[t]
            /\ L = [t \in DOMAIN L |-> L[t]]
        BY <2>1, <2>8, <2>15, <2>17
      <3>2. \A t \in DOMAIN L : L[t] \in Desks
        BY <2>7, <2>10, <3>1
      <3>3. DOMAIN L \subseteq Nat \ {0}
        BY <2>7, <3>1
      <3> QED BY <3>1, <3>2, <3>3, LedgerIs
    <2>20. /\ K = Stamped(z, Team(z, a)) /\ z.segments[b].members = Stamped(z, Team(z, b))
           /\ \A h \in Hash : (\E k \in K : k[2] = h) <=> z.handle[h] = a
      <3>1. K = Stamped(z, Team(z, a)) /\ z.segments[b].members = Stamped(z, Team(z, b))
        BY <2>7, <2>8, <2>9 DEF Staffed
      <3>2. \A h \in Hash : z.handle[h] = a => <<z.recency[h], h>> \in K
        BY <3>1 DEF Stamped, Team
      <3>3. \A k \in K : \E h \in Hash : k[2] = h /\ z.handle[h] = a
        BY <3>1 DEF Stamped, Team
      <3> QED BY <3>1, <3>2, <3>3
    <2>21. /\ H \in [Hash -> Nat]
           /\ \A h \in Hash : H[h] = IF z.handle[h] = a THEN b ELSE z.handle[h]
      BY <2>7, <2>8, <2>11, <2>20
    <2>22. /\ E \in [Hash -> Nat] /\ E[p] = 0 /\ \A h \in Hash : h # p => E[h] = z.ends[h]
      BY <2>7, <2>17
    <2>23. /\ MemoryType(w) /\ Alike(z, w) /\ w.groups = z.groups /\ w.handle = H
           /\ w.segments = L /\ w.ends = E
      <3>1. w = [z EXCEPT !.handle = H, !.segments = L, !.ends = E]
        BY <2>7, <2>12, <2>18 DEF MemoryType
      <3>2. w.groupOf = z.groupOf /\ w.segments = L /\ Zoned(z)
        BY <2>7, <3>1 DEF MemoryType
      <3>3. Zoned(w)
        BY <2>7, <2>8, <2>10, <2>19, <3>2 DEF Zoned
      <3> QED BY <2>7, <2>19, <2>21, <2>22, <3>1, <3>3 DEF MemoryType, Alike
    <2>24. Clocked(w)
      BY <2>7, <2>8, <2>21, <2>23 DEF Clocked, Alike
    <2>25. \A t : t # a /\ t # b => Team(w, t) = Team(z, t)
      BY <2>21, <2>23 DEF Team
    <2>26. Team(w, b) = Team(z, a) \cup Team(z, b)
      BY <2>1, <2>21, <2>23 DEF Team
    <2>27. Staffed(w)
      <3>1. \A h \in Hash : w.handle[h] # 0 => w.handle[h] \in DOMAIN w.segments
        BY <2>7, <2>19, <2>21, <2>23 DEF Staffed
      <3>2. w.segments[b].members = Stamped(w, Team(w, b))
        <4>1. Stamped(w, Team(w, b)) = Stamped(z, Team(z, a)) \cup Stamped(z, Team(z, b))
          BY <2>23, <2>26 DEF Stamped, Alike
        <4> QED BY <2>10, <2>19, <2>20, <2>23, <4>1
      <3>3. ASSUME NEW t \in DOMAIN w.segments, t # b PROVE w.segments[t].members = Stamped(w, Team(w, t))
        <4>1. t \in DOMAIN z.segments /\ t # a /\ w.segments[t] = z.segments[t]
          BY <2>19, <2>23, <3>3
        <4>2. Stamped(w, Team(w, t)) = Stamped(z, Team(z, t))
          BY <2>23, <2>25, <3>3, <4>1 DEF Stamped, Alike
        <4> QED BY <2>7, <4>1, <4>2 DEF Staffed
      <3> QED BY <3>1, <3>2, <3>3 DEF Staffed
    <2>28. Seated(w)
      <3>1. ASSUME NEW t \in DOMAIN L PROVE E[L[t].endpoint] = t
        <4>1. t \in DOMAIN z.segments /\ t # a /\ L[t].endpoint = z.segments[t].endpoint
          BY <2>8, <2>10, <2>19
        <4>2. z.ends[z.segments[t].endpoint] = t /\ z.segments[t].endpoint \in Hash
          BY <2>7, <4>1 DEF Seated, Desks
        <4> QED BY <2>8, <2>22, <4>1, <4>2
      <3>2. ASSUME NEW h \in Hash, E[h] # 0 PROVE E[h] \in DOMAIN L /\ L[E[h]].endpoint = h
        <4>1. h # p /\ E[h] = z.ends[h]
          BY <2>22, <3>2
        <4>2. z.ends[h] \in DOMAIN z.segments /\ z.segments[z.ends[h]].endpoint = h
          BY <2>7, <3>2, <4>1 DEF Seated
        <4>3. z.ends[h] # a
          BY <2>8, <4>1, <4>2
        <4> QED BY <2>8, <2>10, <2>19, <4>1, <4>2, <4>3
      <3> QED BY <2>23, <3>1, <3>2 DEF Seated
    <2>29. Listing(w, {b})
      <3>1. /\ DOMAIN w.segments \ {b} = DOMAIN z.segments \ {a, b}
            /\ \A t \in DOMAIN z.segments \ {a, b} :
                  w.segments[t] = z.segments[t] /\ Team(w, t) = Team(z, t)
        BY <2>19, <2>23, <2>25
      <3>2. \A g : Entries(w, {b}, g) = Entries(z, {a, b}, g)
        BY <3>1, EntriesSame
      <3> QED BY <2>7, <2>23, <3>1, <3>2 DEF Listing
    <2>30. Sound(w, {b})
      BY <2>23, <2>24, <2>27, <2>28, <2>29 DEF Sound
    <2>31. /\ Sound(y, {b} \ {b}) /\ Alike(w, y) /\ \A h \in InDram(w) : Seat(y, h) = Seat(w, h)
      BY <2>14, <2>19, <2>23, <2>30, PublishIs
    <2>32. ASSUME NEW h \in InDram(x) PROVE Seat(w, h) = IF Seat(x, h) = p THEN f ELSE Seat(x, h)
      <3>1. PICK r : r = z.handle[h]
        OBVIOUS
      <3>2. h \in InDram(z)
        BY <2>6 DEF InDram, Alike
      <3>3. h \in Hash /\ r \in DOMAIN z.segments /\ z.ends[z.segments[r].endpoint] = r
        BY <2>6, <3>1, <3>2, SeatIs DEF Seat
      <3>4. Seat(x, h) = z.segments[r].endpoint /\ Seat(w, h) = L[H[h]].endpoint
        BY <2>6, <2>23, <3>1 DEF Seat
      <3>5. CASE r = a
        BY <2>8, <2>10, <2>19, <2>21, <3>1, <3>3, <3>4, <3>5
      <3>6. CASE r # a
        <4>1. H[h] = r /\ L[r].endpoint = z.segments[r].endpoint
          BY <2>8, <2>10, <2>19, <2>21, <3>1, <3>3, <3>6
        <4> QED BY <2>8, <3>3, <3>4, <3>6, <4>1
      <3> QED BY <3>5, <3>6
    <2>33. InDram(w) = InDram(x) /\ Alike(x, y) /\ {b} \ {b} = {}
      BY <2>6, <2>23, <2>31 DEF InDram, Alike
    <2> QED BY <2>31, <2>32, <2>33
  <1> QED BY <1>1, <1>3, <1>4

\* What Split does gives some blocks of a segment one of their own.
LEMMA SplitIs ==
  ASSUME NEW x, Sound(x, {}), NEW s \in DOMAIN x.segments, NEW K \in SUBSET Team(x, s), K # {},
         NEW p \in Hash, x.ends[p] = 0, NEW y, y = MI!Split(x, K, s, p)
  PROVE  /\ Sound(y, {}) /\ Alike(x, y)
         /\ \A h \in InDram(x) : Seat(y, h) = IF h \in K THEN p ELSE Seat(x, h)
  <1>1. PICK a : a = MI!Unpublish(x, s)
    OBVIOUS
  <1>2. /\ Sound(a, {} \cup {s}) /\ Alike(x, a)
        /\ a.handle = x.handle /\ a.segments = x.segments /\ a.ends = x.ends
    BY <1>1, UnpublishIs
  <1>3. PICK z, r : z = MI!EnsureSegment(a, p) /\ r = z.ends[p]
    OBVIOUS
  <1>4. /\ Sound(z, ({} \cup {s}) \cup {r})
        /\ Alike(a, z) /\ z.handle = a.handle
        /\ r \in DOMAIN z.segments /\ z.segments[r].endpoint = p
        /\ r \notin DOMAIN x.segments /\ Team(z, r) = {}
        /\ \A t \in DOMAIN x.segments : t \in DOMAIN z.segments /\ z.segments[t] = x.segments[t]
    <2>1. PICK O : O = {} \cup {s}
      OBVIOUS
    <2>2. Sound(a, O) /\ a.ends[p] = 0 /\ a.segments = x.segments
      BY <1>2, <2>1
    <2>3. Ensured(a, O, p, z, r)
      BY <1>3, <2>2, EnsureIs
    <2>4. Sound(z, O \cup {r})
      BY <2>2, <2>3 DEF Ensured
    <2> QED BY <2>1, <2>2, <2>3, <2>4 DEF Ensured
  <1>5. Sound(z, {s, r}) /\ Alike(x, z) /\ z.handle = x.handle
    <2>1. ({} \cup {s}) \cup {r} = {s, r}
      OBVIOUS
    <2> QED BY <1>2, <1>4, <2>1 DEF Alike
  <1>6. /\ MemoryType(z) /\ Clocked(z) /\ Staffed(z) /\ Seated(z) /\ Listing(z, {s, r})
        /\ z.segments = [t \in DOMAIN z.segments |-> z.segments[t]] /\ DOMAIN z.segments \subseteq Nat \ {0}
        /\ \A t \in DOMAIN z.segments : z.segments[t] \in Desks
        /\ z.handle \in [Hash -> Nat] /\ z.recency \in [Hash -> Nat]
    <2>1. MemoryType(z) /\ Clocked(z) /\ Staffed(z) /\ Seated(z) /\ Listing(z, {s, r})
      BY <1>5 DEF Sound
    <2> QED BY <2>1, PartTypes
  <1>7. /\ s \in DOMAIN z.segments /\ r \in DOMAIN z.segments /\ s # r /\ s \in Nat \ {0} /\ r \in Nat \ {0}
        /\ Team(z, s) = Team(x, s) /\ K \subseteq Team(z, s) /\ K \subseteq Hash
    BY <1>4, <1>5, <1>6 DEF Team
  <1>8. PICK Q, d, c : /\ Q = {<<x.recency[h], h>> : h \in K}
                       /\ d = [z.segments[s] EXCEPT !.members = @ \ Q]
                       /\ c = [z.segments[r] EXCEPT !.members = @ \cup Q]
    OBVIOUS
  <1>9. /\ Q = Stamped(z, K) /\ Q \in SUBSET (Nat \X Hash)
        /\ z.segments[s].members = Stamped(z, Team(z, s)) /\ z.segments[r].members = {}
    <2>1. Q = Stamped(z, K)
      BY <1>5, <1>8 DEF Stamped, Alike
    <2>2. Q \in SUBSET (Nat \X Hash)
      BY <1>6, <1>7, <2>1 DEF Stamped
    <2>3. z.segments[s].members = Stamped(z, Team(z, s)) /\ z.segments[r].members = Stamped(z, Team(z, r))
      BY <1>6, <1>7 DEF Staffed
    <2> QED BY <1>4, <2>1, <2>2, <2>3 DEF Stamped
  <1>10. /\ d \in Desks /\ d.endpoint = z.segments[s].endpoint /\ d.group = z.segments[s].group
         /\ d.members = z.segments[s].members \ Q
         /\ c \in Desks /\ c.endpoint = p /\ c.group = z.segments[r].group /\ c.members = Q
    <2>1. z.segments[s] \in Desks /\ z.segments[r] \in Desks
      BY <1>6, <1>7
    <2> QED BY <1>4, <1>8, <1>9, <2>1 DEF Desks
  <1>11. PICK H, L : /\ H = [h \in Hash |-> IF h \in K THEN r ELSE z.handle[h]]
                     /\ L = [[z.segments EXCEPT ![s] = d] EXCEPT ![r] = c]
    OBVIOUS
  <1>12. PICK w : w = [z EXCEPT !.handle = H, !.segments = L]
    OBVIOUS
  <1>13. y = MI!Publish(MI!Publish(w, s), r)
    <2>1. L = [z.segments EXCEPT ![s].members = @ \ Q, ![r].members = @ \cup Q]
      BY <1>7, <1>8, <1>11
    <2>2. w = [z EXCEPT !.handle = [h \in Hash |-> IF h \in K THEN r ELSE @[h]], !.segments = L]
      BY <1>11, <1>12
    <2>3. y = LET m == MI!EnsureSegment(MI!Unpublish(x, s), p)
                  n == m.ends[p]
                  J == {<<x.recency[h], h>> : h \in K}
                  F == [m.segments EXCEPT ![s].members = @ \ J, ![n].members = @ \cup J]
              IN  MI!Publish(MI!Publish([m EXCEPT
                     !.handle = [h \in Hash |-> IF h \in K THEN n ELSE @[h]],
                     !.segments = F], s), n)
      BY DEF MI!Split
    <2> QED BY <1>1, <1>3, <1>8, <2>1, <2>2, <2>3
  <1>14. /\ L \in Ledgers /\ DOMAIN L = DOMAIN z.segments /\ L[s] = d /\ L[r] = c
         /\ \A t \in DOMAIN z.segments : t # s /\ t # r => L[t] = z.segments[t]
    <2>1. /\ DOMAIN L = DOMAIN z.segments /\ L[s] = d /\ L[r] = c
          /\ \A t \in DOMAIN z.segments : t # s /\ t # r => L[t] = z.segments[t]
          /\ L = [t \in DOMAIN L |-> L[t]]
      BY <1>6, <1>7, <1>11
    <2>2. \A t \in DOMAIN L : L[t] \in Desks
      BY <1>6, <1>10, <2>1
    <2> QED BY <1>6, <2>1, <2>2, LedgerIs
  <1>15. H \in [Hash -> Nat] /\ \A h \in Hash : H[h] = IF h \in K THEN r ELSE z.handle[h]
    BY <1>6, <1>7, <1>11
  <1>16. /\ MemoryType(w) /\ Alike(z, w) /\ w.groups = z.groups /\ w.handle = H
         /\ w.segments = L /\ w.ends = z.ends
    <2>1. w.groupOf = z.groupOf /\ w.segments = L /\ Zoned(z)
      BY <1>6, <1>12 DEF MemoryType
    <2>2. Zoned(w)
      BY <1>6, <1>7, <1>10, <1>14, <2>1 DEF Zoned
    <2> QED BY <1>6, <1>12, <1>14, <1>15, <2>2 DEF MemoryType, Alike
  <1>17. \A h \in K : z.handle[h] = s /\ h \in Hash
    BY <1>7 DEF Team
  <1>18. Clocked(w)
    BY <1>6, <1>7, <1>15, <1>16, <1>17 DEF Clocked, Alike
  <1>19. /\ Team(w, s) = Team(z, s) \ K /\ Team(w, r) = K
         /\ \A t : t # s /\ t # r => Team(w, t) = Team(z, t)
    BY <1>4, <1>7, <1>15, <1>16, <1>17 DEF Team
  <1>20. Staffed(w)
    <2>1. \A h \in Hash : w.handle[h] # 0 => w.handle[h] \in DOMAIN w.segments
      BY <1>6, <1>7, <1>14, <1>15, <1>16 DEF Staffed
    <2>2. w.segments[s].members = Stamped(w, Team(w, s))
      <3>1. Stamped(w, Team(w, s)) = Stamped(z, Team(z, s)) \ Stamped(z, K)
        BY <1>16, <1>19 DEF Stamped, Alike
      <3> QED BY <1>9, <1>10, <1>14, <1>16, <3>1
    <2>3. w.segments[r].members = Stamped(w, Team(w, r))
      <3>1. Stamped(w, Team(w, r)) = Stamped(z, K)
        BY <1>16, <1>19 DEF Stamped, Alike
      <3> QED BY <1>9, <1>10, <1>14, <1>16, <3>1
    <2>4. ASSUME NEW t \in DOMAIN w.segments, t # s, t # r
          PROVE  w.segments[t].members = Stamped(w, Team(w, t))
      <3>1. t \in DOMAIN z.segments /\ w.segments[t] = z.segments[t]
        BY <1>14, <1>16, <2>4
      <3>2. Stamped(w, Team(w, t)) = Stamped(z, Team(z, t))
        BY <1>16, <1>19, <2>4 DEF Stamped, Alike
      <3> QED BY <1>6, <3>1, <3>2 DEF Staffed
    <2> QED BY <2>1, <2>2, <2>3, <2>4 DEF Staffed
  <1>21. Seated(w)
    <2>1. \A t \in DOMAIN z.segments : L[t].endpoint = z.segments[t].endpoint
      BY <1>4, <1>10, <1>14
    <2> QED BY <1>6, <1>14, <1>16, <2>1 DEF Seated
  <1>22. Listing(w, {s, r})
    <2>1. /\ DOMAIN w.segments \ {s, r} = DOMAIN z.segments \ {s, r}
          /\ \A t \in DOMAIN z.segments \ {s, r} : w.segments[t] = z.segments[t] /\ Team(w, t) = Team(z, t)
      BY <1>14, <1>16, <1>19
    <2>2. \A g : Entries(w, {s, r}, g) = Entries(z, {s, r}, g)
      BY <2>1, EntriesSame
    <2> QED BY <1>6, <1>16, <2>1, <2>2 DEF Listing
  <1>23. Sound(w, {s, r})
    BY <1>16, <1>18, <1>20, <1>21, <1>22 DEF Sound
  <1>24. PICK v : v = MI!Publish(w, s)
    OBVIOUS
  <1>25. /\ Sound(v, {s, r} \ {s}) /\ Alike(w, v) /\ r \in DOMAIN v.segments
         /\ \A h \in InDram(w) : Seat(v, h) = Seat(w, h)
    BY <1>7, <1>14, <1>16, <1>23, <1>24, PublishIs
  <1>26. /\ Sound(y, ({s, r} \ {s}) \ {r}) /\ Alike(v, y)
         /\ \A h \in InDram(v) : Seat(y, h) = Seat(v, h)
    <2>1. r \in {s, r} \ {s}
      BY <1>7
    <2> QED BY <1>13, <1>24, <1>25, <2>1, PublishIs
  <1>27. ASSUME NEW h \in InDram(x) PROVE Seat(w, h) = IF h \in K THEN p ELSE Seat(x, h)
    <2>1. h \in InDram(z) /\ h \in Hash
      BY <1>5 DEF InDram, Alike
    <2>2. PICK q : q = z.handle[h]
      OBVIOUS
    <2>3. q \in DOMAIN x.segments /\ x.segments[q] = z.segments[q] /\ q \in DOMAIN z.segments /\ q # r
      <3>1. x.handle[h] \in DOMAIN x.segments
        BY SeatIs
      <3> QED BY <1>4, <1>5, <2>2, <3>1
    <2>4. Seat(x, h) = z.segments[q].endpoint /\ Seat(w, h) = L[H[h]].endpoint
      BY <1>5, <1>16, <2>2, <2>3 DEF Seat
    <2>5. CASE h \in K
      BY <1>10, <1>14, <1>15, <2>1, <2>4, <2>5
    <2>6. CASE h \notin K
      BY <1>10, <1>14, <1>15, <2>1, <2>2, <2>3, <2>4, <2>6
    <2> QED BY <2>5, <2>6
  <1>28. InDram(w) = InDram(x) /\ InDram(v) = InDram(x) /\ Alike(x, y) /\ ({s, r} \ {s}) \ {r} = {}
    BY <1>5, <1>16, <1>25, <1>26 DEF InDram, Alike
  <1> QED BY <1>25, <1>26, <1>27, <1>28

\* A segment that is replaced leaves a ledger.
LEMMA LedgerSet ==
  ASSUME NEW a \in Ledgers, NEW s \in DOMAIN a, NEW d \in Desks
  PROVE  /\ [a EXCEPT ![s] = d] \in Ledgers /\ DOMAIN [a EXCEPT ![s] = d] = DOMAIN a
         /\ [a EXCEPT ![s] = d][s] = d
         /\ \A t \in DOMAIN a : t # s => [a EXCEPT ![s] = d][t] = a[t]
  <1>1. PICK D \in SUBSET (Nat \ {0}) : a \in [D -> Desks]
    BY DEF Ledgers
  <1>2. PICK L : L = [a EXCEPT ![s] = d]
    OBVIOUS
  <1>3. L \in [D -> Desks] /\ L[s] = d /\ \A t \in D : t # s => L[t] = a[t]
    BY <1>1, <1>2
  <1>4. L \in Ledgers
    BY <1>1, <1>3 DEF Ledgers
  <1>5. DOMAIN L = D /\ DOMAIN a = D
    BY <1>1, <1>3
  <1> QED BY <1>2, <1>3, <1>4, <1>5

\* What a commit writes in the index between unpublish() and publish(): the
\* recency and the handle of a block, and the members of its segment.
Commit(z, s, n, q, r, m, M, B) ==
  [z EXCEPT !.next = m, !.recency[n] = r, !.handle[n] = q, !.segments[s].members = M, !.below = B]

\* The block enters the segment (q = s) or leaves it (q = 0).
Commits(z, s, n, q, r, m, M, B) ==
  /\ s \in DOMAIN z.segments /\ Sound(z, {s}) /\ n \in Hash /\ z.handle[n] \in {0, s}
  /\ q \in {0, s}
  /\ r = IF q = 0 THEN 0 ELSE z.next + 1
  /\ m = IF q = 0 THEN z.next ELSE z.next + 1
  /\ M = (z.segments[s].members \ {<<z.recency[n], n>>}) \cup (IF q = 0 THEN {} ELSE {<<r, n>>})
  /\ B \in [Hash -> Int]
Committed(z, s, n, q, r, m, B, w) ==
  /\ w.groupOf = z.groupOf /\ w.below = B /\ w.next = m
  /\ w.recency = [z.recency EXCEPT ![n] = r]
  /\ InDram(w) = IF q = 0 THEN InDram(z) \ {n} ELSE InDram(z) \cup {n}
  /\ \A h \in InDram(z) \ {n} : Seat(w, h) = Seat(z, h)
  /\ q # 0 => Seat(w, n) = z.segments[s].endpoint

\* A commit that replaces the members of a withdrawn segment leaves the rest sound.
LEMMA CommitIs ==
  ASSUME NEW z, NEW s, NEW n, NEW q, NEW r, NEW m, NEW M, NEW B, Commits(z, s, n, q, r, m, M, B),
         NEW w, w = Commit(z, s, n, q, r, m, M, B)
  PROVE  Sound(w, {s}) /\ s \in DOMAIN w.segments /\ Committed(z, s, n, q, r, m, B, w)
  <1>0. PICK R, H, d, L : /\ R = [z.recency EXCEPT ![n] = r] /\ H = [z.handle EXCEPT ![n] = q]
                          /\ d = [z.segments[s] EXCEPT !.members = M] /\ L = [z.segments EXCEPT ![s] = d]
    OBVIOUS
  <1>20. w = [z EXCEPT !.next = m, !.recency = R, !.handle = H, !.segments = L, !.below = B]
    BY <1>0 DEF Commit
  <1>21. /\ s \in DOMAIN z.segments /\ Sound(z, {s}) /\ n \in Hash /\ z.handle[n] \in {0, s} /\ q \in {0, s}
         /\ r = (IF q = 0 THEN 0 ELSE z.next + 1) /\ m = (IF q = 0 THEN z.next ELSE z.next + 1)
         /\ B \in [Hash -> Int]
    BY DEF Commits
  <1>22. M = (z.segments[s].members \ {<<z.recency[n], n>>}) \cup (IF q = 0 THEN {} ELSE {<<r, n>>})
    BY DEF Commits
  <1>23. PICK O : O = {s}
    OBVIOUS
  <1>1. /\ MemoryType(z) /\ Clocked(z) /\ Staffed(z) /\ Seated(z) /\ Listing(z, O)
        /\ z.segments = [t \in DOMAIN z.segments |-> z.segments[t]] /\ DOMAIN z.segments \subseteq Nat \ {0}
        /\ \A t \in DOMAIN z.segments : z.segments[t] \in Desks
        /\ z.handle \in [Hash -> Nat] /\ z.recency \in [Hash -> Nat] /\ z.next \in Nat
        /\ s \in Nat \ {0}
    <2>1. MemoryType(z) /\ Clocked(z) /\ Staffed(z) /\ Seated(z) /\ Listing(z, O)
      BY <1>21, <1>23 DEF Sound
    <2> QED BY <1>21, <2>1, PartTypes
  <1>2. r \in Nat /\ m \in Nat /\ q \in Nat /\ z.next <= m /\ r <= m /\ (r = 0 <=> q = 0)
        /\ (q # 0 => q = s /\ r > z.next)
    BY <1>1, <1>21
  <1>3. z.segments[s].members = Stamped(z, Team(z, s)) /\ z.segments[s] \in Desks
    BY <1>1, <1>21 DEF Staffed
  <1>4. M \in SUBSET (Nat \X Hash)
    <2>1. z.segments[s].members \in SUBSET (Nat \X Hash)
      BY <1>3 DEF Desks
    <2>2. <<r, n>> \in Nat \X Hash
      BY <1>2, <1>21
    <2> QED BY <1>22, <2>1, <2>2
  <1>5. /\ d \in Desks /\ d.endpoint = z.segments[s].endpoint /\ d.group = z.segments[s].group
        /\ d.members = M
    BY <1>0, <1>3, <1>4 DEF Desks
  <1>6. /\ L \in Ledgers /\ DOMAIN L = DOMAIN z.segments /\ L[s] = d
        /\ \A t \in DOMAIN z.segments : t # s => L[t] = z.segments[t]
    <2>1. z.segments \in Ledgers
      BY <1>1, PartTypes
    <2> QED BY <1>0, <1>5, <1>21, <2>1, LedgerSet
  <1>7. /\ R \in [Hash -> Nat] /\ H \in [Hash -> Nat] /\ R[n] = r /\ H[n] = q
        /\ \A h \in Hash \ {n} : R[h] = z.recency[h] /\ H[h] = z.handle[h]
    BY <1>0, <1>1, <1>2, <1>21
  <1>8. /\ MemoryType(w) /\ w.groupOf = z.groupOf /\ w.recency = R /\ w.handle = H /\ w.segments = L
        /\ w.below = B /\ w.next = m /\ w.groups = z.groups /\ w.ends = z.ends
    <2>1. /\ w.groupOf = z.groupOf /\ w.recency = R /\ w.handle = H /\ w.segments = L
          /\ w.below = B /\ w.next = m /\ w.groups = z.groups /\ w.ends = z.ends
      BY <1>1, <1>20 DEF MemoryType
    <2>3. Zoned(w)
      <3>1. Zoned(z) /\ s \in DOMAIN z.segments
        BY <1>0, <1>1, <1>21 DEF MemoryType
      <3> QED BY <1>5, <1>6, <2>1, <3>1 DEF Zoned
    <2>2. MemoryType(w)
      BY <1>1, <1>2, <1>6, <1>7, <1>20, <1>21, <2>3 DEF MemoryType
    <2> QED BY <2>1, <2>2
  <1>9. Clocked(w)
    <2>1. \A h \in Hash : w.recency[h] <= w.next /\ (w.recency[h] = 0 <=> w.handle[h] = 0)
      <3> SUFFICES ASSUME NEW h \in Hash PROVE R[h] <= m /\ (R[h] = 0 <=> H[h] = 0)
        BY <1>8
      <3>1. CASE h = n
        BY <1>2, <1>7, <3>1
      <3>2. CASE h # n
        <4>1. z.recency[h] <= z.next /\ (z.recency[h] = 0 <=> z.handle[h] = 0)
          BY <1>1 DEF Clocked
        <4>2. z.recency[h] \in Nat
          BY <1>1
        <4> QED BY <1>1, <1>2, <1>7, <1>21, <3>2, <4>1, <4>2
      <3> QED BY <3>1, <3>2
    <2>2. ASSUME NEW h \in Hash, NEW k \in Hash, R[h] = R[k], R[h] # 0 PROVE h = k
      <3>1. \A g \in Hash : z.recency[g] \in Nat /\ z.recency[g] <= z.next
        BY <1>1 DEF Clocked
      <3>2. r # 0 => \A g \in Hash : z.recency[g] # r
        BY <1>1, <1>2, <1>21, <3>1
      <3>3. CASE h # n /\ k # n
        BY <1>1, <1>7, <2>2, <3>3 DEF Clocked
      <3>4. CASE h = n \/ k = n
        BY <1>7, <2>2, <3>2, <3>4
      <3> QED BY <3>3, <3>4
    <2> QED BY <1>8, <2>1, <2>2 DEF Clocked
  <1>10. \A t : t # s /\ t # 0 => Team(w, t) = Team(z, t)
    BY <1>2, <1>7, <1>8, <1>21 DEF Team
  <1>11. Staffed(w)
    <2>1. \A h \in Hash : w.handle[h] # 0 => w.handle[h] \in DOMAIN w.segments
      <3> SUFFICES ASSUME NEW h \in Hash, H[h] # 0 PROVE H[h] \in DOMAIN z.segments
        BY <1>6, <1>8
      <3>1. CASE h = n
        BY <1>2, <1>7, <1>21, <3>1
      <3>2. CASE h # n
        BY <1>1, <1>7, <3>2 DEF Staffed
      <3> QED BY <3>1, <3>2
    <2>2. ASSUME NEW t \in DOMAIN w.segments, t # s
          PROVE  w.segments[t].members = Stamped(w, Team(w, t))
      <3>1. t \in DOMAIN z.segments /\ w.segments[t] = z.segments[t] /\ t # 0
        BY <1>1, <1>6, <1>8, <2>2
      <3>2. Team(w, t) = Team(z, t)
        BY <1>10, <2>2, <3>1
      <3>3. n \notin Team(z, t)
        BY <1>21, <2>2, <3>1 DEF Team
      <3>4. \A h \in Team(z, t) : w.recency[h] = z.recency[h]
        BY <1>7, <1>8, <3>3 DEF Team
      <3>5. Stamped(w, Team(w, t)) = Stamped(z, Team(z, t))
        BY <3>2, <3>4 DEF Stamped
      <3> QED BY <1>1, <3>1, <3>5 DEF Staffed
    <2>3. w.segments[s].members = Stamped(w, Team(w, s))
      <3>1. Team(w, s) = (Team(z, s) \ {n}) \cup (IF q = 0 THEN {} ELSE {n})
        <4>1. CASE q = 0
          BY <1>1, <1>7, <1>8, <1>21, <4>1 DEF Team
        <4>2. CASE q # 0
          BY <1>2, <1>7, <1>8, <1>21, <4>2 DEF Team
        <4> QED BY <4>1, <4>2
      <3>2. Stamped(w, Team(z, s) \ {n}) = Stamped(z, Team(z, s)) \ {<<z.recency[n], n>>}
        <4>1. \A h \in Team(z, s) \ {n} : w.recency[h] = z.recency[h]
          BY <1>7, <1>8 DEF Team
        <4>2. Stamped(w, Team(z, s) \ {n}) = Stamped(z, Team(z, s) \ {n})
          BY <4>1 DEF Stamped
        <4>3. Stamped(z, Team(z, s) \ {n}) = Stamped(z, Team(z, s)) \ {<<z.recency[n], n>>}
          BY DEF Stamped
        <4> QED BY <4>2, <4>3
      <3>3. CASE q = 0
        <4>1. Team(w, s) = Team(z, s) \ {n} /\ M = z.segments[s].members \ {<<z.recency[n], n>>}
          BY <1>22, <3>1, <3>3
        <4> QED BY <1>3, <1>5, <1>6, <1>8, <3>2, <4>1
      <3>4. CASE q # 0
        <4>1. /\ Team(w, s) = (Team(z, s) \ {n}) \cup {n}
              /\ M = (z.segments[s].members \ {<<z.recency[n], n>>}) \cup {<<r, n>>}
          BY <1>22, <3>1, <3>4
        <4>2. Stamped(w, Team(w, s)) = Stamped(w, Team(z, s) \ {n}) \cup {<<r, n>>}
          <5>1. w.recency[n] = r
            BY <1>7, <1>8
          <5> QED BY <4>1, <5>1 DEF Stamped
        <4> QED BY <1>3, <1>5, <1>6, <1>8, <3>2, <4>1, <4>2
      <3> QED BY <3>3, <3>4
    <2> QED BY <2>1, <2>2, <2>3 DEF Staffed
  <1>12. Seated(w)
    <2>1. \A t \in DOMAIN z.segments : L[t].endpoint = z.segments[t].endpoint
      BY <1>5, <1>6
    <2> QED BY <1>1, <1>6, <1>8, <2>1 DEF Seated
  <1>13. Listing(w, O)
    <2>1. DOMAIN z.segments \ O = DOMAIN w.segments \ O
      BY <1>6, <1>8
    <2>2. \A t \in DOMAIN z.segments \ O : w.segments[t] = z.segments[t]
      BY <1>6, <1>8, <1>23
    <2>3. \A t \in DOMAIN z.segments \ O : Team(w, t) = Team(z, t)
      BY <1>1, <1>10, <1>23
    <2>4. \A g : Entries(w, O, g) = Entries(z, O, g)
      BY <2>1, <2>2 DEF Entries
    <2> QED BY <1>1, <1>8, <2>1, <2>3, <2>4 DEF Listing
  <1>14. InDram(w) = IF q = 0 THEN InDram(z) \ {n} ELSE InDram(z) \cup {n}
    BY <1>2, <1>7, <1>8, <1>21 DEF InDram
  <1>15. ASSUME NEW h \in InDram(z) \ {n} PROVE Seat(w, h) = Seat(z, h)
    <2>1. h \in Hash /\ z.handle[h] \in DOMAIN z.segments
      BY <1>21, SeatIs
    <2>2. w.handle[h] = z.handle[h]
      BY <1>7, <1>8, <2>1
    <2> QED BY <1>5, <1>6, <1>8, <2>1, <2>2 DEF Seat
  <1>16. q # 0 => Seat(w, n) = z.segments[s].endpoint
    BY <1>2, <1>5, <1>6, <1>7, <1>8, <1>21 DEF Seat
  <1>17. Sound(w, {s}) /\ s \in DOMAIN w.segments
    BY <1>6, <1>8, <1>9, <1>11, <1>12, <1>13, <1>21, <1>23 DEF Sound
  <1>18. Committed(z, s, n, q, r, m, B, w)
    BY <1>0, <1>8, <1>14, <1>15, <1>16 DEF Committed
  <1> QED BY <1>17, <1>18

\* The shape of a tree as the memory index asks for it.
LEMMA SameTree ==
  ASSUME NEW u
  PROVE  /\ \A n : MI!Tree(u)!Children(n) = RR!Tree(u)!Children(n)
         /\ \A n : MI!Tree(u)!ChildCount(n) = RR!Tree(u)!ChildCount(n)
         /\ \A n : MI!Tree(u)!Segment(n) = RR!Tree(u)!Segment(n)
         /\ \A n : MI!Tree(u)!SegmentLeaf(n) = RR!Tree(u)!SegmentLeaf(n)
         /\ \A n : MI!Tree(u)!Parent(n) = IF u[n] = {n} THEN NoNode
                                          ELSE CHOOSE p \in u[n] \ {n} : u[p] = u[n] \ {n}
         /\ MI!Tree(u)!NoNode = NoNode
  <1>1. \A S : MI!Tree(u)!Cardinality(S) = RR!Tree(u)!Cardinality(S)
    BY Zenon DEF MI!Tree!Cardinality, RR!Tree!Cardinality
  <1>2. \A n : MI!Tree(u)!Children(n) = RR!Tree(u)!Children(n)
    BY DEF MI!Tree!Children, RR!Tree!Children, MI!Tree!Below, RR!Tree!Below,
           MI!Tree!Subtree, RR!Tree!Subtree
  <1>3. \A n : MI!Tree(u)!ChildCount(n) = RR!Tree(u)!ChildCount(n)
    BY <1>1, <1>2 DEF MI!Tree!ChildCount, RR!Tree!ChildCount
  <1>4. \A n : MI!Tree(u)!Segment(n) = RR!Tree(u)!Segment(n)
    BY <1>3 DEF MI!Tree!Segment, RR!Tree!Segment
  <1>5. \A n : MI!Tree(u)!SegmentLeaf(n) = RR!Tree(u)!SegmentLeaf(n)
    BY <1>3 DEF MI!Tree!SegmentLeaf, RR!Tree!SegmentLeaf, MI!Tree!Subtree, RR!Tree!Subtree
  <1>6. MI!Tree(u)!NoNode = NoNode
    BY DEF MI!Tree!NoNode, NoNode
  <1>7. \A n : MI!Tree(u)!Parent(n) = IF u[n] = {n} THEN NoNode
                                      ELSE CHOOSE p \in u[n] \ {n} : u[p] = u[n] \ {n}
    BY <1>6 DEF MI!Tree!Parent
  <1> QED BY <1>2, <1>3, <1>4, <1>5, <1>6, <1>7

\* On a node of a tidy tree they are those the proofs speak of.
LEMMA MemoryShape ==
  ASSUME NEW u, Tidy(u), NEW n \in Live(u)
  PROVE  /\ MI!Tree(u)!ChildCount(n) = Cardinality(Sons(u, n))
         /\ MI!Tree(u)!Segment(n) = Line(u, n)
         /\ MI!Tree(u)!SegmentLeaf(n) = Feet(u, n)
  BY SameTree, StorageShape

\* And it is published again.
LEMMA CommitPublished ==
  ASSUME NEW z, NEW s, NEW n, NEW q, NEW r, NEW m, NEW M, NEW B, Commits(z, s, n, q, r, m, M, B),
         NEW y, y = MI!Publish(Commit(z, s, n, q, r, m, M, B), s)
  PROVE  Sound(y, {}) /\ Committed(z, s, n, q, r, m, B, y)
  <1>1. PICK w : w = Commit(z, s, n, q, r, m, M, B)
    OBVIOUS
  <1>2. y = MI!Publish(w, s)
    BY <1>1
  <1>3. Sound(w, {s}) /\ s \in DOMAIN w.segments /\ Committed(z, s, n, q, r, m, B, w)
    BY <1>1, CommitIs
  <1>4. /\ Sound(y, {s} \ {s}) /\ Alike(w, y) /\ \A h \in InDram(w) : Seat(y, h) = Seat(w, h)
    BY <1>2, <1>3, PublishIs
  <1>5. {s} \ {s} = {} /\ InDram(y) = InDram(w)
    BY <1>4 DEF Alike, InDram
  <1>6. /\ \A h \in InDram(z) \ {n} : h \in InDram(w)
        /\ q # 0 => n \in InDram(w)
    BY <1>3 DEF Committed
  <1>7. Committed(z, s, n, q, r, m, B, y)
    BY <1>3, <1>4, <1>5, <1>6 DEF Alike, Committed
  <1> QED BY <1>4, <1>5, <1>7

\* One block more or less in DRAM is counted at what is above it.
Tallies(u, D, n, h, c) ==
  /\ c \in Nat /\ c = Cardinality(Through(u, D, h))
  /\ Cardinality(Through(u, D \cup {n}, h)) = IF h \in u[n] THEN c + 1 ELSE c

\* Such a count exists for every node.
LEMMA TallyIs ==
  ASSUME NEW u, NEW D \in SUBSET Hash, NEW n \in Hash \ D, NEW h
  PROVE  \E c : Tallies(u, D, n, h, c)
  <1>1. PICK A, c : A = Through(u, D, h) /\ c = Cardinality(A)
    OBVIOUS
  <1>2. A \in SUBSET Hash /\ A \cap {n} = {} /\ {n} \in SUBSET Hash
    BY <1>1 DEF Through
  <1>3. c \in Nat
    BY <1>1, <1>2, BlocksFinite
  <1>4. CASE h \in u[n]
    <2>1. Through(u, D \cup {n}, h) = A \cup {n}
      BY <1>1, <1>4 DEF Through
    <2>2. Cardinality(A \cup {n}) = Cardinality(A) + Cardinality({n})
      BY <1>2, BlocksAdded
    <2>3. Cardinality({n}) = 1
      BY FS_Singleton
    <2> QED BY <1>1, <1>3, <1>4, <2>1, <2>2, <2>3 DEF Tallies
  <1>5. CASE h \notin u[n]
    <2>1. Through(u, D \cup {n}, h) = A
      BY <1>1, <1>5 DEF Through
    <2>2. Cardinality(Through(u, D \cup {n}, h)) = c
      BY <1>1, <2>1
    <2> QED BY <1>1, <1>3, <1>5, <2>2 DEF Tallies
  <1> QED BY <1>4, <1>5

\* on_commit(Accessed) makes a block of DRAM the newest.
LEMMA AccessedKeeps ==
  ASSUME NEW u, NEW x, Matched(x, u), NEW n \in InDram(x), NEW y, y = MI!Accessed(x, n)
  PROVE  /\ Matched(y, u) /\ InDram(y) = InDram(x)
         /\ y.recency = [x.recency EXCEPT ![n] = x.next + 1]
  <1>1. Sound(x, {}) /\ Fitting(x, u) /\ Tallied(x, u)
    BY DEF Matched
  <1>2. PICK s : s = x.handle[n]
    OBVIOUS
  <1>3. n \in Hash /\ s # 0 /\ s \in DOMAIN x.segments
    BY <1>1, <1>2, SeatIs
  <1>4. PICK z : z = MI!Unpublish(x, s)
    OBVIOUS
  <1>5. /\ Sound(z, {s}) /\ Alike(x, z)
        /\ z.handle = x.handle /\ z.segments = x.segments /\ z.ends = x.ends
    <2>1. Sound(z, {} \cup {s}) /\ Alike(x, z) /\ z.handle = x.handle /\ z.segments = x.segments /\ z.ends = x.ends
      BY <1>1, <1>3, <1>4, UnpublishIs
    <2>2. {} \cup {s} = {s}
      OBVIOUS
    <2> QED BY <2>1, <2>2
  <1>6. MemoryType(z) /\ z.handle \in [Hash -> Nat] /\ z.below \in [Hash -> Int]
    BY <1>5, PartTypes DEF Sound
  <1>7. PICK r, M : /\ r = z.next + 1
                    /\ M = (z.segments[s].members \ {<<z.recency[n], n>>}) \cup {<<r, n>>}
    OBVIOUS
  <1>8. Commits(z, s, n, s, r, r, M, z.below)
    BY <1>2, <1>3, <1>5, <1>6, <1>7 DEF Commits
  <1>9. y = MI!Publish(Commit(z, s, n, s, r, r, M, z.below), s)
    <2>1. PICK R, L, H : /\ R = [z.recency EXCEPT ![n] = r] /\ L = [z.segments EXCEPT ![s].members = M]
                         /\ H = [z.handle EXCEPT ![n] = s]
      OBVIOUS
    <2>2. H = z.handle
      BY <1>2, <1>3, <1>5, <1>6, <2>1
    <2>3. Commit(z, s, n, s, r, r, M, z.below)
             = [z EXCEPT !.next = r, !.recency = R, !.handle = H, !.segments = L, !.below = z.below]
      BY <2>1 DEF Commit
    <2>4. @ = [z EXCEPT !.next = r, !.recency = R, !.segments = L]
      BY <1>6, <2>2 DEF MemoryType
    <2>5. y = MI!Publish([z EXCEPT !.next = r, !.recency = R, !.segments = L], s)
      BY <1>2, <1>4, <1>7, <2>1 DEF MI!Accessed
    <2> QED BY <2>3, <2>4, <2>5
  <1>10. Sound(y, {}) /\ Committed(z, s, n, s, r, r, z.below, y)
    BY <1>8, <1>9, CommitPublished
  <1>11. InDram(z) = InDram(x) /\ \A h : Seat(z, h) = Seat(x, h)
    BY <1>5 DEF Alike, InDram, Seat
  <1>12. InDram(y) = InDram(x)
    BY <1>3, <1>10, <1>11 DEF Committed
  <1>13. Fitting(y, u)
    <2>1. ASSUME NEW h \in InDram(x) PROVE Seat(y, h) = Seat(x, h)
      <3>1. CASE h = n
        BY <1>2, <1>3, <1>5, <1>10, <3>1 DEF Committed, Seat
      <3>2. CASE h # n
        BY <1>10, <1>11, <3>2 DEF Committed
      <3> QED BY <3>1, <3>2
    <2> QED BY <1>1, <1>12, <2>1 DEF Fitting
  <1>14. Tallied(y, u) /\ y.recency = [x.recency EXCEPT ![n] = x.next + 1]
    <2>1. y.below = z.below /\ y.recency = [z.recency EXCEPT ![n] = r]
      BY <1>10 DEF Committed
    <2>2. z.below = x.below /\ z.recency = x.recency /\ z.next = x.next
      BY <1>5 DEF Alike
    <2>3. Tallied(y, u)
      BY <1>1, <1>12, <2>1, <2>2 DEF Tallied
    <2> QED BY <1>7, <2>1, <2>2, <2>3
  <1> QED BY <1>10, <1>12, <1>13, <1>14 DEF Matched

\* on_commit(Removed) takes a block out of DRAM.
LEMMA RemovedKeeps ==
  ASSUME NEW u, NEW x, Matched(x, u), NEW n \in InDram(x), NEW y, y = MI!Removed(x, u, n)
  PROVE  /\ Matched(y, u) /\ InDram(y) = InDram(x) \ {n}
         /\ y.recency = [x.recency EXCEPT ![n] = 0]
  <1>1. Sound(x, {}) /\ Fitting(x, u) /\ Tallied(x, u)
    BY DEF Matched
  <1>2. PICK s : s = x.handle[n]
    OBVIOUS
  <1>3. n \in Hash /\ s # 0 /\ s \in DOMAIN x.segments
    BY <1>1, <1>2, SeatIs
  <1>4. PICK z : z = MI!Unpublish(x, s)
    OBVIOUS
  <1>5. /\ Sound(z, {s}) /\ Alike(x, z)
        /\ z.handle = x.handle /\ z.segments = x.segments /\ z.ends = x.ends
    <2>1. Sound(z, {} \cup {s}) /\ Alike(x, z) /\ z.handle = x.handle /\ z.segments = x.segments /\ z.ends = x.ends
      BY <1>1, <1>3, <1>4, UnpublishIs
    <2>2. {} \cup {s} = {s}
      OBVIOUS
    <2> QED BY <2>1, <2>2
  <1>6. MemoryType(z) /\ z.next \in Nat /\ z.below \in [Hash -> Int]
    BY <1>5, PartTypes DEF Sound
  <1>7. PICK M, B : /\ M = z.segments[s].members \ {<<z.recency[n], n>>}
                    /\ B = [h \in Hash |-> IF h \in u[n] THEN z.below[h] + (-1) ELSE z.below[h]]
    OBVIOUS
  <1>8. Commits(z, s, n, 0, 0, z.next, M, B)
    <2>1. B \in [Hash -> Int]
      BY <1>6, <1>7
    <2>2. M = (z.segments[s].members \ {<<z.recency[n], n>>}) \cup {}
      BY <1>7
    <2> QED BY <1>2, <1>3, <1>5, <2>1, <2>2 DEF Commits
  <1>9. y = MI!Publish(Commit(z, s, n, 0, 0, z.next, M, B), s)
    <2>1. PICK R, L, H : /\ R = [z.recency EXCEPT ![n] = 0] /\ L = [z.segments EXCEPT ![s].members = M]
                         /\ H = [z.handle EXCEPT ![n] = 0]
      OBVIOUS
    <2>2. PICK v : v = [z EXCEPT !.recency = R, !.handle = H, !.segments = L]
      OBVIOUS
    <2>3. v.below = z.below
      BY <1>6, <2>2 DEF MemoryType
    <2>4. y = MI!Publish([v EXCEPT !.below = B], s)
      <3>1. y = MI!Publish(MI!ChangeAncestors(v, u, n, -1), s)
        BY <1>2, <1>4, <1>7, <2>1, <2>2 DEF MI!Removed, MI!NotResident, MI!NoHandle
      <3> QED BY <1>7, <2>3, <3>1 DEF MI!ChangeAncestors
    <2>5. [v EXCEPT !.below = B]
             = [z EXCEPT !.next = z.next, !.recency = R, !.handle = H, !.segments = L, !.below = B]
      BY <1>6, <2>2 DEF MemoryType
    <2>6. @ = Commit(z, s, n, 0, 0, z.next, M, B)
      BY <2>1 DEF Commit
    <2> QED BY <2>4, <2>5, <2>6
  <1>10. Sound(y, {}) /\ Committed(z, s, n, 0, 0, z.next, B, y)
    BY <1>8, <1>9, CommitPublished
  <1>11. InDram(z) = InDram(x) /\ \A h : Seat(z, h) = Seat(x, h)
    BY <1>5 DEF Alike, InDram, Seat
  <1>12. InDram(y) = InDram(x) \ {n}
    BY <1>10, <1>11 DEF Committed
  <1>13. Fitting(y, u)
    <2>1. ASSUME NEW h \in InDram(x) \ {n} PROVE Seat(y, h) = Seat(x, h)
      BY <1>10, <1>11 DEF Committed
    <2> QED BY <1>1, <1>12, <2>1 DEF Fitting
  <1>14. Tallied(y, u)
    <2> SUFFICES ASSUME NEW h \in Hash PROVE y.below[h] = Cardinality(Through(u, InDram(y), h))
      BY DEF Tallied
    <2>1. PICK D : D = InDram(y)
      OBVIOUS
    <2>2. D \in SUBSET Hash /\ n \in Hash \ D /\ InDram(x) = D \cup {n}
      BY <1>12, <2>1 DEF InDram
    <2>3. PICK c : Tallies(u, D, n, h, c)
      BY <2>2, TallyIs
    <2>6. c \in Nat /\ x.below[h] = (IF h \in u[n] THEN c + 1 ELSE c) /\ c = Cardinality(Through(u, D, h))
      BY <1>1, <2>2, <2>3 DEF Tallied, Tallies
    <2>7. y.below[h] = IF h \in u[n] THEN x.below[h] + (-1) ELSE x.below[h]
      BY <1>5, <1>7, <1>10 DEF Committed, Alike
    <2> QED BY <2>1, <2>3, <2>6, <2>7
  <1>15. y.recency = [x.recency EXCEPT ![n] = 0]
    BY <1>5, <1>10 DEF Committed, Alike
  <1> QED BY <1>10, <1>12, <1>13, <1>14, <1>15 DEF Matched

\* on_commit(Inserted) brings a node into DRAM, the newest there.
LEMMA InsertedKeeps ==
  ASSUME NEW u, Tidy(u), NEW x, Matched(x, u), NEW n \in Live(u), n \notin InDram(x),
         NEW y, y = MI!Inserted(x, u, n)
  PROVE  /\ Matched(y, u) /\ InDram(y) = InDram(x) \cup {n}
         /\ y.recency = [x.recency EXCEPT ![n] = x.next + 1]
  <1>1. Sound(x, {}) /\ Fitting(x, u) /\ Tallied(x, u) /\ n \in Hash
    BY DEF Matched, Live
  <1>2. PICK f \in Ends(u) : Feet(u, n) = {f}
    BY OneFoot
  <1>3. f \in Hash /\ (CHOOSE l \in MI!Tree(u)!SegmentLeaf(n) : TRUE) = f
    <2>1. MI!Tree(u)!SegmentLeaf(n) = {f}
      BY <1>2, MemoryShape
    <2>2. f \in Hash
      BY DEF Ends, Live
    <2> QED BY <2>1, <2>2
  <1>4. PICK v, s : v = MI!EnsureSegment(x, f) /\ s = v.ends[f]
    OBVIOUS
  <1>5. /\ Sound(v, IF x.ends[f] = 0 THEN {s} ELSE {})
        /\ Alike(x, v) /\ v.handle = x.handle
        /\ s \in DOMAIN v.segments /\ v.segments[s].endpoint = f
        /\ x.ends[f] = 0 => Team(v, s) = {}
        /\ \A t \in DOMAIN x.segments : t \in DOMAIN v.segments /\ v.segments[t] = x.segments[t]
    <2>1. Ensured(x, {}, f, v, s)
      BY <1>1, <1>3, <1>4, EnsureIs
    <2>2. {} \cup {s} = {s}
      OBVIOUS
    <2> QED BY <2>1, <2>2 DEF Ensured
  <1>6. PICK z : z = MI!Unpublish(v, s)
    OBVIOUS
  <1>7. /\ Sound(z, {s}) /\ Alike(v, z)
        /\ z.handle = v.handle /\ z.segments = v.segments /\ z.ends = v.ends
    <2>1. CASE x.ends[f] = 0
      <3>1. {s} \cup {s} = {s}
        OBVIOUS
      <3>2. Sound(v, {s})
        BY <1>5, <2>1
      <3>3. s \in {s} => Team(v, s) = {}
        BY <1>5, <2>1
      <3>4. /\ Sound(z, {s} \cup {s}) /\ Alike(v, z)
            /\ z.handle = v.handle /\ z.segments = v.segments /\ z.ends = v.ends
        BY <1>5, <1>6, <3>2, <3>3, UnpublishIs
      <3> QED BY <3>1, <3>4
    <2>2. CASE x.ends[f] # 0
      <3>1. {} \cup {s} = {s}
        OBVIOUS
      <3>2. Sound(v, {})
        BY <1>5, <2>2
      <3>3. /\ Sound(z, {} \cup {s}) /\ Alike(v, z)
            /\ z.handle = v.handle /\ z.segments = v.segments /\ z.ends = v.ends
        BY <1>5, <1>6, <3>2, UnpublishIs
      <3> QED BY <3>1, <3>3
    <2> QED BY <2>1, <2>2
  <1>8. /\ MemoryType(z) /\ z.next \in Nat /\ z.below \in [Hash -> Int]
        /\ DOMAIN z.segments \subseteq Nat \ {0} /\ s \in DOMAIN z.segments /\ Staffed(z)
    <2>1. MemoryType(z) /\ Staffed(z)
      BY <1>7 DEF Sound
    <2> QED BY <1>5, <1>7, <2>1, PartTypes
  <1>9. z.handle[n] = 0 /\ z.recency[n] = 0
    <2>1. x.recency[n] = 0 /\ Clocked(x)
      BY <1>1 DEF InDram, Sound
    <2> QED BY <1>1, <1>5, <1>7, <2>1 DEF Clocked, Alike
  <1>10. PICK r, M, B : /\ r = z.next + 1 /\ M = z.segments[s].members \cup {<<r, n>>}
                        /\ B = [h \in Hash |-> IF h \in u[n] THEN z.below[h] + 1 ELSE z.below[h]]
    OBVIOUS
  <1>11. Commits(z, s, n, s, r, r, M, B)
    <2>1. B \in [Hash -> Int]
      BY <1>8, <1>10
    <2>2. s # 0
      BY <1>8
    <2>3. M = (z.segments[s].members \ {<<z.recency[n], n>>}) \cup {<<r, n>>}
      <3>1. z.segments[s].members = Stamped(z, Team(z, s)) /\ n \notin Team(z, s)
        BY <1>8, <1>9, <2>2 DEF Staffed, Team
      <3>2. <<z.recency[n], n>> \notin z.segments[s].members
        BY <3>1 DEF Stamped
      <3> QED BY <1>10, <3>2
    <2> QED BY <1>1, <1>7, <1>8, <1>9, <1>10, <2>1, <2>2, <2>3 DEF Commits
  <1>12. y = MI!Publish(Commit(z, s, n, s, r, r, M, B), s)
    <2>1. PICK R, L, H : /\ R = [z.recency EXCEPT ![n] = r] /\ L = [z.segments EXCEPT ![s].members = M]
                         /\ H = [z.handle EXCEPT ![n] = s]
      OBVIOUS
    <2>2. PICK w : w = [z EXCEPT !.next = r, !.recency = R, !.handle = H, !.segments = L]
      OBVIOUS
    <2>3. w.below = z.below
      BY <1>8, <2>2 DEF MemoryType
    <2>4. y = MI!Publish([w EXCEPT !.below = B], s)
      <3> DEFINE g == CHOOSE l \in MI!Tree(u)!SegmentLeaf(n) : TRUE
                 b == MI!EnsureSegment(x, g)
                 c == MI!Unpublish(b, b.ends[g])
      <3>1. y = MI!Publish(MI!ChangeAncestors([c EXCEPT
                    !.next = @ + 1, !.recency[n] = c.next + 1, !.handle[n] = b.ends[g],
                    !.segments[b.ends[g]].members = @ \cup {<<c.next + 1, n>>}], u, n, 1), b.ends[g])
        BY DEF MI!Inserted
      <3>2. b = v /\ b.ends[g] = s
        BY <1>3, <1>4
      <3>3. c = z
        BY <1>6, <3>2
      <3> HIDE DEF g, b, c
      <3>4. w = [z EXCEPT !.next = @ + 1, !.recency[n] = z.next + 1, !.handle[n] = s,
                          !.segments[s].members = @ \cup {<<z.next + 1, n>>}]
        BY <1>10, <2>1, <2>2
      <3>5. y = MI!Publish(MI!ChangeAncestors(w, u, n, 1), s)
        BY <3>1, <3>2, <3>3, <3>4
      <3> QED BY <1>10, <2>3, <3>5 DEF MI!ChangeAncestors
    <2>5. [w EXCEPT !.below = B]
             = [z EXCEPT !.next = r, !.recency = R, !.handle = H, !.segments = L, !.below = B]
      BY <1>8, <2>2 DEF MemoryType
    <2>6. @ = Commit(z, s, n, s, r, r, M, B)
      BY <2>1 DEF Commit
    <2> QED BY <2>4, <2>5, <2>6
  <1>13. Sound(y, {}) /\ Committed(z, s, n, s, r, r, B, y)
    BY <1>11, <1>12, CommitPublished
  <1>14. InDram(z) = InDram(x) /\ s # 0
    BY <1>5, <1>7, <1>8 DEF Alike, InDram
  <1>15. InDram(y) = InDram(x) \cup {n}
    BY <1>13, <1>14 DEF Committed
  <1>16. Fitting(y, u)
    <2>1. Seat(y, n) = f
      BY <1>5, <1>7, <1>13, <1>14 DEF Committed
    <2>2. ASSUME NEW h \in InDram(x) PROVE Seat(y, h) = Seat(x, h)
      <3>1. x.handle[h] \in DOMAIN x.segments
        BY <1>1, SeatIs
      <3>2. Seat(z, h) = Seat(x, h)
        BY <1>5, <1>7, <3>1 DEF Seat
      <3>3. h \in InDram(z) \ {n}
        BY <1>14
      <3> QED BY <1>13, <3>2, <3>3 DEF Committed
    <2> QED BY <1>1, <1>2, <1>15, <2>1, <2>2 DEF Fitting
  <1>17. Tallied(y, u)
    <2> SUFFICES ASSUME NEW h \in Hash PROVE y.below[h] = Cardinality(Through(u, InDram(y), h))
      BY DEF Tallied
    <2>1. PICK D : D = InDram(x)
      OBVIOUS
    <2>2. D \in SUBSET Hash /\ n \in Hash \ D /\ InDram(y) = D \cup {n}
      BY <1>1, <1>15, <2>1 DEF InDram
    <2>3. PICK c : Tallies(u, D, n, h, c)
      BY <2>2, TallyIs
    <2>4. c \in Nat /\ x.below[h] = c
      BY <1>1, <2>1, <2>3 DEF Tallied, Tallies
    <2>5. y.below[h] = IF h \in u[n] THEN x.below[h] + 1 ELSE x.below[h]
      BY <1>5, <1>7, <1>10, <1>13 DEF Committed, Alike
    <2> QED BY <2>2, <2>3, <2>4, <2>5 DEF Tallies
  <1>18. y.recency = [x.recency EXCEPT ![n] = x.next + 1]
    BY <1>5, <1>7, <1>10, <1>13 DEF Committed, Alike
  <1> QED BY <1>13, <1>15, <1>16, <1>17, <1>18 DEF Matched

\* The segments of the nodes of a tree that gets one more leaf.
LEMMA SproutFeet ==
  ASSUME NEW u, Tidy(u), NEW n \in Hash \ Live(u), NEW p \in Live(u) \cup {NoNode},
         NEW v, v = Sprout(u, n, p), NEW h \in Live(u)
  PROVE  /\ p = NoNode \/ ~Lonely(u, p) => Feet(v, h) = Feet(u, h)
         /\ p # NoNode /\ Sons(u, p) = {} =>
              Feet(v, h) = IF Feet(u, h) = {p} THEN {n} ELSE Feet(u, h)
         /\ p # NoNode /\ Sons(u, p) # {} /\ Lonely(u, p) =>
              \A f \in Ends(u) : p \in Line(u, f) =>
                Feet(v, h) = IF Feet(u, h) = {f} /\ h \in u[p] THEN {p} ELSE Feet(u, h)
  <1>1. PICK l \in Ends(u) : Feet(u, h) = {l}
    BY OneFoot
  <1>2. /\ h \in Line(u, l) /\ \A e \in Ends(u) : h \in Line(u, e) => e = l
        /\ h # n /\ n \notin Ends(u)
    BY <1>1 DEF Feet, Ends
  <1>3. ASSUME p = NoNode \/ ~Lonely(u, p) PROVE Feet(v, h) = Feet(u, h)
    <2>1. /\ Ends(v) = Ends(u) \cup {n} /\ Line(v, n) = {n}
          /\ \A e \in Ends(u) : Line(v, e) = Line(u, e)
      BY <1>3, SproutAlone
    <2> QED BY <1>2, <2>1 DEF Feet
  <1>4. ASSUME p # NoNode, Sons(u, p) = {}
        PROVE  Feet(v, h) = IF Feet(u, h) = {p} THEN {n} ELSE Feet(u, h)
    <2>1. /\ p \in Ends(u) /\ Ends(v) = (Ends(u) \ {p}) \cup {n}
          /\ Line(v, n) = Line(u, p) \cup {n}
          /\ \A e \in Ends(u) \ {p} : Line(v, e) = Line(u, e)
      BY <1>4, SproutLonger
    <2>2. CASE l = p
      <3>1. Feet(v, h) = {n}
        BY <1>2, <2>1, <2>2 DEF Feet
      <3> QED BY <1>1, <2>2, <3>1
    <2>3. CASE l # p
      <3>1. Feet(v, h) = {l}
        BY <1>2, <2>1, <2>3 DEF Feet
      <3> QED BY <1>1, <2>3, <3>1
    <2> QED BY <2>2, <2>3
  <1>5. ASSUME p # NoNode, Sons(u, p) # {}, Lonely(u, p), NEW f \in Ends(u), p \in Line(u, f)
        PROVE  Feet(v, h) = IF Feet(u, h) = {f} /\ h \in u[p] THEN {p} ELSE Feet(u, h)
    <2>1. /\ p \notin Ends(u) /\ Ends(v) = Ends(u) \cup {p, n} /\ f # p
          /\ Line(v, n) = {n}
          /\ Line(v, p) = Line(u, f) \cap u[p]
          /\ Line(v, f) = Line(u, f) \ u[p]
          /\ \A e \in Ends(u) \ {f} : Line(v, e) = Line(u, e)
      BY <1>5, SproutCut
    <2>2. CASE l = f /\ h \in u[p]
      <3>1. Feet(v, h) = {p}
        BY <1>2, <2>1, <2>2 DEF Feet
      <3> QED BY <1>1, <2>2, <3>1
    <2>3. CASE l = f /\ h \notin u[p]
      <3>1. Feet(v, h) = {l}
        BY <1>2, <2>1, <2>3 DEF Feet
      <3> QED BY <1>1, <2>3, <3>1
    <2>4. CASE l # f
      <3>1. Feet(v, h) = {l}
        BY <1>2, <2>1, <2>4 DEF Feet
      <3> QED BY <1>1, <2>4, <3>1
    <2> QED BY <2>2, <2>3, <2>4
  <1> QED BY <1>3, <1>4, <1>5

\* An endpoint of the index ends a segment of the tree.
LEMMA EndsUsed ==
  ASSUME NEW u, NEW x, Sound(x, {}), Fitting(x, u), NEW e \in Hash, x.ends[e] # 0
  PROVE  /\ e \in Ends(u) /\ x.ends[e] \in DOMAIN x.segments /\ x.segments[x.ends[e]].endpoint = e
         /\ \E h \in InDram(x) : x.handle[h] = x.ends[e] /\ Seat(x, h) = e
  <1>1. x.ends[e] \in DOMAIN x.segments /\ x.segments[x.ends[e]].endpoint = e
    BY DEF Sound, Seated
  <1>2. PICK h \in Hash : x.handle[h] = x.ends[e]
    BY <1>1 DEF Sound, Listing, Team
  <1>3. h \in InDram(x) /\ Seat(x, h) = e
    BY <1>1, <1>2 DEF InDram, Sound, Clocked, Seat
  <1>4. e \in Feet(u, h)
    BY <1>3 DEF Fitting
  <1> QED BY <1>1, <1>2, <1>3, <1>4 DEF Feet

\* A leaf that has no block in DRAM does not change what is counted.
LEMMA SproutTally ==
  ASSUME NEW u, NEW n, NEW v, \A h \in Hash \ {n} : v[h] = u[h],
         NEW x, NEW y, n \notin InDram(x), InDram(y) = InDram(x), y.below = x.below
  PROVE  Tallied(x, u) <=> Tallied(y, v)
  <1>1. \A h : Through(v, InDram(y), h) = Through(u, InDram(x), h)
    BY DEF Through, InDram
  <1> QED BY <1>1 DEF Tallied

\* Some block of a chain has the others below it.
LEMMA TopOfLine ==
  ASSUME NEW u, Tidy(u), NEW p \in Live(u), NEW K \in SUBSET u[p], K # {}
  PROVE  \E t \in K : \A k \in K : u[t] \subseteq u[k]
  <1>1. K \subseteq Live(u) /\ p \in Hash
    BY OverNodes DEF Live
  <1>2. PICK t \in K : \A g \in K : g \in u[t] => g = t
    BY <1>1, Extremes
  <1>3. ASSUME NEW k \in K PROVE u[t] \subseteq u[k]
    <2>1. k \in u[t] \/ t \in u[k]
      BY DEF Tidy
    <2>2. t \in u[k] \/ k = t
      BY <1>2, <2>1
    <2>3. k \in Hash
      BY <1>1 DEF Live
    <2> QED BY <2>2, <2>3, OverNodes
  <1> QED BY <1>3

\* What a callback about the tree leaves alone.
Steady(x, y) == InDram(y) = InDram(x) /\ y.recency = x.recency

\* on_node_created() follows a new leaf.
LEMMA CreatedKeepsMemory ==
  ASSUME NEW u, Tidy(u), NEW n \in Hash \ Live(u), NEW p \in Live(u) \cup {NoNode},
         NEW v, v = Sprout(u, n, p), NEW x, Matched(x, u), NEW y, y = MI!NodeCreated(x, v, n)
  PROVE  Matched(y, v) /\ Steady(x, y)
  <1>1. Sound(x, {}) /\ Fitting(x, u) /\ Tallied(x, u)
    BY DEF Matched
  <1>2. /\ Tidy(v) /\ Live(v) = Live(u) \cup {n} /\ \A h \in Hash \ {n} : v[h] = u[h]
        /\ p # n
    <2>1. /\ Tidy(v) /\ Live(v) = Live(u) \cup {n} /\ \A h \in Hash \ {n} : v[h] = u[h]
      BY SproutTree
    <2> QED BY <2>1, SimulatorAssumption DEF NoNode
  <1>3. /\ InDram(x) \subseteq Live(u) /\ n \notin InDram(x) /\ InDram(x) \subseteq Hash
        /\ \A h \in InDram(x) : Feet(u, h) = {Seat(x, h)}
    BY <1>1 DEF Fitting, InDram
  <1>4. MI!Tree(v)!Parent(n) = p /\ (p # NoNode => MI!Tree(v)!ChildCount(p) = Cardinality(Sons(v, p)))
    <2>1. MI!Tree(v)!Parent(n) = p
      <3>1. p = IF v[n] = {n} THEN NoNode ELSE CHOOSE q \in v[n] \ {n} : v[q] = v[n] \ {n}
        BY SproutQueries
      <3>2. MI!Tree(v)!Parent(n) = IF v[n] = {n} THEN NoNode
                                   ELSE CHOOSE q \in v[n] \ {n} : v[q] = v[n] \ {n}
        BY SameTree
      <3> QED BY <3>1, <3>2
    <2>2. p # NoNode => p \in Live(v)
      BY <1>2
    <2> QED BY <1>2, <2>1, <2>2, MemoryShape
  <1>5. /\ p = NoNode \/ ~Lonely(u, p) => y = x
        /\ p # NoNode /\ Sons(u, p) = {} =>
             y = IF x.ends[p] = 0 THEN x ELSE MI!MoveEndpoint(x, x.ends[p], n)
    <2>1. CASE p = NoNode
      <3>1. y = x
        BY <1>4, <2>1, SameTree DEF MI!NodeCreated
      <3> QED BY <2>1, <3>1
    <2>2. CASE p # NoNode
      <3>1. PICK c : c = Cardinality(Sons(v, p))
        OBVIOUS
      <3>2. (c = 1 <=> Sons(u, p) = {}) /\ (c = 2 <=> Sons(u, p) # {} /\ Lonely(u, p))
        BY <2>2, <3>1, SproutQueries
      <3>3. MI!Tree(v)!ChildCount(p) = c /\ p # MI!Tree(v)!NoNode
        BY <1>4, <2>2, <3>1, SameTree
      <3>4. CASE ~Lonely(u, p)
        <4>1. c # 1 /\ c # 2
          BY <3>2, <3>4 DEF Lonely
        <4>2. y = x
          BY <1>4, <3>3, <4>1 DEF MI!NodeCreated
        <4>3. Sons(u, p) # {}
          BY <3>4 DEF Lonely
        <4> QED BY <4>2, <4>3
      <3>5. CASE Sons(u, p) = {}
        <4>1. y = IF x.ends[p] = 0 THEN x ELSE MI!MoveEndpoint(x, x.ends[p], n)
          BY <1>4, <3>2, <3>3, <3>5 DEF MI!NodeCreated, MI!NoHandle
        <4>2. Lonely(u, p)
          BY <3>5 DEF Lonely
        <4> QED BY <2>2, <4>1, <4>2
      <3>6. CASE Sons(u, p) # {} /\ Lonely(u, p)
        BY <2>2, <3>6
      <3> QED BY <3>4, <3>5, <3>6
    <2> QED BY <2>1, <2>2
  <1>6. ASSUME Sound(y, {}), Alike(x, y), \A h \in InDram(x) : Feet(v, h) = {Seat(y, h)}
        PROVE  Matched(y, v) /\ Steady(x, y)
    <2>1. InDram(y) = InDram(x) /\ y.recency = x.recency /\ y.below = x.below
      BY <1>6 DEF InDram, Alike
    <2>2. Tallied(y, v)
      BY <1>1, <1>2, <1>3, <2>1, SproutTally
    <2>3. Fitting(y, v)
      BY <1>2, <1>3, <1>6, <2>1 DEF Fitting
    <2> QED BY <1>6, <2>1, <2>2, <2>3 DEF Matched, Steady
  <1>7. CASE p = NoNode \/ ~Lonely(u, p)
    <2>1. y = x
      BY <1>5, <1>7
    <2>2. \A h \in InDram(x) : Feet(v, h) = Feet(u, h)
      BY <1>3, <1>7, SproutFeet
    <2> QED BY <1>1, <1>3, <1>6, <2>1, <2>2 DEF Alike
  <1>8. CASE p # NoNode /\ Sons(u, p) = {}
    <2>1. \A h \in InDram(x) : Feet(v, h) = IF Feet(u, h) = {p} THEN {n} ELSE Feet(u, h)
      BY <1>3, <1>8, SproutFeet
    <2>2. CASE x.ends[p] = 0
      <3>1. y = x
        BY <1>5, <1>8, <2>2
      <3>2. ASSUME NEW h \in InDram(x) PROVE Feet(v, h) = {Seat(y, h)}
        <4>1. Seat(x, h) # p
          BY <1>1, <2>2, SeatIs
        <4>2. Feet(u, h) # {p}
          BY <1>3, <4>1
        <4> QED BY <1>3, <2>1, <3>1, <4>2
      <3> QED BY <1>1, <1>6, <3>1, <3>2 DEF Alike
    <2>3. CASE x.ends[p] # 0
      <3>1. y = MI!MoveEndpoint(x, x.ends[p], n)
        BY <1>5, <1>8, <2>3
      <3>2. p \in Hash /\ x.ends[p] \in DOMAIN x.segments /\ x.segments[x.ends[p]].endpoint = p
        <4>1. p \in Hash
          BY <1>8 DEF Live
        <4> QED BY <1>1, <2>3, <4>1, EndsUsed
      <3>3. x.ends[n] = 0
        <4>1. n \notin Ends(u)
          BY DEF Ends
        <4> QED BY <1>1, <4>1, EndsUsed
      <3>4. /\ Sound(y, {}) /\ Alike(x, y)
            /\ \A h \in InDram(x) : Seat(y, h) = IF Seat(x, h) = p THEN n ELSE Seat(x, h)
        BY <1>1, <3>1, <3>2, <3>3, MoveIs
      <3>5. ASSUME NEW h \in InDram(x) PROVE Feet(v, h) = {Seat(y, h)}
        BY <1>3, <2>1, <3>4
      <3> QED BY <1>6, <3>4, <3>5
    <2> QED BY <2>2, <2>3
  <1>9. CASE p # NoNode /\ Sons(u, p) # {} /\ Lonely(u, p)
    <2>1. p \in Live(u) /\ p \in Hash /\ p \in Live(v)
      BY <1>2, <1>9 DEF Live
    <2>2. PICK f \in Ends(u) : p \in Line(u, f) /\ f # p
      BY <1>9, <2>1, SproutJunction
    <2>3. /\ p \notin Ends(u) /\ Line(v, p) = Line(u, f) \cap u[p]
      BY <1>9, <2>1, <2>2, SproutCut
    <2>4. \A h \in InDram(x) : Feet(v, h) = IF Feet(u, h) = {f} /\ h \in u[p] THEN {p} ELSE Feet(u, h)
      BY <1>3, <1>9, <2>2, SproutFeet
    <2>5. PICK K : K = {h \in Line(v, p) : x.recency[h] # 0}
      OBVIOUS
    <2>6. \A h : h \in K <=> h \in InDram(x) /\ h \in Line(u, f) /\ h \in u[p]
      <3>1. Line(u, f) \subseteq Hash
        BY EndInLine DEF Ends, Live
      <3> QED BY <2>3, <2>5, <3>1 DEF InDram
    <2>7. \A h \in InDram(x) : h \in K <=> Feet(u, h) = {f} /\ h \in u[p]
      <3> SUFFICES ASSUME NEW h \in InDram(x) PROVE Feet(u, h) = {f} <=> h \in Line(u, f)
        BY <2>6
      <3>1. PICK l \in Ends(u) : Feet(u, h) = {l}
        BY <1>3, OneFoot
      <3>2. h \in Line(u, f) <=> f \in Feet(u, h)
        BY DEF Feet
      <3> QED BY <3>1, <3>2
    <2>8. y = IF K = {} THEN x
              ELSE MI!Split(x, K, x.handle[CHOOSE h \in K : \A k \in K : v[h] \subseteq v[k]], p)
      <3>1. MI!Tree(v)!Segment(p) = Line(v, p)
        BY <1>2, <2>1, MemoryShape
      <3>2. MI!Tree(v)!ChildCount(p) = 2 /\ p # MI!Tree(v)!NoNode
        <4>1. PICK c : c = Cardinality(Sons(v, p))
          OBVIOUS
        <4>2. c = 2
          BY <1>9, <4>1, SproutQueries
        <4> QED BY <1>4, <1>9, <4>1, <4>2, SameTree
      <3>3. K = {h \in MI!Tree(v)!Segment(MI!Tree(v)!Parent(n)) : x.recency[h] # MI!NotResident}
        BY <1>4, <2>5, <3>1 DEF MI!NotResident
      <3> DEFINE q == MI!Tree(v)!Parent(n)
                 J == {h \in MI!Tree(v)!Segment(q) : x.recency[h] # MI!NotResident}
                 a == CHOOSE h \in J : \A k \in J : v[h] \subseteq v[k]
                 b == IF q = MI!Tree(v)!NoNode THEN 0 ELSE MI!Tree(v)!ChildCount(q)
      <3>4. y = IF b = 1 THEN (IF x.ends[q] = MI!NoHandle THEN x ELSE MI!MoveEndpoint(x, x.ends[q], n))
                ELSE IF b = 2 THEN (IF J = {} THEN x ELSE MI!Split(x, J, x.handle[a], q))
                ELSE x
        BY DEF MI!NodeCreated
      <3>5. q = p /\ J = K /\ b = 2
        BY <1>4, <3>2, <3>3
      <3>6. a = CHOOSE h \in K : \A k \in K : v[h] \subseteq v[k]
        BY <3>5
      <3> HIDE DEF q, J, a, b
      <3> QED BY <3>4, <3>5, <3>6
    <2>9. CASE K = {}
      <3>1. y = x
        BY <2>8, <2>9
      <3>2. \A h \in InDram(x) : Feet(v, h) = {Seat(y, h)}
        BY <1>3, <2>4, <2>7, <2>9, <3>1
      <3> QED BY <1>1, <1>6, <3>1, <3>2 DEF Alike
    <2>10. CASE K # {}
      <3>1. PICK t : t = CHOOSE h \in K : \A k \in K : v[h] \subseteq v[k]
        OBVIOUS
      <3>2. t \in K
        <4>1. K \in SUBSET u[p]
          BY <2>6
        <4>2. \E h \in K : \A k \in K : u[h] \subseteq u[k]
          BY <2>1, <2>10, <4>1, TopOfLine
        <4>3. \A h \in K : v[h] = u[h]
          BY <1>2, <1>3, <2>6
        <4>4. \E h \in K : \A k \in K : v[h] \subseteq v[k]
          BY <4>2, <4>3
        <4> QED BY <3>1, <4>4
      <3>3. PICK s : s = x.handle[t]
        OBVIOUS
      <3>4. \A k \in K : k \in InDram(x) /\ Seat(x, k) = f
        BY <1>3, <2>6, <2>7
      <3>5. \A k \in K : k \in Hash /\ x.handle[k] = x.ends[f] /\ x.handle[k] \in DOMAIN x.segments
        BY <1>1, <3>4, SeatIs
      <3>6. s \in DOMAIN x.segments /\ K \in SUBSET Team(x, s)
        BY <3>2, <3>3, <3>5 DEF Team
      <3>7. x.ends[p] = 0
        BY <1>1, <2>1, <2>3, EndsUsed
      <3>8. y = MI!Split(x, K, s, p)
        BY <2>8, <2>10, <3>1, <3>3
      <3>9. /\ Sound(y, {}) /\ Alike(x, y)
            /\ \A h \in InDram(x) : Seat(y, h) = IF h \in K THEN p ELSE Seat(x, h)
        BY <1>1, <2>1, <2>10, <3>6, <3>7, <3>8, SplitIs
      <3>10. \A h \in InDram(x) : Feet(v, h) = {Seat(y, h)}
        BY <1>3, <2>4, <2>7, <3>9
      <3> QED BY <1>6, <3>9, <3>10
    <2> QED BY <2>9, <2>10
  <1> QED BY <1>7, <1>8, <1>9

\* on_node_pruned() follows a leaf that goes, and it has no block in DRAM.
LEMMA PrunedKeepsMemory ==
  ASSUME NEW u, Tidy(u), NEW n \in Hash \ Live(u), NEW p \in Live(u) \cup {NoNode},
         NEW v, v = Sprout(u, n, p), NEW x, Matched(x, v), n \notin InDram(x),
         NEW y, y = MI!NodePruned(x, u, n, p)
  PROVE  Matched(y, u) /\ Steady(x, y)
  <1>1. Sound(x, {}) /\ Fitting(x, v) /\ Tallied(x, v)
    BY DEF Matched
  <1>2. /\ Tidy(v) /\ Live(v) = Live(u) \cup {n} /\ \A h \in Hash \ {n} : v[h] = u[h]
        /\ p # n
    <2>1. /\ Tidy(v) /\ Live(v) = Live(u) \cup {n} /\ \A h \in Hash \ {n} : v[h] = u[h]
      BY SproutTree
    <2> QED BY <2>1, SimulatorAssumption DEF NoNode
  <1>3. /\ InDram(x) \subseteq Live(u) /\ InDram(x) \subseteq Hash
        /\ \A h \in InDram(x) : Feet(v, h) = {Seat(x, h)}
    BY <1>1, <1>2 DEF Fitting, InDram
  <1>4. PICK c : c = Cardinality(Sons(u, p))
    OBVIOUS
  <1>5. p # NoNode => MI!Tree(u)!ChildCount(p) = c
    BY <1>4, MemoryShape
  <1>6. (c = 0 <=> Sons(u, p) = {}) /\ (c = 1 <=> Lonely(u, p) /\ Sons(u, p) # {})
    BY <1>4, SonsCounted
  <1>7. ASSUME Sound(y, {}), Alike(x, y), \A h \in InDram(x) : Feet(u, h) = {Seat(y, h)}
        PROVE  Matched(y, u) /\ Steady(x, y)
    <2>1. InDram(y) = InDram(x) /\ y.recency = x.recency /\ y.below = x.below
      BY <1>7 DEF InDram, Alike
    <2>2. Tallied(y, u)
      <3>1. \A h \in Hash \ {n} : u[h] = v[h]
        BY <1>2
      <3> QED BY <1>1, <2>1, <3>1, SproutTally
    <2>3. Fitting(y, u)
      BY <1>3, <1>7, <2>1 DEF Fitting
    <2> QED BY <1>7, <2>1, <2>2, <2>3 DEF Matched, Steady
  <1>8. CASE p = NoNode \/ ~Lonely(u, p)
    <2>1. y = x
      <3>1. CASE p = NoNode
        BY <3>1, SameTree DEF MI!NodePruned
      <3>2. CASE p # NoNode /\ ~Lonely(u, p)
        <4>1. c # 0 /\ c # 1
          BY <1>6, <3>2 DEF Lonely
        <4> QED BY <1>5, <3>2, <4>1, SameTree DEF MI!NodePruned
      <3> QED BY <1>8, <3>1, <3>2
    <2>2. \A h \in InDram(x) : Feet(v, h) = Feet(u, h)
      BY <1>3, <1>8, SproutFeet
    <2> QED BY <1>1, <1>3, <1>7, <2>1, <2>2 DEF Alike
  <1>9. CASE p # NoNode /\ Sons(u, p) = {}
    <2>1. \A h \in InDram(x) : Feet(v, h) = IF Feet(u, h) = {p} THEN {n} ELSE Feet(u, h)
      BY <1>3, <1>9, SproutFeet
    <2>2. y = IF x.ends[n] = 0 THEN x ELSE MI!MoveEndpoint(x, x.ends[n], p)
      BY <1>5, <1>6, <1>9, SameTree DEF MI!NodePruned, MI!NoHandle
    <2>3. n \notin Ends(u)
      BY DEF Ends
    <2>4. ASSUME NEW h \in InDram(x) PROVE Feet(u, h) = {IF Seat(x, h) = n THEN p ELSE Seat(x, h)}
      <3>1. Feet(u, h) # {n}
        BY <2>3 DEF Feet
      <3> QED BY <1>3, <2>1, <3>1
    <2>5. CASE x.ends[n] = 0
      <3>1. \A h \in InDram(x) : Seat(x, h) # n
        BY <1>1, <2>5, SeatIs
      <3>2. \A h \in InDram(x) : Feet(u, h) = {Seat(x, h)}
        BY <2>4, <3>1
      <3>3. y = x
        BY <2>2, <2>5
      <3> QED BY <1>1, <1>7, <3>2, <3>3 DEF Alike
    <2>6. CASE x.ends[n] # 0
      <3>1. y = MI!MoveEndpoint(x, x.ends[n], p)
        BY <2>2, <2>6
      <3>2. x.ends[n] \in DOMAIN x.segments /\ x.segments[x.ends[n]].endpoint = n
        BY <1>1, <2>6, EndsUsed
      <3>3. p \in Hash /\ x.ends[p] = 0
        <4>1. p \in Live(u) /\ p \in Hash
          BY <1>9 DEF Live
        <4>2. p \notin Ends(v)
          BY <1>9, <4>1, SproutLonely
        <4> QED BY <1>1, <4>1, <4>2, EndsUsed
      <3>4. /\ Sound(y, {}) /\ Alike(x, y)
            /\ \A h \in InDram(x) : Seat(y, h) = IF Seat(x, h) = n THEN p ELSE Seat(x, h)
        BY <1>1, <3>1, <3>2, <3>3, MoveIs
      <3>5. \A h \in InDram(x) : Feet(u, h) = {Seat(y, h)}
        BY <2>4, <3>4
      <3> QED BY <1>7, <3>4, <3>5
    <2> QED BY <2>5, <2>6
  <1>10. CASE p # NoNode /\ Sons(u, p) # {} /\ Lonely(u, p)
    <2>1. p \in Live(u) /\ p \in Hash
      BY <1>10 DEF Live
    <2>2. PICK f \in Ends(u) : p \in Line(u, f) /\ f # p /\ Feet(u, p) = {f} /\ f \in Hash
      <3>1. \E f \in Ends(u) : p \in Line(u, f) /\ f # p /\ Feet(u, p) = {f}
        BY <1>10, <2>1, SproutJunction
      <3> QED BY <3>1 DEF Ends, Live
    <2>3. p \notin Ends(u)
      BY <1>10, <2>1, <2>2, SproutCut
    <2>4. \A h \in InDram(x) : Feet(v, h) = IF Feet(u, h) = {f} /\ h \in u[p] THEN {p} ELSE Feet(u, h)
      BY <1>3, <1>10, <2>2, SproutFeet
    <2>5. (CHOOSE l \in MI!Tree(u)!SegmentLeaf(p) : TRUE) = f
      <3>1. MI!Tree(u)!SegmentLeaf(p) = {f}
        BY <2>1, <2>2, MemoryShape
      <3> QED BY <3>1
    <2>6. y = MI!Merge(x, p, f)
      <3>1. c # 0 /\ c = 1 /\ p # MI!Tree(u)!NoNode
        BY <1>6, <1>10, SameTree
      <3>2. y = MI!Merge(x, p, CHOOSE l \in MI!Tree(u)!SegmentLeaf(p) : TRUE)
        BY <1>5, <1>10, <3>1 DEF MI!NodePruned
      <3> QED BY <2>5, <3>2
    <2>7. /\ Sound(y, {}) /\ Alike(x, y)
          /\ \A h \in InDram(x) : Seat(y, h) = IF Seat(x, h) = p THEN f ELSE Seat(x, h)
      BY <1>1, <2>1, <2>2, <2>6, MergeIs
    <2>8. ASSUME NEW h \in InDram(x) PROVE Feet(u, h) = {Seat(y, h)}
      <3>1. Feet(u, h) # {p}
        BY <2>3 DEF Feet
      <3> QED BY <1>3, <2>4, <2>7, <3>1
    <2> QED BY <1>7, <2>7, <2>8
  <1> QED BY <1>8, <1>9, <1>10

\* The blocks of E at or above a block, for blocks of E in line.
Height(u, E, h) == Cardinality(u[h] \cap E)
InLine(u, E) == E \subseteq Live(u) /\ \A a, b \in E : a \in u[b] \/ b \in u[a]

\* The heights of the blocks of E are 1, 2, ... , each once: upside down they
\* are the ranks of a tip.
LEMMA HeightFound ==
  ASSUME NEW u, Tidy(u), NEW E, InLine(u, E), NEW i \in 1 .. Cardinality(E)
  PROVE  \E h \in E : Height(u, E, h) = i /\ \A g \in E : Height(u, E, g) = i => g = h
  <1>1. PICK w : w = [d \in Hash |-> {a \in E : d \in E /\ d \in u[a]}]
    OBVIOUS
  <1>2. /\ E \subseteq Hash /\ \A a \in E : a \in u[a]
        /\ \A a \in E : \A b \in E : a \in u[b] => u[a] \subseteq u[b]
        /\ \A a \in E : \A b \in E : a \in u[b] /\ b \in u[a] => a = b
    BY DEF InLine, Live, Tidy
  <1>3. \A d \in Hash : \A a : a \in w[d] <=> a \in E /\ d \in E /\ d \in u[a]
    BY <1>1
  <1>4. Live(w) = E
    BY <1>2, <1>3 DEF Live
  <1>5. Tidy(w)
    <2>1. w \in [Hash -> SUBSET Hash]
      BY <1>1, <1>2
    <2>2. \A n \in E : n \in w[n] /\ \A a \in w[n] : a \in w[a] /\ w[a] \subseteq w[n]
      <3> SUFFICES ASSUME NEW n \in E PROVE n \in w[n] /\ \A a \in w[n] : a \in w[a] /\ w[a] \subseteq w[n]
        OBVIOUS
      <3>1. ASSUME NEW a \in w[n], NEW b \in w[a] PROVE b \in w[n]
        <4>1. a \in E /\ n \in u[a]
          BY <1>2, <1>3
        <4>2. b \in E /\ a \in u[b]
          BY <1>2, <1>3, <4>1
        <4>3. n \in u[b]
          BY <1>2, <4>1, <4>2
        <4> QED BY <1>2, <1>3, <4>2, <4>3
      <3>2. \A a \in w[n] : a \in E
        BY <1>2, <1>3
      <3> QED BY <1>2, <1>3, <3>1, <3>2
    <2>3. \A n \in E : \A a, b \in w[n] : a \in w[b] \/ b \in w[a]
      BY <1>2, <1>3 DEF InLine
    <2>4. \A a, b \in E : a \in w[b] /\ b \in w[a] => a = b
      BY <1>2, <1>3
    <2> QED BY <1>4, <2>1, <2>2, <2>3, <2>4 DEF Tidy
  <1>6. \A h \in E : Down(w, h) = u[h] \cap E
    BY <1>2, <1>3 DEF Down
  <1>7. Tip(w, E)
    <2>1. \A a, b \in E : a \in w[b] \/ b \in w[a]
      BY <1>2, <1>3 DEF InLine
    <2> QED BY <1>4, <1>6, <2>1 DEF Tip
  <1>8. \E h \in E : Rank(w, h) = i /\ \A g \in E : Rank(w, g) = i => g = h
    BY <1>5, <1>7, RankFound
  <1> QED BY <1>6, <1>8 DEF Rank, Height

\* One callback of a prune or of the commits of an eviction, and the equation
\* that MemoryPruned and MemoryRemoved solve.
Leaver(E, i) == CHOOSE h \in E : Cardinality(up[h] \cap E) = i
MemoryOne(prunes, E, y, i) ==
  IF prunes THEN MI!NodePruned(y, TreeAfter(i), Detached(i), Parent(Detached(i)))
  ELSE MI!Removed(y, up, Leaver(E, i))
MemorySteps(prunes, E, x, n, q) ==
  q = [i \in 0 .. n |-> IF i = 0 THEN x ELSE MemoryOne(prunes, E, q[i - 1], i)]

\* The equation has a solution, by the least length for which it would not.
LEMMA MemoryStepsExist ==
  ASSUME NEW prunes, NEW E, NEW x, NEW n \in Nat
  PROVE  \E q : MemorySteps(prunes, E, x, n, q)
  <1> DEFINE T == {m \in Nat : ~\E q : MemorySteps(prunes, E, x, m, q)}
  <1>1. T = {}
    <2> SUFFICES ASSUME T # {} PROVE FALSE
      OBVIOUS
    <2>1. T \in SUBSET Nat
      OBVIOUS
    <2>2. PICK m \in T : \A y \in T : m <= y
      <3> HIDE DEF T
      <3> QED BY <2>1, LeastNatural
    <2>3. m \in Nat
      OBVIOUS
    <2>4. CASE m = 0
      <3> DEFINE z == [i \in 0 .. 0 |-> x]
      <3>1. MemorySteps(prunes, E, x, 0, z)
        BY DEF MemorySteps
      <3> HIDE DEF z
      <3> QED BY <2>4, <3>1
    <2>5. CASE m # 0
      <3>1. m - 1 \in Nat /\ m - 1 \notin T
        <4> HIDE DEF T
        <4> QED BY <2>2, <2>3, <2>5
      <3>2. PICK q : MemorySteps(prunes, E, x, m - 1, q)
        BY <3>1
      <3>6. ~\E v : MemorySteps(prunes, E, x, m, v)
        OBVIOUS
      <3> HIDE DEF T
      <3> DEFINE r == [i \in 0 .. m |-> IF i < m THEN q[i] ELSE MemoryOne(prunes, E, q[m - 1], m)]
      <3>3. ASSUME NEW i \in 0 .. m PROVE r[i] = IF i = 0 THEN x ELSE MemoryOne(prunes, E, r[i - 1], i)
        <4>1. CASE i = m
          <5>1. r[i] = MemoryOne(prunes, E, q[i - 1], i) /\ i # 0
            BY <2>5, <4>1
          <5>2. r[i - 1] = q[i - 1]
            BY <2>3, <2>5, <4>1
          <5> QED BY <5>1, <5>2
        <4>2. CASE i # m
          <5>1. i \in 0 .. m - 1 /\ r[i] = q[i]
            BY <2>3, <4>2
          <5>2. q[i] = IF i = 0 THEN x ELSE MemoryOne(prunes, E, q[i - 1], i)
            BY <3>2, <5>1 DEF MemorySteps
          <5>3. i # 0 => r[i - 1] = q[i - 1]
            BY <2>3, <5>1
          <5> QED BY <5>1, <5>2, <5>3
        <4> QED BY <4>1, <4>2
      <3>4. r = [i \in 0 .. m |-> r[i]]
        OBVIOUS
      <3> HIDE DEF r
      <3>5. MemorySteps(prunes, E, x, m, r)
        BY <3>3, <3>4 DEF MemorySteps
      <3> QED BY <3>5, <3>6
    <2> QED BY <2>4, <2>5
  <1>2. n \notin T
    <2> HIDE DEF T
    <2> QED BY <1>1
  <1> QED BY <1>2

MemoryPrunings(x, n, q) ==
  q = [i \in 0 .. n |-> IF i = 0 THEN x
                        ELSE MI!NodePruned(q[i - 1], TreeAfter(i), Detached(i), Parent(Detached(i)))]
MemoryRemovals(E, x, n, q) ==
  q = [i \in 0 .. n |-> IF i = 0 THEN x ELSE MI!Removed(q[i - 1], up, Leaver(E, i))]

\* The callbacks of a prune keep the memory index in step with the tree.
LEMMA PruningKeepsMemory ==
  ASSUME Rooted, NEW e \in Nodes, NEW S \in SUBSET up[e], NEW K, up' = Pruned(S, K),
         NEW x, Matched(x, up), InDram(x) \subseteq K
  PROVE  Matched(MemoryPruned(x), up') /\ Steady(x, MemoryPruned(x))
  <1> DEFINE n == Cardinality(Dead)
             q == CHOOSE q : MemoryPrunings(x, n, q)
             Good(m) == Matched(q[m], Cut(up, Dead, m)) /\ Steady(x, q[m])
             T == {m \in 0 .. n : ~Good(m)}
  <1>1. /\ Tidy(up) /\ Tip(up, Dead) /\ Dead \cap K = {} /\ n \in Nat /\ Dead \in SUBSET Hash
        /\ up' = Cut(up, Dead, n) /\ up = Cut(up, Dead, 0)
    BY OwnShape, PrunedTip, BlocksFinite DEF Dead, Nodes
  <1>2. MemoryPrunings(x, n, q)
    <2>1. PICK r : MemorySteps(TRUE, {}, x, n, r)
      BY <1>1, MemoryStepsExist
    <2>2. MemoryPrunings(x, n, r)
      BY <2>1 DEF MemorySteps, MemoryOne, MemoryPrunings
    <2> QED BY <2>2, Zenon
  <1>3. MemoryPruned(x) = q[n]
    BY Zenon DEF MemoryPruned, MemoryPrunings
  <1> HIDE DEF q, n
  <1>4. \A i \in 0 .. n : q[i] = IF i = 0 THEN x
                                 ELSE MI!NodePruned(q[i - 1], TreeAfter(i), Detached(i), Parent(Detached(i)))
    BY <1>2 DEF MemoryPrunings
  <1>5. ASSUME NEW m \in 1 .. n, Good(m - 1) PROVE Good(m)
    <2>1. PICK d \in Dead : Rank(up, d) = m /\ \A g \in Dead : Rank(up, g) = m => g = d
      BY <1>1, RankFound DEF n
    <2>2. Detached(m) = d
      BY <2>1 DEF Detached, Rank, Down, Subtree
    <2>3. PICK w : w = Cut(up, Dead, m)
      OBVIOUS
    <2>4. PICK p : p = Parent(d)
      OBVIOUS
    <2>5. p = IF up[d] = {d} THEN NoNode ELSE CHOOSE r \in up[d] \ {d} : up[r] = up[d] \ {d}
      BY <2>4 DEF Parent
    <2>6. /\ Tidy(w) /\ d \in Hash \ Live(w) /\ p \in Live(w) \cup {NoNode}
          /\ Cut(up, Dead, m - 1) = Sprout(w, d, p)
      <3>1. m \in Nat /\ m \in 1 .. Cardinality(Dead)
        BY <1>1 DEF n
      <3> QED BY <1>1, <2>1, <2>3, <2>5, <3>1, CutTree, CutStep
    <2>7. d \notin InDram(q[m - 1])
      BY <1>1, <1>5, <2>1 DEF Steady
    <2>8. w = TreeAfter(m)
      BY <2>3 DEF TreeAfter, Cut, Rank, Down, Subtree
    <2>9. q[m] = MI!NodePruned(q[m - 1], w, d, p)
      BY <1>1, <1>4, <2>2, <2>4, <2>8
    <2>10. Matched(q[m], w) /\ Steady(q[m - 1], q[m])
      BY <1>5, <2>6, <2>7, <2>9, PrunedKeepsMemory
    <2> QED BY <1>5, <2>3, <2>10 DEF Steady
  <1>6. T = {}
    <2> SUFFICES ASSUME T # {} PROVE FALSE
      OBVIOUS
    <2>1. T \in SUBSET Nat
      BY <1>1
    <2>2. PICK m \in T : \A y \in T : m <= y
      <3> HIDE DEF T
      <3> QED BY <2>1, LeastNatural
    <2>3. m \in 0 .. n /\ ~Good(m)
      OBVIOUS
    <2>4. CASE m = 0
      BY <1>1, <1>4, <2>3, <2>4 DEF Steady
    <2>5. CASE m # 0
      <3>1. m \in 1 .. n /\ m - 1 \in 0 .. n /\ m - 1 \notin T
        <4> HIDE DEF T
        <4> QED BY <1>1, <2>2, <2>3, <2>5
      <3>2. Good(m - 1)
        BY <3>1
      <3> QED BY <1>5, <2>3, <3>1, <3>2
    <2> QED BY <2>4, <2>5
  <1>7. n \notin T
    <2> HIDE DEF T
    <2> QED BY <1>6
  <1>8. Good(n)
    BY <1>1, <1>7
  <1> QED BY <1>1, <1>3, <1>8

\* The commits of an eviction take its blocks out of the memory index.
LEMMA RemovingKeepsMemory ==
  ASSUME Tidy(up), InLine(up, mem \ mem'), NEW x, Matched(x, up), mem \ mem' \subseteq InDram(x)
  PROVE  /\ Matched(MemoryRemoved(x), up) /\ InDram(MemoryRemoved(x)) = InDram(x) \ (mem \ mem')
         /\ \A h \in Hash \ (mem \ mem') : MemoryRemoved(x).recency[h] = x.recency[h]
  <1> DEFINE E == mem \ mem'
             n == Cardinality(E)
             q == CHOOSE q : MemoryRemovals(E, x, n, q)
             Gone(m) == {h \in E : Height(up, E, h) <= m}
             Good(m) == /\ Matched(q[m], up) /\ InDram(q[m]) = InDram(x) \ Gone(m)
                        /\ \A h \in Hash \ E : q[m].recency[h] = x.recency[h]
             T == {m \in 0 .. n : ~Good(m)}
  <1>1. /\ n \in Nat /\ E \in SUBSET Hash /\ \A h \in E : Height(up, E, h) \in Nat \ {0} /\ Height(up, E, h) <= n
    <2>1. E \in SUBSET Hash /\ IsFiniteSet(E) /\ n \in Nat
      BY BlocksFinite DEF InDram
    <2>2. ASSUME NEW h \in E PROVE Height(up, E, h) \in Nat \ {0} /\ Height(up, E, h) <= n
      <3>1. up[h] \cap E \in SUBSET E /\ h \in up[h] \cap E
        BY DEF InLine, Live, Tidy
      <3>2. Cardinality(up[h] \cap E) \in Nat /\ Cardinality(up[h] \cap E) <= n /\ IsFiniteSet(up[h] \cap E)
        BY <2>1, <3>1, FS_Subset, FS_CardinalityType
      <3>3. Cardinality(up[h] \cap E) # 0
        BY <3>1, <3>2, FS_EmptySet
      <3> QED BY <3>2, <3>3 DEF Height
    <2> QED BY <2>1, <2>2
  <1>2. MemoryRemovals(E, x, n, q)
    <2>1. PICK r : MemorySteps(FALSE, E, x, n, r)
      BY <1>1, MemoryStepsExist
    <2>2. MemoryRemovals(E, x, n, r)
      BY <2>1 DEF MemorySteps, MemoryOne, MemoryRemovals
    <2> QED BY <2>2, Zenon
  <1>3. MemoryRemoved(x) = q[n]
    BY Zenon DEF MemoryRemoved, MemoryRemovals, Leaver
  <1>10. InLine(up, E) /\ E \subseteq InDram(x)
    OBVIOUS
  <1> HIDE DEF E, q, n
  <1>4. \A i \in 0 .. n : q[i] = IF i = 0 THEN x ELSE MI!Removed(q[i - 1], up, Leaver(E, i))
    BY <1>2 DEF MemoryRemovals
  <1>5. ASSUME NEW m \in 1 .. n, Good(m - 1) PROVE Good(m)
    <2>1. PICK d \in E : Height(up, E, d) = m /\ \A g \in E : Height(up, E, g) = m => g = d
      BY <1>1, <1>10, HeightFound DEF n
    <2>2. Leaver(E, m) = d
      BY <2>1 DEF Leaver, Height
    <2>3. d \in InDram(q[m - 1])
      BY <1>1, <1>5, <1>10, <2>1
    <2>4. q[m] = MI!Removed(q[m - 1], up, d)
      BY <1>1, <1>4, <2>2
    <2>5. /\ Matched(q[m], up) /\ InDram(q[m]) = InDram(q[m - 1]) \ {d}
          /\ q[m].recency = [q[m - 1].recency EXCEPT ![d] = 0]
      <3>1. PICK y, z : y = q[m - 1] /\ z = q[m]
        OBVIOUS
      <3>2. Matched(y, up) /\ d \in InDram(y) /\ z = MI!Removed(y, up, d)
        BY <1>5, <2>3, <2>4, <3>1
      <3>3. Matched(z, up) /\ InDram(z) = InDram(y) \ {d} /\ z.recency = [y.recency EXCEPT ![d] = 0]
        BY <3>2, RemovedKeeps
      <3> QED BY <3>1, <3>3
    <2>6. Gone(m) = Gone(m - 1) \cup {d}
      <3>1. \A h \in E : Height(up, E, h) <= m <=> Height(up, E, h) <= m - 1 \/ h = d
        BY <1>1, <2>1
      <3> QED BY <3>1
    <2>7. \A h \in Hash \ E : q[m].recency[h] = q[m - 1].recency[h]
      <3>1. q[m - 1].recency \in [Hash -> Nat]
        BY <1>5, PartTypes DEF Matched, Sound
      <3> QED BY <2>1, <2>5, <3>1
    <2>8. InDram(q[m]) = InDram(x) \ Gone(m)
      <3> HIDE DEF Gone
      <3> QED BY <1>5, <2>5, <2>6
    <2> QED BY <1>5, <2>5, <2>7, <2>8
  <1>6. T = {}
    <2> SUFFICES ASSUME T # {} PROVE FALSE
      OBVIOUS
    <2>1. T \in SUBSET Nat
      BY <1>1
    <2>2. PICK m \in T : \A y \in T : m <= y
      <3> HIDE DEF T
      <3> QED BY <2>1, LeastNatural
    <2>3. m \in 0 .. n /\ ~Good(m)
      OBVIOUS
    <2>4. CASE m = 0
      <3>1. Gone(0) = {}
        BY <1>1
      <3>2. q[0] = x
        BY <1>1, <1>4
      <3>3. Good(0)
        BY <3>1, <3>2
      <3> QED BY <2>3, <2>4, <3>3
    <2>5. CASE m # 0
      <3>1. m \in 1 .. n /\ m - 1 \in 0 .. n /\ m - 1 \notin T
        <4> HIDE DEF T
        <4> QED BY <1>1, <2>2, <2>3, <2>5
      <3>2. Good(m - 1)
        BY <3>1
      <3> QED BY <1>5, <2>3, <3>1, <3>2
    <2> QED BY <2>4, <2>5
  <1>7. n \notin T
    <2> HIDE DEF T
    <2> QED BY <1>6
  <1>8. Good(n)
    BY <1>1, <1>7
  <1>9. Gone(n) = E
    BY <1>1
  <1> QED BY <1>3, <1>8, <1>9 DEF E

-----------------------------------------------------------------------------
(* The order of the residents, and the steps that change it.                *)

\* The list of the baseline policy has the residents from the newest on.
InOrder(r, clock) == \A i, j \in 1 .. Len(r) : i < j => clock[r[i]] > clock[r[j]]

\* Detaching blocks keeps the others in order.
LEMMA WithoutOrdered ==
  ASSUME NEW s \in Seq(Hash), NEW clock \in [Hash -> Nat], InOrder(s, clock), NEW S
  PROVE  InOrder(Without(s, S), clock)
  <1> DEFINE n == Len(s)
             u == CHOOSE q : Rests(s, S, n, q)
             Good(m) == /\ u[m] \in Seq(Hash) /\ InOrder(u[m], clock)
                        /\ \A i \in 1 .. Len(u[m]) : \E j \in 1 .. m : u[m][i] = s[j]
             T == {m \in 0 .. n : ~Good(m)}
  <1>1. n \in Nat /\ \A i \in 1 .. n : s[i] \in Hash
    OBVIOUS
  <1>2. Rests(s, S, n, u)
    BY <1>1, RestsExist, Zenon
  <1>3. Without(s, S) = u[n]
    BY Zenon DEF Without, Rests
  <1>9. \A i, j \in 1 .. n : i < j => clock[s[i]] > clock[s[j]]
    BY DEF InOrder
  <1> HIDE DEF u, n
  <1>4. \A i \in 0 .. n : u[i] = IF i = 0 THEN <<>>
                                 ELSE IF s[i] \in S THEN u[i - 1] ELSE Append(u[i - 1], s[i])
    BY <1>2 DEF Rests
  <1>5. ASSUME NEW m \in 1 .. n, Good(m - 1) PROVE Good(m)
    <2>1. PICK r : r = u[m - 1]
      OBVIOUS
    <2>2. /\ r \in Seq(Hash) /\ InOrder(r, clock)
          /\ \A i \in 1 .. Len(r) : \E j \in 1 .. m - 1 : r[i] = s[j]
      BY <1>5, <2>1
    <2>3. m \in 0 .. n /\ m # 0 /\ m \in Nat /\ s[m] \in Hash /\ 1 .. m - 1 \subseteq 1 .. m
      BY <1>1
    <2>4. CASE s[m] \in S
      <3>1. u[m] = r
        BY <1>4, <2>1, <2>3, <2>4
      <3> QED BY <2>2, <2>3, <3>1
    <2>5. CASE s[m] \notin S
      <3>1. PICK w : w = Append(r, s[m])
        OBVIOUS
      <3>2. u[m] = w
        BY <1>4, <2>1, <2>3, <2>5, <3>1
      <3>3. /\ w \in Seq(Hash) /\ Len(w) = Len(r) + 1 /\ Len(r) \in Nat
            /\ \A i \in 1 .. Len(r) : w[i] = r[i]
            /\ w[Len(r) + 1] = s[m]
        BY <2>2, <2>3, <3>1
      <3>4. \A i \in 1 .. Len(w) : i = Len(r) + 1 \/ i \in 1 .. Len(r)
        BY <3>3
      <3>5. \A i \in 1 .. Len(w) : \E j \in 1 .. m : w[i] = s[j]
        <4>1. m \in 1 .. m
          BY <2>3
        <4> QED BY <2>2, <2>3, <3>3, <3>4, <4>1
      <3>6. ASSUME NEW i \in 1 .. Len(w), NEW j \in 1 .. Len(w), i < j
            PROVE  clock[w[i]] > clock[w[j]]
        <4>1. i \in 1 .. Len(r)
          BY <3>3, <3>4, <3>6
        <4>2. CASE j \in 1 .. Len(r)
          BY <2>2, <3>3, <3>6, <4>1, <4>2 DEF InOrder
        <4>3. CASE j = Len(r) + 1
          <5>1. PICK k \in 1 .. m - 1 : r[i] = s[k]
            BY <2>2, <4>1
          <5>2. k \in 1 .. n /\ k < m
            BY <1>1, <5>1
          <5>3. clock[s[k]] > clock[s[m]]
            BY <1>9, <5>2
          <5> QED BY <3>3, <4>1, <4>3, <5>1, <5>3
        <4> QED BY <3>4, <4>2, <4>3
      <3> QED BY <3>2, <3>3, <3>5, <3>6 DEF InOrder
    <2> QED BY <2>4, <2>5
  <1>6. T = {}
    <2> SUFFICES ASSUME T # {} PROVE FALSE
      OBVIOUS
    <2>1. T \in SUBSET Nat
      BY <1>1
    <2>2. PICK m \in T : \A y \in T : m <= y
      <3> HIDE DEF T
      <3> QED BY <2>1, LeastNatural
    <2>3. m \in 0 .. n /\ ~Good(m)
      OBVIOUS
    <2>4. CASE m = 0
      <3>1. u[0] = <<>>
        BY <1>1, <1>4
      <3>2. Good(0)
        <4>1. PICK z : z = u[0]
          OBVIOUS
        <4>2. z \in Seq(Hash) /\ 1 .. Len(z) = {}
          BY <3>1, <4>1
        <4> QED BY <4>1, <4>2 DEF InOrder
      <3> QED BY <2>3, <2>4, <3>2
    <2>5. CASE m # 0
      <3>1. m \in 1 .. n /\ m - 1 \in 0 .. n /\ m - 1 \notin T
        <4> HIDE DEF T
        <4> QED BY <1>1, <2>2, <2>3, <2>5
      <3>2. Good(m - 1)
        BY <3>1
      <3> QED BY <1>5, <2>3, <3>1, <3>2
    <2> QED BY <2>4, <2>5
  <1>7. n \notin T
    <2> HIDE DEF T
    <2> QED BY <1>6
  <1>8. Good(n)
    BY <1>1, <1>7
  <1> QED BY <1>3, <1>8

\* A block with a new recency goes to the head.
LEMMA HeadOrdered ==
  ASSUME NEW w \in Seq(Hash), NEW h \in Hash, NEW clock \in [Hash -> Nat], NEW top \in Nat,
         \A k \in Hash : clock[k] <= top, \A i \in 1 .. Len(w) : w[i] # h, InOrder(w, clock)
  PROVE  InOrder(<<h>> \o w, [clock EXCEPT ![h] = top + 1])
  <1> DEFINE v == <<h>> \o w
  <1>1. PICK now2 : now2 = [clock EXCEPT ![h] = top + 1]
    OBVIOUS
  <1>2. now2[h] = top + 1 /\ \A k \in Hash \ {h} : now2[k] = clock[k]
    BY <1>1
  <1>3. /\ v \in Seq(Hash) /\ Len(v) = Len(w) + 1 /\ Len(w) \in Nat /\ v[1] = h
        /\ \A i \in 2 .. Len(w) + 1 : v[i] = w[i - 1] /\ i - 1 \in 1 .. Len(w)
    OBVIOUS
  <1> HIDE DEF v
  <1>5. \A i \in 1 .. Len(v) : i \in Nat /\ (i = 1 \/ i \in 2 .. Len(w) + 1)
    BY <1>3
  <1>4. ASSUME NEW i \in 1 .. Len(v), NEW j \in 1 .. Len(v), i < j
        PROVE  now2[v[i]] > now2[v[j]]
    <2>1. j \in 2 .. Len(w) + 1 /\ j - 1 \in 1 .. Len(w) /\ v[j] = w[j - 1]
      <3>1. j # 1
        <4>1. i \in Nat /\ i >= 1
          BY <1>3
        <4> QED BY <1>4, <4>1
      <3> QED BY <1>3, <1>5, <3>1
    <2>2. w[j - 1] \in Hash \ {h} /\ now2[v[j]] = clock[w[j - 1]] /\ clock[w[j - 1]] \in Nat
      BY <1>2, <2>1
    <2>3. CASE i = 1
      BY <1>2, <1>3, <2>2, <2>3
    <2>4. CASE i # 1
      <3>1. i \in 2 .. Len(w) + 1 /\ i - 1 \in 1 .. Len(w) /\ v[i] = w[i - 1]
        BY <1>3, <1>5, <2>4
      <3>2. now2[v[i]] = clock[w[i - 1]]
        BY <1>2, <3>1
      <3>3. i - 1 < j - 1
        BY <1>4, <2>1, <3>1
      <3>4. clock[w[i - 1]] > clock[w[j - 1]]
        BY <2>1, <3>1, <3>3 DEF InOrder
      <3> QED BY <2>2, <3>2, <3>4
    <2> QED BY <2>3, <2>4
  <1> QED BY <1>1, <1>4 DEF v, InOrder

\* What the steps keep of the memory index: it is in step with the tree and
\* with the list of the baseline policy.
MemoryInv ==
  /\ Matched(memory, up) /\ InDram(memory) = mem
  /\ Listed /\ Entering /\ InOrder(recency, memory.recency)

\* A step that touches neither the index nor what it is about.
LEMMA QuietMemory ==
  ASSUME MemoryInv, UNCHANGED <<memory, up, mem, recency>>, Listed' /\ Entering'
  PROVE  MemoryInv'
  BY DEF MemoryInv

\* The clock of the index in step with the list.
LEMMA MemoryClock ==
  ASSUME MemoryInv
  PROVE  /\ memory.recency \in [Hash -> Nat] /\ memory.next \in Nat
         /\ \A h \in Hash : memory.recency[h] <= memory.next
  BY PartTypes DEF MemoryInv, Matched, Sound, Clocked

\* A DRAM block is read.
LEMMA HitKeepsMemory ==
  ASSUME CoreInv, MemoryInv, Hit, Listed', Entering'
  PROVE  MemoryInv'
  <1>1. /\ Here \in mem /\ Here \in Hash /\ UNCHANGED <<up, mem>>
        /\ recency' = <<Here>> \o Without(recency, {Here})
        /\ memory' = MI!Accessed(memory, Here)
    BY CoreTypes DEF Hit, MemoryHit, TypeOK
  <1>2. PICK h \in Hash : h = Here
    BY <1>1
  <1>3. Matched(memory, up) /\ h \in InDram(memory)
    BY <1>1, <1>2 DEF MemoryInv
  <1>4. PICK y : y = MI!Accessed(memory, h)
    OBVIOUS
  <1>5. /\ Matched(y, up) /\ InDram(y) = InDram(memory)
        /\ y.recency = [memory.recency EXCEPT ![h] = memory.next + 1]
    BY <1>3, <1>4, AccessedKeeps
  <1>6. PICK w : w = Without(recency, {h})
    OBVIOUS
  <1>7. /\ w \in Seq(Hash) /\ InOrder(w, memory.recency) /\ \A i \in 1 .. Len(w) : w[i] # h
    <2>1. Remains(recency, {h}, Len(recency), w)
      BY <1>6, WithoutKeeps DEF MemoryInv, Listed
    <2>2. InOrder(w, memory.recency)
      BY <1>6, MemoryClock, WithoutOrdered DEF MemoryInv, Listed
    <2> QED BY <2>1, <2>2 DEF Remains
  <1>8. InOrder(<<h>> \o w, [memory.recency EXCEPT ![h] = memory.next + 1])
    BY <1>7, MemoryClock, HeadOrdered
  <1>9. InOrder(recency', y.recency)
    BY <1>1, <1>2, <1>5, <1>6, <1>8
  <1>10. memory' = y
    BY <1>1, <1>2, <1>4
  <1> QED BY <1>1, <1>5, <1>9, <1>10 DEF MemoryInv

\* A block is created, or found, below the one before it.
LEMMA MissKeepsMemory ==
  ASSUME CoreInv, MemoryInv, Miss, Listed', Entering'
  PROVE  MemoryInv'
  <1>1. /\ UNCHANGED <<mem, recency>> /\ up' = Located /\ pc = "access" /\ Here \in Hash
        /\ memory' = IF up' = up THEN memory ELSE MI!NodeCreated(memory, up', Here)
    BY CoreTypes, BlockType DEF Miss, GlobalMiss, AtBlock, At
  <1>2. CASE up[Here] # {}
    <2>1. up' = up
      BY <1>1, <1>2 DEF Located
    <2> QED BY <1>1, <2>1, QuietMemory
  <1>3. CASE up[Here] = {}
    <2> DEFINE p == IF req.pos = 1 THEN NoNode ELSE req.path[req.pos - 1]
    <2>1. p \in Nodes \cup {NoNode} /\ up' = Sprout(up, Here, p) /\ Here \notin Nodes
      BY <1>1, <1>3 DEF CoreInv, AccessInv, Located, Grown, Sprout, Nodes
    <2> HIDE DEF p
    <2>2. up' # up
      <3>1. up'[Here] = {Here} \cup (IF p = NoNode THEN {} ELSE up[p])
        BY <1>1, <2>1, CoreTypes DEF Sprout, Tidy
      <3> QED BY <1>3, <3>1
    <2>3. Matched(memory, up)
      BY DEF MemoryInv
    <2>4. PICK y, v : y = MI!NodeCreated(memory, v, Here) /\ v = up'
      OBVIOUS
    <2>5. Matched(y, v) /\ Steady(memory, y)
      BY <1>1, <2>1, <2>3, <2>4, CoreTypes, CreatedKeepsMemory
    <2>6. memory' = y
      BY <1>1, <2>2, <2>4
    <2> QED BY <1>1, <2>4, <2>5, <2>6 DEF MemoryInv, Steady
  <1> QED BY <1>2, <1>3

\* A block enters DRAM.
LEMMA AdmitKeepsMemory ==
  ASSUME CoreInv, MemoryInv, Admit, Listed', Entering'
  PROVE  MemoryInv'
  <1>1. /\ active \in Nodes /\ active \in Hash /\ active \notin mem
        /\ UNCHANGED up /\ mem' = mem \cup {active} /\ recency' = <<active>> \o recency
        /\ memory' = MI!Inserted(memory, up, active)
    BY DEF Admit, Insert, At, CoreInv, AccessInv, Nodes, MemoryInv, Entering
  <1>2. Matched(memory, up) /\ active \in Live(up) /\ active \notin InDram(memory)
    BY <1>1, CoreTypes DEF MemoryInv
  <1>3. PICK y : y = MI!Inserted(memory, up, active)
    OBVIOUS
  <1>4. /\ Matched(y, up) /\ InDram(y) = InDram(memory) \cup {active}
        /\ y.recency = [memory.recency EXCEPT ![active] = memory.next + 1]
    BY <1>2, <1>3, CoreTypes, InsertedKeeps
  <1>5. InOrder(<<active>> \o recency, [memory.recency EXCEPT ![active] = memory.next + 1])
    <2>1. /\ recency \in Seq(Hash) /\ InOrder(recency, memory.recency)
          /\ \A i \in 1 .. Len(recency) : recency[i] # active
      BY <1>1 DEF MemoryInv, Listed
    <2> QED BY <1>1, <2>1, MemoryClock, HeadOrdered
  <1> QED BY <1>1, <1>3, <1>4, <1>5 DEF MemoryInv

\* Blocks of the segment of a node leave DRAM, written or not, and what is
\* left of the segment with nothing on any tier is pruned.
LEMMA LeaveKeepsMemory ==
  ASSUME CoreInv, MemoryInv, NEW e \in Nodes, NEW S \in SUBSET Segment(e), NEW out, NEW N, NEW t,
         LeaveMemory(S, out, N, t), out \cap mem \subseteq Segment(e),
         memory' = MemoryPruned(MemoryRemoved(memory)), Listed', Entering'
  PROVE  MemoryInv'
  <1>1. /\ mem' = mem \ out /\ recency' = Without(recency, out)
        /\ up' = Pruned(S, Kept(mem', loc'))
    BY DEF LeaveMemory
  <1>2. Matched(memory, up) /\ mem \ mem' \subseteq InDram(memory) /\ InDram(memory) = mem
    BY DEF MemoryInv
  <1>3. InLine(up, mem \ mem')
    <2>1. mem \ mem' \subseteq up[e] /\ mem \ mem' \subseteq Live(up)
      BY <1>1, <1>2 DEF Segment, Matched, Fitting
    <2>2. \A a, b \in up[e] : a \in up[b] \/ b \in up[a]
      BY CoreTypes DEF Tidy
    <2> QED BY <2>1, <2>2 DEF InLine
  <1>4. PICK y : y = MemoryRemoved(memory)
    OBVIOUS
  <1>5. /\ Matched(y, up) /\ InDram(y) = mem'
        /\ \A h \in Hash \ (mem \ mem') : y.recency[h] = memory.recency[h]
    <2>1. /\ Matched(MemoryRemoved(memory), up)
          /\ InDram(MemoryRemoved(memory)) = InDram(memory) \ (mem \ mem')
          /\ \A h \in Hash \ (mem \ mem') : MemoryRemoved(memory).recency[h] = memory.recency[h]
      BY <1>2, <1>3, CoreTypes, RemovingKeepsMemory
    <2>2. mem \ (mem \ mem') = mem'
      BY <1>1
    <2> QED BY <1>2, <1>4, <2>1, <2>2
  <1>6. Matched(MemoryPruned(y), up') /\ Steady(y, MemoryPruned(y))
    <2>1. PICK K : K = Kept(mem', loc')
      OBVIOUS
    <2>2. up' = Pruned(S, K) /\ InDram(y) \subseteq K /\ S \in SUBSET up[e]
      BY <1>1, <1>5, <2>1 DEF Kept, Segment
    <2> QED BY <1>5, <2>2, CoreTypes, PruningKeepsMemory
  <1>7. InOrder(recency', y.recency)
    <2>1. InOrder(recency', memory.recency)
      BY <1>1, MemoryClock, WithoutOrdered DEF MemoryInv, Listed
    <2>2. \A i \in 1 .. Len(recency') : recency'[i] \in mem' /\ recency'[i] \in Hash
      BY DEF Listed
    <2>3. \A i \in 1 .. Len(recency') : y.recency[recency'[i]] = memory.recency[recency'[i]]
      BY <1>5, <2>2
    <2> QED BY <2>1, <2>3 DEF InOrder
  <1>8. memory' = MemoryPruned(y)
    BY <1>4
  <1> QED BY <1>5, <1>6, <1>7, <1>8 DEF MemoryInv, Steady

\* Blocks leave DRAM and none is written: a drop, copies on the SSD, a rejected dump.
LEMMA UnwrittenKeepsMemory ==
  ASSUME CoreInv, MemoryInv, Noted, LeaveUnwritten, Listed', Entering'
  PROVE  MemoryInv'
  <1>0. memory' = MemoryPruned(MemoryRemoved(memory))
    BY DEF LeaveUnwritten
  <1>1. ASSUME NEW e \in Nodes, NEW g, LeaveMemory(Segment(e), Leaving(e, g), {}, None)
        PROVE  MemoryInv'
    <2>1. Leaving(e, g) \cap mem \subseteq Segment(e) /\ Segment(e) \in SUBSET Segment(e)
      BY DEF Leaving
    <2> QED BY <1>0, <1>1, <2>1, LeaveKeepsMemory
  <1>2. CASE DropVictim
    <2>1. PICK e \in Victims, g \in Grains : LeaveMemory(Segment(e), Leaving(e, g), {}, None)
      BY <1>2 DEF DropVictim
    <2>2. e \in Nodes
      BY <2>1, LeavesAreNodes DEF Victims, MemoryVictim, MemoryLeaves
    <2> QED BY <1>1, <2>1, <2>2
  <1>3. CASE EvictCopies
    <2>1. PICK g \in Grains : LeaveMemory(Segment(cursor), Leaving(cursor, g), {}, None)
      BY <1>3 DEF EvictCopies
    <2>2. cursor \in Nodes
      BY <1>3 DEF EvictCopies, CoreInv, LiveInv
    <2> QED BY <1>1, <2>1, <2>2
  <1>4. CASE RejectDump
    <2>1. PICK f : f = Caller
      OBVIOUS
    <2>2. LeaveMemory(f.segment, f.leaving, {}, None) /\ Pending
      BY <1>4, <2>1 DEF RejectDump, Denied
    <2>3. Len(frames) \in DOMAIN frames /\ f = frames[Len(frames)]
      BY <2>1, <2>2, StackCases DEF CoreInv, IInv, Caller
    <2>4. /\ f.endpoint \in Nodes /\ f.segment \in SUBSET Segment(f.endpoint)
          /\ f.leaving \cap mem \subseteq Segment(f.endpoint)
      BY <2>3 DEF CoreInv, AccessInv, LiveInv, Noted
    <2> QED BY <1>0, <2>2, <2>4, LeaveKeepsMemory
  <1> QED BY <1>2, <1>3, <1>4 DEF LeaveUnwritten

\* A dump is written and its blocks leave DRAM.
LEMMA DumpKeepsMemory ==
  ASSUME CoreInv, MemoryInv, Noted, LeaveWritten, Listed', Entering'
  PROVE  MemoryInv'
  <1>1. PICK f : f = Top
    OBVIOUS
  <1>2. /\ Pending /\ LeaveMemory(f.segment, f.leaving, f.nodes, f.tier)
        /\ memory' = MemoryPruned(MemoryRemoved(memory))
    BY <1>1 DEF LeaveWritten, GrantDump, Grant
  <1>3. /\ f.endpoint \in Nodes /\ f.segment \in SUBSET Segment(f.endpoint)
        /\ f.leaving \cap mem \subseteq Segment(f.endpoint)
    <2>1. 1 \in DOMAIN frames /\ f = frames[1]
      BY <1>1, <1>2, StackCases DEF CoreInv, IInv, Top
    <2> QED BY <2>1 DEF CoreInv, AccessInv, LiveInv, Noted
  <1> QED BY <1>2, <1>3, LeaveKeepsMemory

\* A trim prunes what DRAM does not have.
LEMMA TrimKeepsMemory ==
  ASSUME CoreInv, MemoryInv, Reclaim, Listed', Entering'
  PROVE  MemoryInv'
  <1>1. PICK t : t = Top.tier
    OBVIOUS
  <1>2. PICK e \in LruLeaf(t, Top.protected) : TrimNodes(ResidentNodes(e, t), t)
    BY <1>1 DEF Reclaim, ReclaimByTrim
  <1>3. /\ memory' = MemoryPruned(memory) /\ UNCHANGED <<mem, recency>>
        /\ up' = Pruned(ResidentNodes(e, t), Kept(mem, loc'))
    BY <1>2 DEF Reclaim, TrimNodes
  <1>4. e \in Nodes /\ ResidentNodes(e, t) \in SUBSET up[e]
    <2>1. e \in Nodes
      BY <1>2, LeavesAreNodes DEF LruLeaf, LruLeaves, TierSegments
    <2> QED BY <2>1 DEF ResidentNodes, Segment
  <1>5. PICK K : K = Kept(mem, loc')
    OBVIOUS
  <1>6. InDram(memory) \subseteq K /\ Matched(memory, up) /\ up' = Pruned(ResidentNodes(e, t), K)
    BY <1>3, <1>5 DEF Kept, MemoryInv
  <1>7. Matched(MemoryPruned(memory), up') /\ Steady(memory, MemoryPruned(memory))
    BY <1>4, <1>6, CoreTypes, PruningKeepsMemory
  <1> QED BY <1>3, <1>7 DEF MemoryInv, Steady

\* Every step keeps the index in step with the tree, DRAM and the list.
LEMMA NextMemory ==
  CoreInv /\ MemoryInv /\ Noted /\ [IndexedNext]_indexedVars => MemoryInv'
  <1> SUFFICES ASSUME CoreInv, MemoryInv, Noted, [IndexedNext]_indexedVars PROVE MemoryInv'
    OBVIOUS
  <1>1. Listed' /\ Entering'
    BY StepsAreSteps, RecentStep DEF CoreInv, MemoryInv
  <1>2. CASE UNCHANGED indexedVars
    <2>1. UNCHANGED <<memory, up, mem, recency>>
      BY <1>2 DEF indexedVars, vars
    <2> QED BY <1>1, <2>1, QuietMemory
  <1>3. CASE ReadStorage
    <2>1. UNCHANGED <<memory, up, mem, recency>>
      BY <1>3 DEF ReadStorage, StorageHit
    <2> QED BY <1>1, <2>1, QuietMemory
  <1>4. CASE Place \/ Silent
    <2>1. UNCHANGED <<memory, up, mem, recency>>
      BY <1>4 DEF Place, Dump, Silent, Environment, Finish, Submit, BeginRequest, EndRequest, Close,
                  Terminated, AdmitHit, BypassHit, SelectVictim, EvictDone, treeVars, vars
    <2> QED BY <1>1, <2>1, QuietMemory
  <1> QED BY <1>1, <1>2, <1>3, <1>4, HitKeepsMemory, MissKeepsMemory, AdmitKeepsMemory,
             UnwrittenKeepsMemory, DumpKeepsMemory, TrimKeepsMemory DEF IndexedNext

\* An empty index, with any grouping, is in step with an empty tree.
LEMMA InitMemory == IndexedInit => MemoryInv
  <1> SUFFICES ASSUME IndexedInit PROVE MemoryInv
    OBVIOUS
  <1>1. /\ up = [h \in Hash |-> {}] /\ mem = {} /\ recency = <<>> /\ active = NoNode
    BY DEF IndexedInit, Init
  <1>2. PICK g \in Groupings : memory = MI!EmptyIndex(g)
    BY DEF IndexedInit
  <1>3. PICK x : x = memory
    OBVIOUS
  <1>4. x = [groupOf |-> g, recency |-> [h \in Hash |-> 0], handle |-> [h \in Hash |-> 0],
             segments |-> <<>>, ends |-> [h \in Hash |-> 0],
             groups |-> [k \in MI!Group |-> {}], below |-> [h \in Hash |-> 0], next |-> 0]
    BY <1>2, <1>3 DEF MI!EmptyIndex, MI!NoHandle, MI!NotResident
  <1>5. g \in [Hash -> MI!Group]
    BY IndexedAssumption DEF MI!Group
  <1>6. x.segments \in Ledgers /\ DOMAIN x.segments = {}
    <2>1. x.segments = [d \in {} |-> [endpoint |-> 0, group |-> 0, members |-> {}]]
      BY <1>4
    <2>2. [d \in {} |-> [endpoint |-> 0, group |-> 0, members |-> {}]] \in [{} -> Desks]
      OBVIOUS
    <2>3. {} \in SUBSET (Nat \ {0})
      OBVIOUS
    <2> QED BY <2>1, <2>2, <2>3 DEF Ledgers
  <1>7. MemoryType(x)
    <2>1. Zoned(x)
      BY <1>6 DEF Zoned
    <2> QED BY <1>4, <1>5, <1>6, <2>1 DEF MemoryType
  <1>8. Clocked(x) /\ Staffed(x) /\ Seated(x)
    BY <1>4, <1>6 DEF Clocked, Staffed, Seated
  <1>9. Listing(x, {})
    BY <1>4, <1>6 DEF Listing, Entries
  <1>10. InDram(x) = {} /\ Fitting(x, up)
    BY <1>4 DEF InDram, Fitting
  <1>11. Tallied(x, up)
    <2>1. \A h \in Hash : Through(up, {}, h) = {}
      BY DEF Through
    <2> QED BY <1>4, <1>10, <2>1, FS_EmptySet DEF Tallied
  <1>12. Listed /\ Entering /\ InOrder(recency, x.recency)
    BY <1>1 DEF Listed, Entering, InOrder
  <1> QED BY <1>1, <1>3, <1>7, <1>8, <1>9, <1>10, <1>11, <1>12 DEF MemoryInv, Matched, Sound

\* So it always is.
LEMMA MemoryInvariance == IndexedSpec => [](CoreInv /\ MemoryInv)
  BY CoreInvariance, InitIndex, NextIndex, InitMemory, NextMemory, PTL DEF IndexedSpec

-----------------------------------------------------------------------------
(* What the memory index says of the tree.                                  *)

\* A segment of the index is one of the tree, and it has the DRAM blocks there.
LEMMA SegmentIs ==
  ASSUME NEW u, Tidy(u), NEW x, Matched(x, u), NEW s \in DOMAIN x.segments
  PROVE  /\ x.segments[s].endpoint \in Ends(u) /\ x.segments[s].endpoint \in Live(u)
         /\ x.segments[s].endpoint \in Hash
         /\ s \in Nat /\ s # 0 /\ x.ends[x.segments[s].endpoint] = s
         /\ Team(x, s) = Line(u, x.segments[s].endpoint) \cap InDram(x) /\ Team(x, s) # {}
  <1>1. Sound(x, {}) /\ Fitting(x, u)
    BY DEF Matched
  <1>2. /\ s \in Nat /\ s # 0 /\ x.segments[s].endpoint \in Hash
        /\ x.ends[x.segments[s].endpoint] = s /\ Team(x, s) # {}
    BY <1>1, PartTypes DEF Sound, Seated, Listing, Desks
  <1>3. PICK e : e = x.segments[s].endpoint
    OBVIOUS
  <1>4. e \in Ends(u) /\ e \in Live(u)
    BY <1>1, <1>2, <1>3, EndsUsed DEF Ends
  <1>5. ASSUME NEW h \in Team(x, s) PROVE h \in Line(u, e) /\ h \in InDram(x)
    <2>1. h \in InDram(x) /\ Seat(x, h) = e
      BY <1>1, <1>2, <1>3 DEF Team, InDram, Sound, Clocked, Seat
    <2>2. e \in Feet(u, h)
      BY <1>1, <2>1 DEF Fitting
    <2> QED BY <2>1, <2>2 DEF Feet
  <1>6. ASSUME NEW h \in Line(u, e), h \in InDram(x) PROVE h \in Team(x, s)
    <2>1. e \in Feet(u, h)
      BY <1>4 DEF Feet
    <2>2. Seat(x, h) = e
      BY <1>1, <1>6, <2>1 DEF Fitting
    <2>3. h \in Hash /\ x.ends[e] = x.handle[h]
      BY <1>1, <1>6, <2>2, SeatIs
    <2> QED BY <1>2, <1>3, <2>3 DEF Team
  <1> QED BY <1>2, <1>3, <1>4, <1>5, <1>6

\* An index in step with the tree is exact in the words of IndexedMemory.
LEMMA MatchedExact ==
  ASSUME NEW u, Tidy(u), NEW x, Matched(x, u), NEW D, D = InDram(x)
  PROVE  MI!Exact(x, u, D)
  <1>1. Sound(x, {}) /\ Fitting(x, u) /\ Tallied(x, u) /\ MemoryType(x)
    BY DEF Matched, Sound
  <1>2. {h \in Hash : x.recency[h] # MI!NotResident} = D
    BY DEF InDram, MI!NotResident
  <1>3. \A h \in D : x.handle[h] \in DOMAIN x.segments
                     /\ <<x.recency[h], h>> \in x.segments[x.handle[h]].members
    <2> SUFFICES ASSUME NEW h \in D
                 PROVE  x.handle[h] \in DOMAIN x.segments
                        /\ <<x.recency[h], h>> \in x.segments[x.handle[h]].members
      OBVIOUS
    <2>1. h \in Hash /\ x.handle[h] \in DOMAIN x.segments
      BY <1>1, SeatIs
    <2>2. <<x.recency[h], h>> \in Stamped(x, Team(x, x.handle[h]))
      BY <2>1 DEF Stamped, Team
    <2> QED BY <1>1, <2>1, <2>2 DEF Sound, Staffed
  <1>4. ASSUME NEW s \in DOMAIN x.segments, NEW e, e = x.segments[s].endpoint
        PROVE  /\ x.ends[e] = s
               /\ {k[2] : k \in x.segments[s].members} # {}
               /\ {k[2] : k \in x.segments[s].members} = MI!Tree(u)!Segment(e) \cap D
               /\ MI!Tree(u)!SegmentLeaf(e) = {e}
    <2>1. /\ e \in Ends(u) /\ e \in Live(u) /\ x.ends[e] = s
          /\ Team(x, s) = Line(u, e) \cap D /\ Team(x, s) # {}
      BY <1>4, SegmentIs
    <2>2. {k[2] : k \in x.segments[s].members} = Team(x, s)
      <3>1. x.segments[s].members = Stamped(x, Team(x, s))
        BY <1>1 DEF Sound, Staffed
      <3>2. PICK M : M = x.segments[s].members
        OBVIOUS
      <3>3. \A k : k \in M <=> \E h \in Team(x, s) : k = <<x.recency[h], h>>
        BY <3>1, <3>2 DEF Stamped
      <3>4. {k[2] : k \in M} = Team(x, s)
        <4>1. ASSUME NEW h \in Team(x, s) PROVE h \in {k[2] : k \in M}
          <5>1. PICK k : k = <<x.recency[h], h>>
            OBVIOUS
          <5>2. k \in M /\ k[2] = h
            BY <3>3, <5>1
          <5> QED BY <5>2
        <4> QED BY <3>3, <4>1
      <3> QED BY <3>2, <3>4
    <2>3. MI!Tree(u)!Segment(e) = Line(u, e) /\ MI!Tree(u)!SegmentLeaf(e) = {e}
      BY <2>1, MemoryShape, EndIsFoot
    <2> QED BY <2>1, <2>2, <2>3
  <1>5. {h \in Hash : x.ends[h] # MI!NoHandle} = {x.segments[s].endpoint : s \in DOMAIN x.segments}
    <2>1. ASSUME NEW h \in Hash, x.ends[h] # 0
          PROVE  h \in {x.segments[s].endpoint : s \in DOMAIN x.segments}
      BY <1>1, <2>1 DEF Sound, Seated
    <2>2. \A s \in DOMAIN x.segments : x.segments[s].endpoint \in Hash /\ x.ends[x.segments[s].endpoint] # 0
      BY SegmentIs
    <2> QED BY <2>1, <2>2 DEF MI!NoHandle
  <1>6. \A g \in MI!Group :
          x.groups[g] = {<<MI!Newest(x.segments[s].members)[1], x.segments[s].endpoint>> :
                            s \in {s \in DOMAIN x.segments : x.segments[s].group = g}}
    BY <1>1 DEF Sound, Listing, Entries, Entry
  <1>7. \A h \in Hash : x.below[h] = MI!Cardinality(MI!Tree(u)!Subtree(h) \cap D)
    <2>1. \A S : MI!Cardinality(S) = Cardinality(S)
      BY Zenon DEF MI!Cardinality, Cardinality
    <2>2. \A h \in Hash : MI!Tree(u)!Subtree(h) \cap D = Through(u, InDram(x), h)
      BY DEF MI!Tree!Subtree, Through, InDram
    <2> QED BY <1>1, <2>1, <2>2 DEF Tallied
  <1> QED BY <1>2, <1>3, <1>4, <1>5, <1>6, <1>7 DEF MI!Exact

\* Through requests, dumps and trims, and the blocks these create and prune, the
\* index of IndexedMemoryLruPolicy has the segments of the tree, each with its
\* DRAM blocks, in its group under its newest one, and counts what is below.
THEOREM MemoryIndexAgrees == IndexedSpec => []MemoryIndexExact
  <1>1. CoreInv /\ MemoryInv => MemoryIndexExact
    BY CoreTypes, MatchedExact DEF MemoryInv, MemoryIndexExact
  <1> QED BY <1>1, MemoryInvariance, PTL

-----------------------------------------------------------------------------
(* The victims of the memory policies.                                      *)

\* The place in the list of the first block of a segment, and its recency.
Spot(e) == CHOOSE i \in DOMAIN recency :
             /\ e \in SegmentLeaf(recency[i])
             /\ \A j \in 1 .. i - 1 : e \notin SegmentLeaf(recency[j])
Stamp(e) == memory.recency[recency[Spot(e)]]

\* A segment that the scan looks at.
LEMMA LeafIs ==
  ASSUME CoreInv, NEW e \in MemoryLeaves
  PROVE  /\ e \in Hash /\ e \in Nodes /\ e \in Ends(up) /\ Below(e) \cap mem = {}
         /\ \E m \in mem : e \in SegmentLeaf(m)
         /\ \A h \in mem : e \in SegmentLeaf(h) <=> SegmentLeaf(h) = {e}
         /\ \A h \in mem : e \in SegmentLeaf(h) <=> h \in Line(up, e)
  <1>0. Rooted /\ mem \subseteq Hash /\ mem \subseteq Nodes
    BY CoreTypes DEF TypeOK, CoreInv, TreeInv, ResidentsRooted, Resident
  <1>1. Below(e) \cap mem = {} /\ \E m \in mem : e \in SegmentLeaf(m)
    BY DEF MemoryLeaves
  <1>2. PICK m \in mem : e \in SegmentLeaf(m)
    BY <1>1
  <1>3. e \in Ends(up) /\ e \in Nodes /\ e \in Hash
    BY <1>0, <1>2, TierEnds DEF Nodes
  <1>4. \A h \in mem : e \in SegmentLeaf(h) <=> SegmentLeaf(h) = {e}
    BY <1>0, TierEnds
  <1>5. \A h \in mem : e \in SegmentLeaf(h) <=> h \in Line(up, e)
    BY <1>0, <1>3, OwnShape DEF Feet
  <1> QED BY <1>1, <1>3, <1>4, <1>5

\* The first block of a segment is its newest.
LEMMA SpotIs ==
  ASSUME CoreInv, MemoryInv, NEW e \in MemoryLeaves
  PROVE  /\ Spot(e) \in 1 .. Len(recency) /\ recency[Spot(e)] \in mem /\ recency[Spot(e)] \in Hash
         /\ e \in SegmentLeaf(recency[Spot(e)])
         /\ \A h \in mem : e \in SegmentLeaf(h) => memory.recency[h] <= Stamp(e)
  <1>0. /\ recency \in Seq(Hash) /\ Len(recency) \in Nat /\ DOMAIN recency = 1 .. Len(recency)
        /\ \A i \in 1 .. Len(recency) : recency[i] \in Hash /\ recency[i] \in mem
        /\ \A h \in mem : \E i \in 1 .. Len(recency) : recency[i] = h
    BY DEF MemoryInv, Listed
  <1> DEFINE F == {i \in 1 .. Len(recency) : e \in SegmentLeaf(recency[i])}
  <1>1. F # {} /\ F \in SUBSET Nat
    BY <1>0, LeafIs
  <1>2. PICK k \in F : \A j \in F : k <= j
    BY <1>1, LeastNatural
  <1>3. /\ k \in DOMAIN recency /\ e \in SegmentLeaf(recency[k])
        /\ \A j \in 1 .. k - 1 : e \notin SegmentLeaf(recency[j])
    BY <1>0, <1>2
  <1>4. PICK n : n = Spot(e)
    OBVIOUS
  <1>5. /\ n \in DOMAIN recency /\ e \in SegmentLeaf(recency[n])
        /\ \A j \in 1 .. n - 1 : e \notin SegmentLeaf(recency[j])
    BY <1>3, <1>4, Zenon DEF Spot
  <1>6. ASSUME NEW h \in mem, e \in SegmentLeaf(h) PROVE memory.recency[h] <= Stamp(e)
    <2>1. PICK j \in 1 .. Len(recency) : recency[j] = h
      BY <1>0
    <2>2. ~(j < n)
      BY <1>0, <1>5, <1>6, <2>1
    <2>3. j # n => memory.recency[recency[n]] > memory.recency[recency[j]]
      BY <1>0, <1>5, <2>2 DEF MemoryInv, InOrder
    <2>4. memory.recency[recency[n]] \in Nat /\ memory.recency[h] \in Nat
      BY <1>0, <1>5, <2>1, MemoryClock
    <2> QED BY <1>4, <2>1, <2>3, <2>4 DEF Stamp
  <1> QED BY <1>0, <1>4, <1>5, <1>6

\* The later the place, the older the newest block.
LEMMA SpotsOrdered ==
  ASSUME CoreInv, MemoryInv, NEW e \in MemoryLeaves, NEW o \in MemoryLeaves
  PROVE  /\ Stamp(e) \in Nat /\ Stamp(o) \in Nat /\ Spot(e) \in Nat /\ Spot(o) \in Nat
         /\ Spot(o) <= Spot(e) <=> Stamp(e) <= Stamp(o)
         /\ Stamp(e) = Stamp(o) => e = o
  <1>1. PICK i, j : i = Spot(e) /\ j = Spot(o)
    OBVIOUS
  <1>2. /\ i \in 1 .. Len(recency) /\ j \in 1 .. Len(recency)
        /\ recency[i] \in mem /\ recency[j] \in mem /\ recency[i] \in Hash /\ recency[j] \in Hash
        /\ e \in SegmentLeaf(recency[i]) /\ o \in SegmentLeaf(recency[j])
    BY <1>1, SpotIs
  <1>3. PICK a, b : a = memory.recency[recency[i]] /\ b = memory.recency[recency[j]]
    OBVIOUS
  <1>4. a \in Nat /\ b \in Nat /\ Stamp(e) = a /\ Stamp(o) = b
    BY <1>1, <1>2, <1>3, MemoryClock DEF Stamp
  <1>5. i \in Nat /\ j \in Nat /\ (i < j => a > b) /\ (j < i => b > a)
    BY <1>2, <1>3 DEF MemoryInv, InOrder, Listed
  <1>6. i = j => a = b /\ e = o
    <2>1. SegmentLeaf(recency[i]) = {e} /\ SegmentLeaf(recency[j]) = {o}
      BY <1>2, LeafIs
    <2> QED BY <1>3, <2>1
  <1> QED BY <1>1, <1>4, <1>5, <1>6

\* Nothing below an endpoint is in DRAM where nothing is counted there.
LEMMA AdmissibleIs ==
  ASSUME CoreInv, MemoryInv, NEW e \in Nodes
  PROVE  MI!Admissible(memory, e) <=> Below(e) \cap mem = {}
  <1>1. e \in Hash /\ e \in up[e] /\ mem \subseteq Hash
    BY CoreTypes DEF Nodes, Tidy, TypeOK
  <1>2. PICK H : H = Through(up, mem, e)
    OBVIOUS
  <1>3. /\ H \in SUBSET Hash /\ (e \in H <=> memory.recency[e] # 0)
        /\ H \ {e} = Below(e) \cap mem
    <2>1. e \in H <=> e \in mem
      BY <1>1, <1>2 DEF Through
    <2>2. e \in mem <=> memory.recency[e] # 0
      BY <1>1 DEF MemoryInv, InDram
    <2> QED BY <1>1, <1>2, <2>1, <2>2 DEF Through, Below, Subtree
  <1>4. memory.below[e] = Cardinality(H)
    BY <1>1, <1>2 DEF MemoryInv, Matched, Tallied
  <1>5. IsFiniteSet(H) /\ Cardinality(H) \in Nat
    BY <1>3, BlocksFinite
  <1>6. Cardinality(H) = (IF e \in H THEN 1 ELSE 0) <=> H \ {e} = {}
    <2>1. CASE e \notin H
      <3>1. Cardinality(H) = 0 <=> H = {}
        BY <1>5, FS_EmptySet
      <3> QED BY <2>1, <3>1
    <2>2. CASE e \in H
      <3>1. {e} \in SUBSET H /\ Cardinality({e}) = 1
        BY <2>2, FS_Singleton
      <3>2. Cardinality(H) = Cardinality({e}) => H = {e}
        BY <1>5, <3>1, FS_Subset
      <3>3. H \ {e} = {} => H = {e}
        BY <3>1
      <3> QED BY <2>2, <3>1, <3>2, <3>3
    <2> QED BY <2>1, <2>2
  <1> QED BY <1>3, <1>4, <1>6 DEF MI!Admissible, MI!NotResident

\* The group keys of the segments the scan looks at, and of no other that the
\* searches stop at.
LEMMA LeafKeys ==
  ASSUME CoreInv, MemoryInv, NEW e \in MemoryLeaves
  PROVE  \E s \in DOMAIN memory.segments :
           /\ memory.segments[s].endpoint = e /\ memory.ends[e] = s
           /\ memory.segments[s].group \in MI!Group
           /\ MI!Newest(memory.segments[s].members)[1] = Stamp(e)
           /\ <<Stamp(e), e>> \in memory.groups[memory.segments[s].group]
           /\ MI!Admissible(memory, e)
  <1>0. /\ Tidy(up) /\ Matched(memory, up) /\ Sound(memory, {}) /\ InDram(memory) = mem
        /\ MemoryType(memory) /\ Fitting(memory, up)
    BY CoreTypes DEF MemoryInv, Matched, Sound
  <1>1. PICK m \in mem : e \in SegmentLeaf(m)
    BY LeafIs
  <1>2. PICK s : s = memory.handle[m]
    OBVIOUS
  <1>3. m \in Live(up) /\ SegmentLeaf(m) = {Seat(memory, m)}
    <2>1. m \in Live(up) /\ Feet(up, m) = {Seat(memory, m)}
      BY <1>0 DEF Fitting
    <2> QED BY <2>1, CoreTypes, OwnShape
  <1>4. s \in DOMAIN memory.segments /\ memory.segments[s].endpoint = e
    BY <1>0, <1>1, <1>2, <1>3, SeatIs DEF Seat
  <1>5. memory.ends[e] = s /\ memory.segments[s].group \in MI!Group
    BY <1>0, <1>4, PartTypes DEF Sound, Seated, Desks
  <1>6. MI!Newest(memory.segments[s].members)[1] = Stamp(e)
    <2>1. PICK T : T = Team(memory, s)
      OBVIOUS
    <2>2. T = Line(up, e) \cap mem /\ T # {} /\ T \in SUBSET Hash
      BY <1>0, <1>4, <2>1, SegmentIs DEF Team
    <2>3. memory.segments[s].members = Stamped(memory, T)
      BY <1>0, <1>4, <2>1 DEF Sound, Staffed
    <2>4. PICK n \in T : /\ MI!Newest(Stamped(memory, T))[1] = memory.recency[n]
                         /\ memory.recency[n] \in Nat
                         /\ \A h \in T : memory.recency[h] <= memory.recency[n]
      BY <1>0, <2>2, NewestStamp
    <2>5. /\ recency[Spot(e)] \in T /\ Stamp(e) \in Nat
          /\ \A h \in T : memory.recency[h] <= Stamp(e)
      BY <2>2, SpotIs, SpotsOrdered, LeafIs
    <2>6. memory.recency[n] <= Stamp(e) /\ Stamp(e) <= memory.recency[n]
      BY <2>4, <2>5 DEF Stamp
    <2> QED BY <2>3, <2>4, <2>5, <2>6
  <1>7. <<Stamp(e), e>> \in memory.groups[memory.segments[s].group]
    <2>1. Entry(memory.segments[s]) = <<Stamp(e), e>>
      BY <1>4, <1>6 DEF Entry
    <2>2. Entry(memory.segments[s]) \in Entries(memory, {}, memory.segments[s].group)
      BY <1>4 DEF Entries
    <2> QED BY <1>0, <1>5, <2>1, <2>2 DEF Sound, Listing
  <1>8. MI!Admissible(memory, e)
    BY LeafIs, AdmissibleIs
  <1> QED BY <1>4, <1>5, <1>6, <1>7, <1>8

\* A key that a search can stop at is that of a segment the scan looks at.
LEMMA KeysAreLeaves ==
  ASSUME CoreInv, MemoryInv, NEW g \in MI!Group, NEW k \in memory.groups[g],
         MI!Admissible(memory, k[2])
  PROVE  k[2] \in MemoryLeaves /\ k = <<Stamp(k[2]), k[2]>>
  <1>0. /\ Tidy(up) /\ Matched(memory, up) /\ Sound(memory, {}) /\ InDram(memory) = mem
    BY CoreTypes DEF MemoryInv, Matched
  <1>1. k \in Entries(memory, {}, g)
    BY <1>0 DEF Sound, Listing
  <1>2. PICK s \in DOMAIN memory.segments : k = Entry(memory.segments[s])
    BY <1>1 DEF Entries
  <1>3. PICK e : e = memory.segments[s].endpoint
    OBVIOUS
  <1>4. k[2] = e /\ k = <<MI!Newest(memory.segments[s].members)[1], e>>
    BY <1>2, <1>3 DEF Entry
  <1>5. /\ e \in Ends(up) /\ e \in Live(up) /\ e \in Nodes /\ memory.ends[e] = s
        /\ Line(up, e) \cap mem # {}
    BY <1>0, <1>3, SegmentIs, CoreTypes
  <1>6. PICK h \in mem : h \in Line(up, e)
    BY <1>5
  <1>7. e \in SegmentLeaf(h)
    <2>1. h \in Live(up)
      BY <1>0, <1>5, <1>6, EndInLine
    <2> QED BY <1>5, <1>6, <2>1, CoreTypes, OwnShape DEF Feet
  <1>8. e \in MemoryLeaves
    BY <1>4, <1>5, <1>7, AdmissibleIs DEF MemoryLeaves
  <1>9. PICK t \in DOMAIN memory.segments :
          memory.ends[e] = t /\ MI!Newest(memory.segments[t].members)[1] = Stamp(e)
    BY <1>8, LeafKeys
  <1> QED BY <1>4, <1>5, <1>8, <1>9

\* What the scan chooses, by recency.
LEMMA ScanIs ==
  ASSUME CoreInv, MemoryInv
  PROVE  MemoryVictim = {e \in MemoryLeaves : \A o \in MemoryLeaves : Stamp(e) <= Stamp(o)}
  <1>1. MemoryVictim = {e \in MemoryLeaves : \A o \in MemoryLeaves : Spot(o) <= Spot(e)}
    BY DEF MemoryVictim, Spot
  <1>2. \A e, o \in MemoryLeaves : Spot(o) <= Spot(e) <=> Stamp(e) <= Stamp(o)
    BY SpotsOrdered
  <1> QED BY <1>1, <1>2

\* The keys of the leaves in their order.
LEMMA KeysOrdered ==
  ASSUME CoreInv, MemoryInv, NEW e \in MemoryLeaves, NEW o \in MemoryLeaves
  PROVE  MI!Precedes(<<Stamp(e), e>>, <<Stamp(o), o>>) <=> Stamp(e) <= Stamp(o)
  <1>1. Stamp(e) \in Nat /\ Stamp(o) \in Nat /\ (Stamp(e) = Stamp(o) => e = o) /\ e \in Nat
    BY SpotsOrdered, LeafIs, SimulatorAssumption
  <1>2. MI!Precedes(<<Stamp(e), e>>, <<Stamp(o), o>>)
          <=> Stamp(e) < Stamp(o) \/ (Stamp(e) = Stamp(o) /\ e <= o)
    BY DEF MI!Precedes
  <1> QED BY <1>1, <1>2

\* Some leaf is the oldest.
LEMMA OldestLeaf ==
  ASSUME CoreInv, MemoryInv, NEW S \in SUBSET MemoryLeaves, S # {}
  PROVE  \E e \in S : \A o \in S : Stamp(e) <= Stamp(o)
  <1> DEFINE T == {Stamp(o) : o \in S}
  <1>1. T \in SUBSET Nat /\ T # {}
    BY SpotsOrdered
  <1>2. PICK t \in T : \A y \in T : t <= y
    <2> HIDE DEF T
    <2> QED BY <1>1, LeastNatural
  <1> QED BY <1>2

\* The least of the least keys of the groups is the oldest of the leaves.
LEMMA MemoryVictimFound ==
  ASSUME CoreInv, MemoryInv
  PROVE  MI!Victim(memory) = MemoryVictim
  <1> DEFINE A(g) == {k \in memory.groups[g] : MI!Admissible(memory, k[2])}
             First(g) == MI!Least(A(g))
             U == UNION {First(g) : g \in MI!Group}
             Oldest(e) == \A o \in MemoryLeaves : Stamp(e) <= Stamp(o)
  <1>1. \A e \in MemoryLeaves : \E g \in MI!Group : <<Stamp(e), e>> \in A(g)
    <2> SUFFICES ASSUME NEW e \in MemoryLeaves
                 PROVE  \E g \in MI!Group : <<Stamp(e), e>> \in A(g)
      OBVIOUS
    <2>1. PICK g \in MI!Group : <<Stamp(e), e>> \in memory.groups[g] /\ MI!Admissible(memory, e)
      BY LeafKeys
    <2>2. PICK k : k = <<Stamp(e), e>>
      OBVIOUS
    <2>3. k \in A(g)
      BY <2>1, <2>2
    <2> QED BY <2>2, <2>3
  <1>2. \A g \in MI!Group : \A k \in A(g) : k[2] \in MemoryLeaves /\ k = <<Stamp(k[2]), k[2]>>
    BY KeysAreLeaves
  <1>3. MemoryVictim = {e \in MemoryLeaves : Oldest(e)}
    BY ScanIs
  <1>4. MI!Victim(memory) = {k[2] : k \in MI!Least(U)}
    BY DEF MI!Victim
  <1> HIDE DEF A
  <1>5. \A K : \A k : k \in MI!Least(K) <=> k \in K /\ \A j \in K : MI!Precedes(k, j)
    BY DEF MI!Least
  <1>6. \A k \in U : \E g \in MI!Group : k \in A(g)
    BY <1>5
  <1>7. ASSUME NEW e \in MemoryLeaves, Oldest(e)
        PROVE  <<Stamp(e), e>> \in U /\ \A j \in U : MI!Precedes(<<Stamp(e), e>>, j)
    <2>1. \A g \in MI!Group : \A j \in A(g) : MI!Precedes(<<Stamp(e), e>>, j)
      <3> SUFFICES ASSUME NEW g \in MI!Group, NEW j \in A(g) PROVE MI!Precedes(<<Stamp(e), e>>, j)
        OBVIOUS
      <3>1. PICK o \in MemoryLeaves : j = <<Stamp(o), o>>
        BY <1>2
      <3> QED BY <1>7, <3>1, KeysOrdered
    <2>2. PICK g \in MI!Group : <<Stamp(e), e>> \in A(g)
      BY <1>1
    <2>3. <<Stamp(e), e>> \in First(g)
      BY <1>5, <2>1, <2>2
    <2> QED BY <1>6, <2>1, <2>3
  <1>8. ASSUME NEW e \in MemoryVictim PROVE e \in MI!Victim(memory)
    <2>1. PICK k : k = <<Stamp(e), e>>
      OBVIOUS
    <2>2. k \in MI!Least(U) /\ k[2] = e
      <3>1. k \in U /\ \A j \in U : MI!Precedes(k, j)
        BY <1>3, <1>7, <2>1
      <3> HIDE DEF U
      <3> QED BY <1>5, <2>1, <3>1
    <2> HIDE DEF U
    <2> QED BY <1>4, <2>2
  <1>9. ASSUME NEW e \in MI!Victim(memory) PROVE e \in MemoryVictim
    <2>1. PICK k \in MI!Least(U) : e = k[2]
      <3> HIDE DEF U
      <3> QED BY <1>4
    <2>2. k \in U /\ \A j \in U : MI!Precedes(k, j)
      <3> HIDE DEF U
      <3> QED BY <1>5, <2>1
    <2>3. e \in MemoryLeaves /\ k = <<Stamp(e), e>>
      BY <1>2, <1>6, <2>1, <2>2
    <2>4. PICK o \in MemoryLeaves : Oldest(o)
      BY <2>3, OldestLeaf
    <2>5. <<Stamp(o), o>> \in U
      BY <1>7, <2>4
    <2>6. Stamp(e) <= Stamp(o)
      BY <2>2, <2>3, <2>5, KeysOrdered
    <2>7. Oldest(e)
      <3> SUFFICES ASSUME NEW l \in MemoryLeaves PROVE Stamp(e) <= Stamp(l)
        OBVIOUS
      <3>1. Stamp(o) <= Stamp(l)
        BY <2>4
      <3>2. Stamp(e) \in Nat /\ Stamp(o) \in Nat /\ Stamp(l) \in Nat
        BY <2>3, SpotsOrdered
      <3> QED BY <2>6, <3>1, <3>2
    <2> QED BY <1>3, <2>3, <2>7
  <1> QED BY <1>8, <1>9

\* Whatever the grouping, a full search of the memory index names the segment
\* that the baseline policy's scan of the DRAM blocks names.
THEOREM MemoryIndexFindsTheScan == IndexedSpec => []MemoryVictimIsScan
  <1>1. CoreInv /\ MemoryInv => MemoryVictimIsScan
    BY MemoryVictimFound DEF MemoryVictimIsScan
  <1> QED BY <1>1, MemoryInvariance, PTL

\* Where DRAM is not empty there is a segment with nothing in DRAM below it.
LEMMA LeavesExist ==
  ASSUME CoreInv, mem # {}
  PROVE  MemoryLeaves # {}
  <1>0. /\ Rooted /\ Tidy(up) /\ Live(up) = Nodes /\ mem \subseteq Hash /\ mem \subseteq Nodes
    BY CoreTypes DEF TypeOK, CoreInv, TreeInv, ResidentsRooted, Resident
  <1>1. PICK h \in mem : \A g \in mem : h \in up[g] => g = h
    BY <1>0, Extremes
  <1>2. PICK e \in Ends(up) : Feet(up, h) = {e}
    BY <1>0, OneFoot
  <1>3. e \in SegmentLeaf(h) /\ e \in Live(up) /\ h \in up[e] /\ e \in Hash
    BY <1>0, <1>2, OwnShape DEF Feet, Line, Ends, Live
  <1>4. Below(e) \cap mem = {}
    <2> SUFFICES ASSUME NEW g \in mem, g \in Below(e) PROVE FALSE
      OBVIOUS
    <2>1. g \in Hash /\ e \in up[g] /\ g # e
      BY DEF Below, Subtree
    <2>2. h \in up[g]
      BY <1>0, <1>3, <2>1, OverNodes
    <2>3. g = h
      BY <1>1, <2>2
    <2> QED BY <1>0, <1>3, <2>1, <2>3 DEF Tidy
  <1> QED BY <1>3, <1>4 DEF MemoryLeaves

\* The DRAM blocks of a segment, those of the segments that are older, the
\* segments that the context policy considers, and how it compares them.
Key(e) == <<Stamp(e), e>>
Crew(e) == memory.segments[memory.ends[e]].members
Herd(e) == Segment(e) \cap mem
Older(e) == {o \in MemoryLeaves : Stamp(o) < Stamp(e)}
Passed(e) == UNION {Herd(o) : o \in Older(e)}
Able == {e \in MemoryLeaves : Cardinality(Passed(e)) < Budget}
Wins(e, o) ==
  \/ Cardinality(up[e]) < Cardinality(up[o])
  \/ /\ Cardinality(up[e]) = Cardinality(up[o])
     /\ \/ Cardinality(Crew(e)) < Cardinality(Crew(o))
        \/ Cardinality(Crew(e)) = Cardinality(Crew(o)) /\ Stamp(e) <= Stamp(o)

\* What the index says of the blocks of a leaf, and that they can be counted.
LEMMA HerdIs ==
  ASSUME CoreInv, MemoryInv, NEW e \in MemoryLeaves
  PROVE  /\ Herd(e) \in SUBSET Hash /\ Herd(e) \subseteq mem
         /\ \A h \in mem : h \in Herd(e) <=> e \in SegmentLeaf(h)
         /\ \A h \in Herd(e) : Seat(memory, h) = e
         /\ Crew(e) = Stamped(memory, Herd(e))
         /\ Cardinality(Crew(e)) \in Nat /\ Cardinality(up[e]) \in Nat
  <1>0. /\ Tidy(up) /\ Matched(memory, up) /\ Sound(memory, {}) /\ InDram(memory) = mem
        /\ Fitting(memory, up) /\ Rooted /\ mem \subseteq Hash
    BY CoreTypes DEF MemoryInv, Matched, TypeOK
  <1>1. /\ e \in Ends(up) /\ e \in Nodes /\ e \in Hash
        /\ \A h \in mem : e \in SegmentLeaf(h) <=> h \in Line(up, e)
    BY LeafIs
  <1>2. Herd(e) = Line(up, e) \cap mem
    BY <1>0, <1>1, OwnShape DEF Herd
  <1>3. \A h \in Herd(e) : Seat(memory, h) = e
    <2> SUFFICES ASSUME NEW h \in Herd(e) PROVE Seat(memory, h) = e
      OBVIOUS
    <2>1. e \in Feet(up, h)
      BY <1>1, <1>2 DEF Feet
    <2> QED BY <1>0, <1>2, <2>1 DEF Fitting
  <1>4. PICK s \in DOMAIN memory.segments : memory.segments[s].endpoint = e /\ memory.ends[e] = s
    BY LeafKeys
  <1>5. Team(memory, s) = Herd(e) /\ memory.segments[s].members = Stamped(memory, Team(memory, s))
    BY <1>0, <1>2, <1>4, SegmentIs DEF Sound, Staffed
  <1>6. Crew(e) = Stamped(memory, Herd(e))
    BY <1>4, <1>5 DEF Crew
  <1>7. IsFiniteSet(Herd(e)) /\ Herd(e) \in SUBSET Hash
    BY <1>0, <1>2, BlocksFinite
  <1>8. IsFiniteSet(Stamped(memory, Herd(e)))
    <2>1. PICK H, T : H = Herd(e) /\ T = Stamped(memory, H)
      OBVIOUS
    <2>2. PICK f : f = [h \in H |-> <<memory.recency[h], h>>]
      OBVIOUS
    <2>3. /\ f \in [H -> T]
          /\ \A a, b \in H : f[a] = f[b] => a = b
          /\ \A k \in T : \E h \in H : f[h] = k
      BY <2>1, <2>2 DEF Stamped
    <2>4. f \in Bijection(H, T)
      BY <2>3 DEF Bijection, Injection, Surjection, IsInjective
    <2> QED BY <1>7, <2>1, <2>4, FS_Bijection DEF ExistsBijection
  <1>9. Cardinality(up[e]) \in Nat
    <2>1. up[e] \in SUBSET Hash
      BY <1>0, <1>1 DEF Tidy
    <2> QED BY <2>1, BlocksFinite
  <1> QED BY <1>0, <1>1, <1>2, <1>3, <1>6, <1>7, <1>8, <1>9, FS_CardinalityType

\* What is counted of the older segments is their blocks, each once.
LEMMA PassedIs ==
  ASSUME CoreInv, MemoryInv, NEW e \in MemoryLeaves, NEW J, J = {Key(o) : o \in Older(e)}
  PROVE  /\ Cardinality(UNION {{j} \X Crew(j[2]) : j \in J}) = Cardinality(Passed(e))
         /\ Cardinality(Passed(e)) \in Nat
  <1>1. PICK H, T : H = Passed(e) /\ T = UNION {{j} \X Crew(j[2]) : j \in J}
    OBVIOUS
  <1>2. \A h : h \in H <=> \E o \in Older(e) : h \in Herd(o)
    BY <1>1 DEF Passed
  <1>3. \A o \in Older(e) : o \in MemoryLeaves
    BY DEF Older
  <1>4. H \in SUBSET Hash
    BY <1>2, <1>3, HerdIs
  <1>5. \A d : d \in T <=> \E j \in J : \E k \in Crew(j[2]) : d = <<j, k>>
    BY <1>1
  <1>6. \A d : d \in T <=> \E o \in Older(e) : \E h \in Herd(o) : d = <<Key(o), <<memory.recency[h], h>>>>
    <2>1. ASSUME NEW d \in T
          PROVE  \E o \in Older(e) : \E h \in Herd(o) : d = <<Key(o), <<memory.recency[h], h>>>>
      <3>1. PICK j \in J : \E k \in Crew(j[2]) : d = <<j, k>>
        BY <1>5
      <3>6. PICK k \in Crew(j[2]) : d = <<j, k>>
        BY <3>1
      <3>2. PICK o \in Older(e) : j = Key(o)
        OBVIOUS
      <3>3. j[2] = o
        BY <3>2 DEF Key
      <3>4. k \in Stamped(memory, Herd(o))
        BY <1>3, <3>3, <3>6, HerdIs
      <3>5. PICK h \in Herd(o) : k = <<memory.recency[h], h>>
        BY <3>4 DEF Stamped
      <3> QED BY <3>2, <3>5, <3>6
    <2>2. ASSUME NEW o \in Older(e), NEW h \in Herd(o), NEW d, d = <<Key(o), <<memory.recency[h], h>>>>
          PROVE  d \in T
      <3>1. PICK j, k : j = Key(o) /\ k = <<memory.recency[h], h>>
        OBVIOUS
      <3>2. j \in J /\ j[2] = o
        BY <3>1 DEF Key
      <3>3. k \in Crew(o)
        <4>1. k \in Stamped(memory, Herd(o))
          BY <3>1 DEF Stamped
        <4> QED BY <1>3, <4>1, HerdIs
      <3> QED BY <1>5, <2>2, <3>1, <3>2, <3>3
    <2> QED BY <2>1, <2>2
  <1>7. PICK f : f = [h \in H |-> <<Key(Seat(memory, h)), <<memory.recency[h], h>>>>]
    OBVIOUS
  <1>8. \A o \in Older(e) : \A h \in Herd(o) :
          h \in H /\ f[h] = <<Key(o), <<memory.recency[h], h>>>> /\ f[h] \in T
    <2> SUFFICES ASSUME NEW o \in Older(e), NEW h \in Herd(o)
                 PROVE  h \in H /\ f[h] = <<Key(o), <<memory.recency[h], h>>>> /\ f[h] \in T
      OBVIOUS
    <2>1. h \in H /\ Seat(memory, h) = o
      BY <1>2, <1>3, HerdIs
    <2>2. f[h] = <<Key(o), <<memory.recency[h], h>>>>
      BY <1>7, <2>1
    <2> QED BY <1>6, <2>1, <2>2
  <1>9. f \in Bijection(H, T)
    <2>1. f \in [H -> T]
      BY <1>2, <1>7, <1>8
    <2>2. \A a, b \in H : f[a] = f[b] => a = b
      <3>1. \A a \in H : f[a][2][2] = a
        BY <1>7
      <3> QED BY <3>1
    <2>3. \A d \in T : \E h \in H : f[h] = d
      BY <1>6, <1>8
    <2> QED BY <2>1, <2>2, <2>3 DEF Bijection, Injection, Surjection, IsInjective
  <1>10. IsFiniteSet(H) /\ Cardinality(H) \in Nat
    BY <1>4, BlocksFinite
  <1>11. Cardinality(T) = Cardinality(H)
    BY <1>9, <1>10, FS_Bijection DEF ExistsBijection
  <1> QED BY <1>1, <1>10, <1>11

\* One of some leaves wins over all of them.
LEMMA WinnerExists ==
  ASSUME CoreInv, MemoryInv, NEW S \in SUBSET MemoryLeaves, S # {}
  PROVE  \E e \in S : /\ \A o \in S : Wins(e, o)
                      /\ \A o \in S : (\A l \in S : Wins(o, l)) => o = e
  <1> DEFINE D(e) == Cardinality(up[e])
             C(e) == Cardinality(Crew(e))
  <1>1. \A e \in S : D(e) \in Nat /\ C(e) \in Nat /\ Stamp(e) \in Nat
    BY HerdIs, SpotsOrdered
  <1>2. \A e, o \in S : Wins(e, o) <=>
          \/ D(e) < D(o)
          \/ D(e) = D(o) /\ (C(e) < C(o) \/ (C(e) = C(o) /\ Stamp(e) <= Stamp(o)))
    BY DEF Wins
  <1>3. \A e, o \in S : Stamp(e) = Stamp(o) => e = o
    BY SpotsOrdered
  <1> HIDE DEF D, C
  <1>4. PICK a \in S : \A o \in S : D(a) <= D(o)
    <2>1. PICK T : T = {D(o) : o \in S}
      OBVIOUS
    <2>2. T \in SUBSET Nat /\ T # {}
      BY <1>1, <2>1
    <2>3. PICK t \in T : \A y \in T : t <= y
      BY <2>2, LeastNatural
    <2> QED BY <2>1, <2>3
  <1>5. PICK b \in S : D(b) = D(a) /\ \A o \in S : D(o) = D(a) => C(b) <= C(o)
    <2>1. PICK T : T = {C(o) : o \in {o \in S : D(o) = D(a)}}
      OBVIOUS
    <2>2. T \in SUBSET Nat /\ T # {}
      BY <1>1, <2>1
    <2>3. PICK t \in T : \A y \in T : t <= y
      BY <2>2, LeastNatural
    <2> QED BY <2>1, <2>3
  <1>6. PICK e \in S : /\ D(e) = D(a) /\ C(e) = C(b)
                       /\ \A o \in S : D(o) = D(a) /\ C(o) = C(b) => Stamp(e) <= Stamp(o)
    <2>1. PICK T : T = {o \in S : D(o) = D(a) /\ C(o) = C(b)}
      OBVIOUS
    <2>2. T \in SUBSET MemoryLeaves /\ T # {}
      BY <1>5, <2>1
    <2>3. PICK e \in T : \A o \in T : Stamp(e) <= Stamp(o)
      BY <2>2, OldestLeaf
    <2> QED BY <2>1, <2>3
  <1>7. ASSUME NEW o \in S PROVE Wins(e, o)
    <2>1. D(e) <= D(o)
      BY <1>4, <1>6
    <2>2. D(o) = D(e) => C(e) <= C(o)
      BY <1>5, <1>6
    <2>3. D(o) = D(e) /\ C(o) = C(e) => Stamp(e) <= Stamp(o)
      BY <1>6
    <2>4. /\ D(e) \in Nat /\ D(o) \in Nat /\ C(e) \in Nat /\ C(o) \in Nat
      BY <1>1
    <2> QED BY <1>2, <2>1, <2>2, <2>3, <2>4
  <1>8. ASSUME NEW o \in S, \A l \in S : Wins(o, l) PROVE o = e
    <2>1. Wins(o, e) /\ Wins(e, o)
      BY <1>7, <1>8
    <2>2. /\ D(e) \in Nat /\ D(o) \in Nat /\ C(e) \in Nat /\ C(o) \in Nat
          /\ Stamp(e) \in Nat /\ Stamp(o) \in Nat
      BY <1>1
    <2>3. Stamp(e) = Stamp(o)
      BY <1>2, <2>1, <2>2
    <2> QED BY <1>3, <2>3
  <1> QED BY <1>7, <1>8

\* With one group, the context policy takes the leaf that wins.
LEMMA ContextVictimIs ==
  ASSUME CoreInv, MemoryInv, memory.groupOf = [h \in Hash |-> 0],
         NEW e \in Able, \A o \in Able : Wins(e, o),
         \A o \in Able : (\A l \in Able : Wins(o, l)) => o = e
  PROVE  MI!ContextVictim(memory, up, Budget) = {e}
  <1> DEFINE K == {k \in memory.groups[0] : MI!Admissible(memory, k[2])}
             Members(k) == memory.segments[memory.ends[k[2]]].members
             Blocks(k) == MI!Cardinality(Members(k))
             Before(k) == {j \in K : MI!Precedes(j, k)} \ {k}
             Covered(k) == MI!Cardinality(UNION {{j} \X Members(j) : j \in Before(k)})
             Considered == {k \in K : Covered(k) < Budget}
             Depth(k) == MI!Cardinality(up[k[2]])
             Better(k, j) ==
               \/ Depth(k) < Depth(j)
               \/ /\ Depth(k) = Depth(j)
                  /\ Blocks(k) < Blocks(j) \/ (Blocks(k) = Blocks(j) /\ MI!Precedes(k, j))
  <1>0. \A S : MI!Cardinality(S) = Cardinality(S)
    BY Zenon DEF MI!Cardinality, Cardinality
  <1>1. MI!ContextVictim(memory, up, Budget)
          = {k[2] : k \in {k \in Considered : \A j \in Considered : Better(k, j)}}
    BY DEF MI!ContextVictim
  <1>2. \A k : k \in K <=> \E o \in MemoryLeaves : k = Key(o)
    <2>1. 0 \in MI!Group
      BY IndexedAssumption DEF MI!Group
    <2>2. ASSUME NEW k \in K PROVE \E o \in MemoryLeaves : k = Key(o)
      BY <2>1, KeysAreLeaves DEF Key
    <2>3. ASSUME NEW o \in MemoryLeaves PROVE Key(o) \in K
      <3>1. PICK s \in DOMAIN memory.segments :
              /\ <<Stamp(o), o>> \in memory.groups[memory.segments[s].group]
              /\ MI!Admissible(memory, o)
        BY LeafKeys
      <3>2. memory.segments[s].group = 0
        <4>1. Zoned(memory)
          BY DEF MemoryInv, Matched, Sound, MemoryType
        <4> QED BY <4>1 DEF Zoned
      <3>3. PICK k : k = Key(o)
        OBVIOUS
      <3>4. k \in memory.groups[0] /\ k[2] = o
        BY <3>1, <3>2, <3>3 DEF Key
      <3> QED BY <3>1, <3>3, <3>4
    <2> QED BY <2>2, <2>3
  <1> HIDE DEF K
  <1>3. \A o : Key(o)[2] = o
    BY DEF Key
  <1>4. ASSUME NEW o \in MemoryLeaves PROVE Before(Key(o)) = {Key(l) : l \in Older(o)}
    <2>1. \A l \in MemoryLeaves : MI!Precedes(Key(l), Key(o)) /\ Key(l) # Key(o) <=> Stamp(l) < Stamp(o)
      <3> SUFFICES ASSUME NEW l \in MemoryLeaves
                   PROVE  MI!Precedes(Key(l), Key(o)) /\ Key(l) # Key(o) <=> Stamp(l) < Stamp(o)
        OBVIOUS
      <3>1. MI!Precedes(Key(l), Key(o)) <=> Stamp(l) <= Stamp(o)
        BY KeysOrdered DEF Key
      <3>2. Stamp(l) \in Nat /\ Stamp(o) \in Nat /\ (Stamp(l) = Stamp(o) => l = o)
        BY SpotsOrdered
      <3>3. Key(l) = Key(o) <=> l = o
        BY <1>3
      <3> QED BY <3>1, <3>2, <3>3
    <2> QED BY <1>2, <2>1 DEF Older
  <1>5. ASSUME NEW o \in MemoryLeaves PROVE Covered(Key(o)) = Cardinality(Passed(o))
    <2>1. PICK J : J = {Key(l) : l \in Older(o)}
      OBVIOUS
    <2>2. Cardinality(UNION {{j} \X Crew(j[2]) : j \in J}) = Cardinality(Passed(o))
      BY <2>1, PassedIs
    <2>3. Before(Key(o)) = J
      BY <1>4, <2>1
    <2> HIDE DEF Before
    <2>4. UNION {{j} \X Members(j) : j \in Before(Key(o))} = UNION {{j} \X Crew(j[2]) : j \in J}
      BY <2>3 DEF Crew
    <2> QED BY <1>0, <2>2, <2>4
  <1> HIDE DEF Covered
  <1>6. \A k : k \in Considered <=> \E o \in Able : k = Key(o)
    BY <1>2, <1>5 DEF Able
  <1>7. \A a, b \in MemoryLeaves : Better(Key(a), Key(b)) <=> Wins(a, b)
    <2> SUFFICES ASSUME NEW a \in MemoryLeaves, NEW b \in MemoryLeaves
                 PROVE  Better(Key(a), Key(b)) <=> Wins(a, b)
      OBVIOUS
    <2>1. /\ Depth(Key(a)) = Cardinality(up[a]) /\ Depth(Key(b)) = Cardinality(up[b])
          /\ Blocks(Key(a)) = Cardinality(Crew(a)) /\ Blocks(Key(b)) = Cardinality(Crew(b))
      BY <1>0, <1>3 DEF Crew
    <2>2. MI!Precedes(Key(a), Key(b)) <=> Stamp(a) <= Stamp(b)
      BY KeysOrdered DEF Key
    <2> QED BY <2>1, <2>2 DEF Wins
  <1> HIDE DEF Considered, Better
  <1>8. \A o \in Able : o \in MemoryLeaves
    BY DEF Able
  <1>9. e \in MI!ContextVictim(memory, up, Budget)
    <2>1. PICK k : k = Key(e)
      OBVIOUS
    <2>2. k \in Considered /\ \A j \in Considered : Better(k, j)
      BY <1>6, <1>7, <1>8, <2>1
    <2>3. k[2] = e
      BY <1>3, <2>1
    <2> QED BY <1>1, <2>2, <2>3
  <1>10. ASSUME NEW o \in MI!ContextVictim(memory, up, Budget) PROVE o = e
    <2>1. PICK k \in Considered : o = k[2] /\ \A j \in Considered : Better(k, j)
      BY <1>1
    <2>2. o \in Able /\ k = Key(o)
      BY <1>3, <1>6, <2>1
    <2>3. \A l \in Able : Wins(o, l)
      BY <1>6, <1>7, <1>8, <2>1, <2>2
    <2> QED BY <2>2, <2>3
  <1> QED BY <1>9, <1>10

\* What that leaf left behind, in the order of the list.
LEMMA WithinBudget ==
  ASSUME CoreInv, MemoryInv
  PROVE  ContextWithinBudget
  <1> DEFINE leaves == {e \in UNION {SegmentLeaf(m) : m \in mem} : Below(e) \cap mem = {}}
             Blocks(e) == Segment(e) \cap mem
             Turn(e) == CHOOSE i \in DOMAIN recency :
                      recency[i] \in Blocks(e) /\ \A j \in 1 .. i - 1 : recency[j] \notin Blocks(e)
  <1>1. SUFFICES ASSUME mem # {}, memory.groupOf = [h \in Hash |-> 0]
                 PROVE  \E e \in leaves :
                          /\ MI!ContextVictim(memory, up, Budget) = {e}
                          /\ Cardinality(UNION {Blocks(o) : o \in {o \in leaves : Turn(o) > Turn(e)}})
                                 < Budget
    BY DEF ContextWithinBudget
  <1>2. leaves = MemoryLeaves
    BY DEF MemoryLeaves
  <1>3. \A e \in MemoryLeaves : Turn(e) = Spot(e)
    <2> SUFFICES ASSUME NEW e \in MemoryLeaves PROVE Turn(e) = Spot(e)
      OBVIOUS
    <2>0. DOMAIN recency = 1 .. Len(recency) /\ Len(recency) \in Nat
          /\ \A i \in DOMAIN recency : recency[i] \in mem
      BY DEF MemoryInv, Listed
    <2>1. \A i \in DOMAIN recency : recency[i] \in Herd(e) <=> e \in SegmentLeaf(recency[i])
      BY <2>0, HerdIs
    <2>2. PICK n : n = Spot(e)
      OBVIOUS
    <2>3. n \in DOMAIN recency /\ e \in SegmentLeaf(recency[n])
      BY <2>0, <2>2, SpotIs
    <2>4. \A j \in 1 .. n - 1 : e \notin SegmentLeaf(recency[j])
      <3> SUFFICES ASSUME NEW j \in 1 .. n - 1, e \in SegmentLeaf(recency[j]) PROVE FALSE
        OBVIOUS
      <3>1. j \in DOMAIN recency /\ j < n
        BY <2>0, <2>3
      <3>2. memory.recency[recency[j]] <= Stamp(e)
        BY <2>0, <3>1, SpotIs
      <3>3. memory.recency[recency[j]] > memory.recency[recency[n]]
        BY <2>0, <2>3, <3>1 DEF MemoryInv, InOrder
      <3>4. memory.recency[recency[j]] \in Nat /\ memory.recency[recency[n]] \in Nat
        <4>1. recency[j] \in Hash /\ recency[n] \in Hash
          BY <2>0, <2>3, <3>1 DEF MemoryInv, Listed
        <4> QED BY <4>1, MemoryClock
      <3> QED BY <2>2, <3>2, <3>3, <3>4 DEF Stamp
    <2>5. /\ recency[n] \in Blocks(e) /\ \A j \in 1 .. n - 1 : recency[j] \notin Blocks(e)
      <3>1. \A j \in 1 .. n - 1 : j \in DOMAIN recency
        BY <2>0, <2>3
      <3> QED BY <2>1, <2>3, <2>4, <3>1 DEF Herd
    <2> HIDE DEF Blocks
    <2>6. PICK r : r = Turn(e)
      OBVIOUS
    <2>7. r \in DOMAIN recency /\ recency[r] \in Blocks(e) /\ \A j \in 1 .. r - 1 : recency[j] \notin Blocks(e)
      BY <2>3, <2>5, <2>6, Zenon
    <2>8. r \in Nat /\ n \in Nat /\ r >= 1 /\ n >= 1
      BY <2>0, <2>3, <2>7
    <2>9. ~(r < n) /\ ~(n < r)
      BY <2>5, <2>7, <2>8
    <2>10. r = n
      BY <2>8, <2>9
    <2> QED BY <2>2, <2>6, <2>10
  <1> HIDE DEF Turn
  <1>4. Able # {}
    <2>1. PICK e \in MemoryLeaves : \A o \in MemoryLeaves : Stamp(e) <= Stamp(o)
      BY <1>1, LeavesExist, OldestLeaf
    <2>2. Older(e) = {}
      <3> SUFFICES ASSUME NEW o \in MemoryLeaves, Stamp(o) < Stamp(e) PROVE FALSE
        BY DEF Older
      <3>1. Stamp(e) \in Nat /\ Stamp(o) \in Nat /\ Stamp(e) <= Stamp(o)
        BY <2>1, SpotsOrdered
      <3> QED BY <3>1
    <2>3. Passed(e) = {}
      BY <2>2 DEF Passed
    <2>4. Cardinality(Passed(e)) = 0
      BY <2>3, FS_EmptySet
    <2> QED BY <2>4, IndexedAssumption DEF Able
  <1>5. PICK e \in Able : /\ \A o \in Able : Wins(e, o)
                          /\ \A o \in Able : (\A l \in Able : Wins(o, l)) => o = e
    <2>1. Able \in SUBSET MemoryLeaves
      BY DEF Able
    <2> QED BY <1>4, <2>1, WinnerExists
  <1>6. MI!ContextVictim(memory, up, Budget) = {e}
    BY <1>1, <1>5, ContextVictimIs
  <1>7. e \in MemoryLeaves /\ Cardinality(Passed(e)) < Budget
    BY DEF Able
  <1>8. UNION {Blocks(o) : o \in {o \in leaves : Turn(o) > Turn(e)}} = Passed(e)
    <2>1. {o \in leaves : Turn(o) > Turn(e)} = Older(e)
      <3> SUFFICES ASSUME NEW o \in MemoryLeaves PROVE Turn(o) > Turn(e) <=> Stamp(o) < Stamp(e)
        BY <1>2 DEF Older
      <3>1. /\ Stamp(e) \in Nat /\ Stamp(o) \in Nat /\ Spot(e) \in Nat /\ Spot(o) \in Nat
            /\ Spot(o) <= Spot(e) <=> Stamp(e) <= Stamp(o)
        BY <1>7, SpotsOrdered
      <3> QED BY <1>3, <1>7, <3>1
    <2> QED BY <2>1 DEF Passed, Herd
  <1> HIDE DEF leaves, Blocks
  <1> QED BY <1>2, <1>6, <1>7, <1>8

\* Under one group, the context policy's victim is a segment with nothing in DRAM
\* below it, and the blocks of the colder such segments that it passes over are
\* less than its budget.
THEOREM ContextStaysWithinBudget == IndexedSpec => []ContextWithinBudget
  <1>1. CoreInv /\ MemoryInv => ContextWithinBudget
    BY WithinBudget
  <1> QED BY <1>1, MemoryInvariance, PTL
=============================================================================
