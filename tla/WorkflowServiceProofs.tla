------------------------ MODULE WorkflowServiceProofs ------------------------
(***************************************************************************)
(* What the workflow service promises: that validation accepts what can be *)
(* run and refuses no layered graph, for any nodes and edges, and that     *)
(* saving stores what was sent and leaves an archived workflow archived.   *)
(***************************************************************************)
EXTENDS ServiceProofs

-----------------------------------------------------------------------------
(* Validation: orders of the nodes.                                        *)

N == Cardinality(Nodes)

LEMMA NodesAreCounted == Graph!Cardinality(Nodes) = N /\ N \in Nat /\ IsFiniteSet(Nodes)
<1>1. Graph!Cardinality(Nodes) = N
      BY DEF Graph!Cardinality, Cardinality, N
<1>2. QED
      BY <1>1, GraphAssumption, FS_CardinalityType DEF N

LEMMA LeastNatural ==
  ASSUME NEW T, T \subseteq Nat, T # {}
  PROVE  \E x \in T : \A y \in T : x <= y
<1> DEFINE R == OpToRel(<, Nat)
<1>1. IsWellFoundedOn(R, Nat)
      BY NatLessThanWellFounded
<1>2. \A x, y \in Nat : y < x => <<y, x>> \in R
      BY DEF OpToRel
<1> HIDE DEF R
<1>3. PICK x \in T : \A y \in T : <<y, x>> \notin R
      BY <1>1, WFMin
<1>4. \A y \in T : x <= y
      <2> SUFFICES ASSUME NEW y \in T PROVE x <= y
          OBVIOUS
      <2>1. x \in Nat /\ y \in Nat /\ ~(y < x)
            BY <1>2, <1>3
      <2>2. QED
            BY <2>1
<1>5. QED
      BY <1>4

\* A topological order has every node.
LEMMA OrderHasAll ==
  ASSUME NEW E, NEW s \in Graph!TopSort(E)
  PROVE  /\ s \in [1 .. N -> Nodes] /\ \A n \in Nodes : \E i \in 1 .. N : s[i] = n
         /\ \A i, j \in 1 .. N : s[i] = s[j] => i = j
         /\ \A i, j \in 1 .. N : <<s[i], s[j]>> \in E => i < j
<1>1. /\ s \in [1 .. N -> Nodes]
      /\ \A i, j \in 1 .. N : s[i] = s[j] => i = j
      /\ \A i, j \in 1 .. N : <<s[i], s[j]>> \in E => i < j
      BY NodesAreCounted DEF Graph!TopSort
<1>2. s \in Injection(1 .. N, Nodes)
      BY <1>1 DEF Injection, IsInjective
<1>3. Cardinality(1 .. N) = N
      BY NodesAreCounted, FS_Interval
<1>4. s \in Surjection(1 .. N, Nodes)
      BY <1>2, <1>3, NodesAreCounted, FS_Injection DEF N
<1>5. QED
      BY <1>1, <1>4 DEF Surjection

\* A graph with a topological order has no cycle: of any nodes, the first in
\* the order has no parent among them.
LEMMA SortedIsAcyclic ==
  ASSUME NEW s \in Graph!TopSort(edges)
  PROVE  Graph!Acyclic
<1> SUFFICES ASSUME NEW S \in SUBSET Nodes, S # {}
             PROVE  \E n \in S : \A m \in S : <<m, n>> \notin edges
    BY DEF Graph!Acyclic
<1> DEFINE T == {i \in 1 .. N : s[i] \in S}
<1>1. T \subseteq Nat /\ T # {}
      BY NodesAreCounted, OrderHasAll
<1>2. PICK i \in T : \A j \in T : i <= j
      BY <1>1, LeastNatural
<1>3. ASSUME NEW m \in S, <<m, s[i]>> \in edges PROVE FALSE
      <2>1. PICK j \in 1 .. N : s[j] = m
            BY OrderHasAll
      <2>2. j < i
            BY <1>2, <1>3, <2>1, OrderHasAll
      <2>3. i <= j
            BY <1>2, <2>1
      <2>4. i \in Nat /\ j \in Nat
            BY NodesAreCounted
      <2>5. QED
            BY <2>2, <2>3, <2>4
<1>4. QED
      BY <1>2, <1>3

\* The distances of the nodes from the roots.
Ranks(rank) ==
  /\ rank \in [Nodes -> 0 .. N - 1]
  /\ \A e \in edges : rank[e[2]] = rank[e[1]] + 1
  /\ \A n \in Nodes : (\A e \in edges : e[2] # n) => rank[n] = 0

\* A layered graph can be sorted: by rank, and within a rank in any way.
LEMMA LayeredIsSortable ==
  ASSUME Graph!KnownEnds, edges \subseteq (Nodes \cup {Unknown}) \X (Nodes \cup {Unknown}),
         NEW rank, Ranks(rank)
  PROVE  Graph!TopSort(edges) # {}
<1>n. N \in Nat /\ IsFiniteSet(Nodes) /\ Graph!Cardinality(Nodes) = N
      BY NodesAreCounted
<1>r. \A n \in Nodes : rank[n] \in Nat
      BY <1>n DEF Ranks
<1>1. PICK b : b \in [Nodes -> Nat] /\ \A m, n \in Nodes : b[m] = b[n] => m = n
      <2>1. ExistsBijection(1 .. N, Nodes)
            BY <1>n, FS_CardinalityType DEF N
      <2>2. PICK f : f \in Bijection(1 .. N, Nodes)
            BY <2>1 DEF ExistsBijection
      <2>3. f \in [1 .. N -> Nodes] /\ \A n \in Nodes : \E i \in 1 .. N : f[i] = n
            BY <2>2 DEF Bijection, Surjection
      <2> DEFINE b == [n \in Nodes |-> CHOOSE i \in 1 .. N : f[i] = n]
      <2>4. \A n \in Nodes : b[n] \in 1 .. N /\ f[b[n]] = n
            BY <2>3
      <2>5. b \in [Nodes -> Nat]
            BY <1>n, <2>4
      <2> HIDE DEF b
      <2>6. QED
            BY <2>4, <2>5
<1> DEFINE Less(m, n) == rank[m] < rank[n] \/ (rank[m] = rank[n] /\ b[m] < b[n])
           UpTo(n) == {m \in Nodes : m = n \/ Less(m, n)}
           pos == [n \in Nodes |-> Cardinality(UpTo(n))]
<1>2. \A m, n \in Nodes : m = n \/ Less(m, n) \/ Less(n, m)
      BY <1>r, <1>1
<1>3. \A m, n \in Nodes : ~(Less(m, n) /\ Less(n, m)) /\ ~Less(n, n)
      BY <1>r, <1>1
<1>4. \A k, m, n \in Nodes : Less(k, m) /\ Less(m, n) => Less(k, n)
      BY <1>r, <1>1
<1> HIDE DEF Less
<1>5. ASSUME NEW n \in Nodes PROVE pos[n] \in 1 .. N
      <2>1. UpTo(n) \in SUBSET Nodes /\ n \in UpTo(n)
            OBVIOUS
      <2> HIDE DEF UpTo
      <2>2. IsFiniteSet(UpTo(n)) /\ Cardinality(UpTo(n)) <= N
            BY <1>n, <2>1, FS_Subset DEF N
      <2>3. Cardinality(UpTo(n)) \in Nat /\ Cardinality(UpTo(n)) # 0
            BY <2>1, <2>2, FS_CardinalityType, FS_EmptySet
      <2>4. pos[n] = Cardinality(UpTo(n))
            OBVIOUS
      <2> HIDE DEF pos
      <2>5. QED
            BY <1>n, <2>2, <2>3, <2>4
<1>6. ASSUME NEW m \in Nodes, NEW n \in Nodes, Less(m, n) PROVE pos[m] < pos[n]
      <2>1. UpTo(m) \in SUBSET UpTo(n) /\ n \in UpTo(n) /\ n \notin UpTo(m)
            BY <1>3, <1>4, <1>6
      <2>2. UpTo(n) \in SUBSET Nodes
            OBVIOUS
      <2>3. pos[m] = Cardinality(UpTo(m)) /\ pos[n] = Cardinality(UpTo(n))
            OBVIOUS
      <2> HIDE DEF UpTo, pos
      <2>4. IsFiniteSet(UpTo(n))
            BY <1>n, <2>2, FS_Subset
      <2>5. /\ Cardinality(UpTo(m)) <= Cardinality(UpTo(n))
            /\ Cardinality(UpTo(n)) = Cardinality(UpTo(m)) => UpTo(n) = UpTo(m)
            BY <2>1, <2>4, FS_Subset
      <2>6. pos[m] \in 1 .. N /\ pos[n] \in 1 .. N
            BY <1>5
      <2>7. pos[m] <= pos[n] /\ pos[m] # pos[n]
            BY <2>1, <2>3, <2>5
      <2>8. QED
            BY <1>n, <2>6, <2>7
<1>7. pos \in Injection(Nodes, 1 .. N)
      <2>1. pos \in [Nodes -> 1 .. N]
            BY <1>5
      <2>2. ASSUME NEW m \in Nodes, NEW n \in Nodes, pos[m] = pos[n] PROVE m = n
            <3>1. pos[m] \in Nat
                  BY <1>n, <1>5
            <3> HIDE DEF pos
            <3>2. ~Less(m, n) /\ ~Less(n, m)
                  BY <1>6, <2>2, <3>1
            <3>3. QED
                  BY <1>2, <3>2
      <2> HIDE DEF pos
      <2>3. QED
            BY <2>1, <2>2 DEF Injection, IsInjective
<1> HIDE DEF pos
<1>8. pos \in Surjection(Nodes, 1 .. N)
      <2>1. IsFiniteSet(1 .. N) /\ Cardinality(1 .. N) = N
            BY <1>n, FS_Interval
      <2>2. QED
            BY <1>7, <2>1, FS_Injection DEF N
<1> DEFINE s == [i \in 1 .. N |-> CHOOSE n \in Nodes : pos[n] = i]
<1>9. \A i \in 1 .. N : s[i] \in Nodes /\ pos[s[i]] = i
      BY <1>8 DEF Surjection
<1>10. s \in [1 .. N -> Nodes]
      BY <1>9
<1> HIDE DEF s
<1>11. \A i, j \in 1 .. N : s[i] = s[j] => i = j
      BY <1>9
<1>12. ASSUME NEW i \in 1 .. N, NEW j \in 1 .. N, <<s[i], s[j]>> \in edges PROVE i < j
      <2>1. rank[s[j]] = rank[s[i]] + 1
            BY <1>12 DEF Ranks
      <2>2. rank[s[i]] \in Nat /\ rank[s[j]] \in Nat
            BY <1>9, <1>r
      <2>3. Less(s[i], s[j])
            BY <2>1, <2>2 DEF Less
      <2>4. QED
            BY <1>6, <1>9, <2>3
<1>13. s \in Graph!TopSort(edges)
      BY <1>n, <1>10, <1>11, <1>12 DEF Graph!TopSort
<1>14. QED
      BY <1>13

-----------------------------------------------------------------------------
(* Validation: the walk along the order.                                   *)

LEMMA GraphSteps ==
  [ServicesNext]_servicesVars => [Graph!Next]_graphVars
BY DEF ServicesNext, servicesVars, Others, Rest, Parts

Ends == Nodes \cup {Unknown}

GraphType ==
  /\ edges \subseteq Ends \X Ends
  /\ verdict \in {"none", "invalid edge", "cycle detected", "invalid relationship", "valid"}
  /\ DOMAIN level \subseteq Nodes
  /\ \/ order = <<>> /\ at = 0 /\ DOMAIN level = {}
     \/ order # <<>> /\ order \in Graph!TopSort(edges) /\ at \in 0 .. N /\ Graph!KnownEnds

\* The nodes that have been visited have levels, and so have their children.
Visited ==
  \A i \in 1 .. at : {order[i]} \cup Graph!children(order[i]) \subseteq DOMAIN level

\* No level is larger than the number of nodes before it in the order.
LevelsFit ==
  order # <<>> => \A i \in 1 .. N : order[i] \in DOMAIN level => level[order[i]] \in 0 .. i - 1

\* In a layered graph the levels are the ranks, and so no two are at odds.
LevelsAreRanks ==
  \A rank \in [Nodes -> 0 .. N - 1] : Ranks(rank) =>
    verdict # "invalid relationship" /\ \A n \in DOMAIN level : level[n] = rank[n]

Verdicts ==
  /\ verdict = "valid" => order # <<>> /\ at = N
  /\ verdict = "invalid edge" => ~Graph!KnownEnds
  /\ verdict = "cycle detected" => Graph!TopSort(edges) = {}

GraphInv == GraphType /\ Visited /\ LevelsFit /\ LevelsAreRanks /\ Verdicts

LEMMA GraphInit == Graph!Init => GraphInv
<1> SUFFICES ASSUME Graph!Init PROVE GraphInv
    OBVIOUS
<1>1. order = <<>> /\ at = 0 /\ level = <<>> /\ verdict = "none"
      BY DEF Graph!Init
<1>2. DOMAIN level = {}
      BY <1>1
<1>3. edges \subseteq Ends \X Ends
      <2>1. PICK E \in SUBSET (Nodes \X Nodes), n \in Nodes : edges \in {E, E \cup {<<n, Unknown>>}}
            BY DEF Graph!Init
      <2>2. <<n, Unknown>> \in Ends \X Ends /\ E \subseteq Ends \X Ends
            BY DEF Ends
      <2>3. QED
            BY <2>1, <2>2
<1>4. QED
      BY <1>1, <1>2, <1>3 DEF GraphInv, GraphType, Visited, LevelsFit, LevelsAreRanks, Verdicts

\* The level the walk gives to a node without one is that of a root, which it
\* is when the graph is layered: all parents come before it.
LEMMA UnvisitedIsRoot ==
  ASSUME GraphInv, order # <<>>, at < N, order[at + 1] \notin DOMAIN level
  PROVE  \A e \in edges : e[2] # order[at + 1]
<1> SUFFICES ASSUME NEW e \in edges, e[2] = order[at + 1] PROVE FALSE
    OBVIOUS
<1>t. N \in Nat /\ at \in 0 .. N /\ order \in Graph!TopSort(edges) /\ Graph!KnownEnds
      BY NodesAreCounted DEF GraphInv, GraphType
<1>1. at + 1 \in 1 .. N
      BY <1>t
<1>2. e = <<e[1], e[2]>> /\ e[1] \in Nodes /\ e[2] \in Nodes
      <2>1. e \in Ends \X Ends
            BY DEF GraphInv, GraphType
      <2>2. {e[1], e[2]} \subseteq Nodes
            BY <1>t DEF Graph!KnownEnds
      <2>3. QED
            BY <2>1, <2>2
<1>3. PICK i \in 1 .. N : order[i] = e[1]
      BY <1>t, <1>2, OrderHasAll
<1>4. <<order[i], order[at + 1]>> \in edges
      BY <1>2, <1>3
<1>5. i < at + 1
      BY <1>t, <1>1, <1>4, OrderHasAll
<1>6. i \in 1 .. at
      BY <1>t, <1>5
<1>7. order[at + 1] \in Graph!children(order[i])
      BY <1>2, <1>4 DEF Graph!children
<1>8. QED
      BY <1>6, <1>7 DEF GraphInv, Visited

LEMMA VisitStep ==
  ASSUME GraphInv, Graph!Visit
  PROVE  GraphInv'
<1>t. /\ N \in Nat /\ at \in 0 .. N /\ order \in Graph!TopSort(edges) /\ Graph!KnownEnds
      /\ verdict = "none" /\ order # <<>>
      BY NodesAreCounted DEF GraphInv, GraphType, Graph!Visit
<1>o. /\ order \in [1 .. N -> Nodes]
      /\ \A i, j \in 1 .. N : order[i] = order[j] => i = j
      /\ \A i, j \in 1 .. N : <<order[i], order[j]>> \in edges => i < j
      BY <1>t, OrderHasAll
<1>0. at < N /\ at + 1 \in 1 .. N
      <2>1. Len(order) = N
            BY <1>t, <1>o
      <2>2. at < Len(order)
            BY DEF Graph!Visit
      <2>3. QED
            BY <1>t, <2>1, <2>2
<1> DEFINE n == order[at + 1]
           parentLevel == IF n \in DOMAIN level THEN level[n] ELSE 0
<1>1. n \in Nodes /\ UNCHANGED <<edges, order>>
      BY <1>0, <1>o DEF Graph!Visit
<1>2. parentLevel \in 0 .. at
      <2>1. CASE n \in DOMAIN level
            <3>1. level[n] \in 0 .. (at + 1) - 1
                  BY <1>0, <1>t, <2>1 DEF GraphInv, LevelsFit
            <3>2. QED
                  BY <1>t, <2>1, <3>1
      <2>2. CASE n \notin DOMAIN level
            BY <1>t, <2>2
      <2>3. QED
            BY <2>1, <2>2
<1>3. ASSUME NEW rank \in [Nodes -> 0 .. N - 1], Ranks(rank)
      PROVE  /\ parentLevel = rank[n]
             /\ \A c \in Graph!children(n) : rank[c] = rank[n] + 1
             /\ \A m \in DOMAIN level : level[m] = rank[m]
      <2>1. \A m \in DOMAIN level : level[m] = rank[m]
            BY <1>3 DEF GraphInv, LevelsAreRanks
      <2>2. n \notin DOMAIN level => rank[n] = 0
            BY <1>0, <1>1, <1>3, <1>t, UnvisitedIsRoot DEF Ranks
      <2>3. \A c \in Graph!children(n) : rank[c] = rank[n] + 1
            BY <1>3 DEF Graph!children, Ranks
      <2>4. QED
            BY <2>1, <2>2, <2>3
<1> HIDE DEF n, parentLevel
<1>4. CASE /\ \E c \in Graph!children(n) \cap DOMAIN level :
                Graph!invalidLevel(parentLevel, level[c])
           /\ verdict' = "invalid relationship" /\ UNCHANGED <<at, level>>
      <2>1. ASSUME NEW rank \in [Nodes -> 0 .. N - 1], Ranks(rank) PROVE FALSE
            <3>1. PICK c \in Graph!children(n) \cap DOMAIN level :
                     Graph!invalidLevel(parentLevel, level[c])
                  BY <1>4
            <3>2. level[c] = parentLevel + 1
                  BY <1>3, <2>1
            <3>3. parentLevel >= level[c]
                  BY <3>1 DEF Graph!invalidLevel
            <3>4. QED
                  BY <1>2, <3>2, <3>3
      <2>2. LevelsAreRanks'
            BY <1>1, <2>1 DEF LevelsAreRanks, Ranks
      <2>3. GraphType'
            BY <1>1, <1>4, <1>t DEF GraphInv, GraphType, Graph!KnownEnds
      <2>4. Visited'
            BY <1>1, <1>4 DEF GraphInv, Visited, Graph!children
      <2>5. LevelsFit'
            BY <1>1, <1>4 DEF GraphInv, LevelsFit
      <2>6. QED
            BY <1>4, <2>2, <2>3, <2>4, <2>5 DEF GraphInv, Verdicts
<1>5. CASE /\ level' = [m \in DOMAIN level \cup {n} \cup Graph!children(n) |->
                          IF m \in Graph!children(n) THEN Graph!childLevel(parentLevel)
                          ELSE IF m = n THEN parentLevel ELSE level[m]]
           /\ at' = at + 1 /\ UNCHANGED verdict
      <2>1. DOMAIN level' = DOMAIN level \cup {n} \cup Graph!children(n)
            BY <1>5
      <2>2. \A m \in DOMAIN level' :
               /\ m \in Graph!children(n) => level'[m] = parentLevel + 1
               /\ m \notin Graph!children(n) /\ m = n => level'[m] = parentLevel
               /\ m \notin Graph!children(n) /\ m # n => m \in DOMAIN level /\ level'[m] = level[m]
            BY <1>5, <2>1 DEF Graph!childLevel
      <2>3. at' \in 0 .. N
            BY <1>0, <1>5, <1>t
      <2>4. GraphType'
            <3>1. DOMAIN level' \subseteq Nodes
                  BY <1>1, <2>1 DEF GraphInv, GraphType, Graph!children
            <3>2. QED
                  BY <1>1, <1>5, <1>t, <2>3, <3>1 DEF GraphInv, GraphType, Graph!KnownEnds
      <2>5. Visited'
            <3> SUFFICES ASSUME NEW i \in 1 .. at'
                         PROVE  {order[i]} \cup Graph!children(order[i]) \subseteq DOMAIN level'
                BY <1>1 DEF Visited, Graph!children
            <3>1. i \in 1 .. at \/ i = at + 1
                  BY <1>5, <1>t
            <3>2. QED
                  BY <2>1, <3>1 DEF GraphInv, Visited, n
      <2>6. LevelsFit'
            <3> SUFFICES ASSUME NEW i \in 1 .. N, order[i] \in DOMAIN level'
                         PROVE  level'[order[i]] \in 0 .. i - 1
                BY <1>1 DEF LevelsFit
            <3>1. CASE order[i] \in Graph!children(n)
                  <4>1. at + 1 < i
                        BY <1>0, <1>o, <3>1 DEF Graph!children, n
                  <4>2. level'[order[i]] = parentLevel + 1
                        BY <2>2, <3>1
                  <4>3. QED
                        BY <1>2, <1>t, <4>1, <4>2
            <3>2. CASE order[i] \notin Graph!children(n) /\ order[i] = n
                  <4>1. i = at + 1
                        BY <1>0, <1>o, <3>2 DEF n
                  <4>2. level'[order[i]] = parentLevel
                        BY <2>2, <3>2
                  <4>3. QED
                        BY <1>2, <1>t, <4>1, <4>2
            <3>3. CASE order[i] \notin Graph!children(n) /\ order[i] # n
                  BY <1>t, <2>2, <3>3 DEF GraphInv, LevelsFit
            <3>4. QED
                  BY <3>1, <3>2, <3>3
      <2>7. LevelsAreRanks'
            <3> SUFFICES ASSUME NEW rank \in [Nodes -> 0 .. N - 1], Ranks(rank)
                         PROVE  \A m \in DOMAIN level' : level'[m] = rank[m]
                BY <1>1, <1>5, <1>t DEF LevelsAreRanks, Ranks
            <3>1. QED
                  BY <1>3, <2>2
      <2>8. QED
            BY <1>5, <1>t, <2>4, <2>5, <2>6, <2>7 DEF GraphInv, Verdicts
<1>6. QED
      BY <1>4, <1>5 DEF Graph!Visit, Graph!Return, n, parentLevel

LEMMA GraphStep ==
  ASSUME GraphInv, [Graph!Next]_graphVars
  PROVE  GraphInv'
<1>t. N \in Nat
      BY NodesAreCounted
<1>1. CASE Graph!InvalidEdge \/ Graph!Accept \/ UNCHANGED graphVars
      <2>1. UNCHANGED <<edges, order, at, level>> /\ verdict' \in {verdict, "invalid edge", "valid"}
            BY <1>1 DEF Graph!InvalidEdge, Graph!Accept, Graph!Return, graphVars
      <2>2. GraphType' /\ Visited' /\ LevelsFit' /\ LevelsAreRanks'
            BY <2>1 DEF GraphInv, GraphType, Visited, LevelsFit, LevelsAreRanks, Ranks, Graph!KnownEnds,
               Graph!children
      <2>3. verdict' = "valid" => order # <<>> /\ at = N
            <3>1. order # <<>> => Len(order) = N
                  <4>1. order # <<>> => order \in [1 .. N -> Nodes]
                        BY OrderHasAll DEF GraphInv, GraphType
                  <4>2. QED
                        BY <1>t, <4>1
            <3>2. QED
                  BY <1>1, <3>1 DEF Graph!InvalidEdge, Graph!Accept, Graph!Return, graphVars, GraphInv,
                     Verdicts
      <2>4. verdict' = "invalid edge" => ~Graph!KnownEnds
            BY <1>1 DEF Graph!InvalidEdge, Graph!Accept, Graph!Return, graphVars, GraphInv, Verdicts
      <2>5. Verdicts'
            BY <2>1, <2>3, <2>4 DEF GraphInv, Verdicts, Graph!KnownEnds
      <2>6. QED
            BY <2>2, <2>5 DEF GraphInv
<1>2. CASE Graph!Sort
      <2>1. /\ order = <<>> /\ at = 0 /\ DOMAIN level = {} /\ verdict = "none"
            /\ UNCHANGED <<edges, at, level>> /\ Graph!KnownEnds
            /\ \/ Graph!TopSort(edges) = {} /\ verdict' = "cycle detected" /\ UNCHANGED order
               \/ order' \in Graph!TopSort(edges) /\ UNCHANGED verdict
            BY <1>2 DEF Graph!Sort, Graph!Return, GraphInv, GraphType
      <2>2. GraphType'
            <3>1. at = 0 /\ 0 \in 0 .. N
                  <4>1. 0 \in 0 .. N
                        BY <1>t
                  <4>2. QED
                        BY <2>1, <4>1
            <3>2. Graph!KnownEnds'
                  BY <2>1 DEF Graph!KnownEnds
            <3>3. QED
                  BY <2>1, <3>1, <3>2 DEF GraphInv, GraphType
      <2>3. Visited' /\ LevelsFit'
            <3>1. 1 .. at' = {} /\ DOMAIN level' = {}
                  <4>1. at' = 0 /\ DOMAIN level' = {}
                        BY <2>1
                  <4>2. 1 .. 0 = {}
                        OBVIOUS
                  <4>3. QED
                        BY <4>1, <4>2
            <3>2. QED
                  BY <3>1 DEF Visited, LevelsFit
      <2>4. LevelsAreRanks' /\ Verdicts'
            <3>1. DOMAIN level' = {} /\ verdict' \in {"none", "cycle detected"}
                  BY <2>1
            <3>2. verdict' = "cycle detected" => Graph!TopSort(edges)' = {}
                  BY <2>1
            <3>3. QED
                  BY <3>1, <3>2 DEF LevelsAreRanks, Verdicts
      <2>5. QED
            BY <2>2, <2>3, <2>4 DEF GraphInv
<1>3. CASE Graph!Visit
      BY <1>3, VisitStep
<1>4. QED
      BY <1>1, <1>2, <1>3 DEF Graph!Next

LEMMA VerdictsAreRight == GraphInv => Graph!AcceptedIsRunnable /\ Graph!LayeredIsAccepted
<1> SUFFICES ASSUME GraphInv PROVE Graph!AcceptedIsRunnable /\ Graph!LayeredIsAccepted
    OBVIOUS
<1>1. verdict = "valid" =>
         Graph!KnownEnds /\ order \in Graph!TopSort(edges) /\ order # <<>> /\ at = N
      BY DEF GraphInv, GraphType, Verdicts
<1>2. Graph!AcceptedIsRunnable
      BY <1>1, SortedIsAcyclic DEF Graph!AcceptedIsRunnable
<1>3. ASSUME verdict # "none", Graph!KnownEnds, Graph!Layered
      PROVE  /\ verdict = "valid"
             /\ \A e \in edges : level[e[2]] = level[e[1]] + 1
      <2>1. PICK rank \in [Nodes -> 0 .. N - 1] : Ranks(rank)
            BY <1>3, NodesAreCounted DEF Graph!Layered, Ranks
      <2>2. Graph!TopSort(edges) # {}
            BY <1>3, <2>1, LayeredIsSortable DEF GraphInv, GraphType, Ends
      <2>3. verdict = "valid"
            BY <1>3, <2>1, <2>2 DEF GraphInv, GraphType, Verdicts, LevelsAreRanks
      <2>4. \A n \in Nodes : n \in DOMAIN level
            BY <1>1, <2>3, OrderHasAll DEF GraphInv, Visited
      <2>5. \A e \in edges : e[1] \in Nodes /\ e[2] \in Nodes
            BY <1>3 DEF Graph!KnownEnds
      <2>6. \A n \in Nodes : level[n] = rank[n]
            BY <2>1, <2>4 DEF GraphInv, LevelsAreRanks
      <2>7. QED
            BY <2>1, <2>3, <2>5, <2>6 DEF Ranks
<1>4. QED
      BY <1>2, <1>3 DEF Graph!LayeredIsAccepted

\* ValidateWorkflowGraph accepts no graph with a cycle or with an edge that
\* leads nowhere, and accepts every layered one, with the distances from the
\* roots as levels, whichever order graph.TopSort returns.
THEOREM ValidationDecides == ServicesSpec => []ValidationIsExact
<1>1. ServicesInit => GraphInv
      BY GraphInit DEF ServicesInit
<1>2. GraphInv /\ [ServicesNext]_servicesVars => GraphInv'
      BY GraphSteps, GraphStep
<1>3. GraphInv => ValidationIsExact
      BY VerdictsAreRight DEF ValidationIsExact
<1>4. QED
      BY <1>1, <1>2, <1>3, PTL DEF ServicesSpec

-----------------------------------------------------------------------------
(* Saving: sets of nodes.                                                  *)

UniqueIds(S) == \A m, n \in S : m.id = n.id => m = n

OfKind(S, category, config) == {n \in S : n.category = category /\ n.config = config}

LEMMA SameCardinality == \A S : Save!Cardinality(S) = Cardinality(S)
BY DEF Save!Cardinality, Cardinality

LEMMA SaveNumbers == MaxWorkflows \in Nat /\ MaxNodeId \in Nat /\ MaxSaves \in Nat /\ MaxEdits \in Nat
BY SaveAssumption

LEMMA NodesAreFinite ==
  ASSUME NEW S \in SUBSET Save!Node, UniqueIds(S)
  PROVE  IsFiniteSet(S) /\ Cardinality(S) \in Nat
<1> DEFINE T == NewIds \cup Save!RowIds
           f == [n \in S |-> n.id]
<1>1. IsFiniteSet(T)
      <2>1. IsFiniteSet(Save!RowIds) /\ IsFiniteSet(NewIds)
            BY SaveAssumption, SaveNumbers, FS_Interval DEF Save!RowIds
      <2>2. QED
            BY <2>1, FS_Union
<1>2. f \in [S -> T]
      BY DEF Save!Node
<1> HIDE DEF T
<1>3. f \in Injection(S, T)
      BY <1>2 DEF UniqueIds, Injection, IsInjective
<1> HIDE DEF f
<1>4. QED
      BY <1>1, <1>3, FS_Injection, FS_CardinalityType

\* The rows for new nodes: each node with a new id.
LEMMA RowsForNodes ==
  ASSUME NEW S \in SUBSET Save!Node, UniqueIds(S), lastNodeId \in Nat
  PROVE  \E h : /\ Save!NewRows(S) = {h[n] : n \in S}
                /\ \A n \in S : \E x \in (lastNodeId + 1) .. (lastNodeId + Cardinality(S)) :
                                  h[n] = [n EXCEPT !.id = x]
                /\ \A m, n \in S : h[m].id = h[n].id => m = n
<1> DEFINE c == Cardinality(S)
           ids == (lastNodeId + 1) .. (lastNodeId + c)
           Inj(f) == f \in [ids -> S] /\ \A x, y \in ids : f[x] = f[y] => x = y
<1>1. IsFiniteSet(S) /\ c \in Nat
      BY NodesAreFinite
<1>2. \E f : Inj(f)
      <2>1. PICK g : g \in Bijection(1 .. c, S)
            BY <1>1, FS_CardinalityType DEF ExistsBijection
      <2>2. g \in [1 .. c -> S] /\ \A i, j \in 1 .. c : g[i] = g[j] => i = j
            BY <2>1 DEF Bijection, Injection, IsInjective
      <2> DEFINE f == [x \in ids |-> g[x - lastNodeId]]
      <2>3. \A x \in ids : x - lastNodeId \in 1 .. c
            BY <1>1
      <2>4. f \in [ids -> S]
            BY <2>2, <2>3
      <2>5. ASSUME NEW x \in ids, NEW y \in ids, f[x] = f[y] PROVE x = y
            <3>1. x - lastNodeId = y - lastNodeId
                  BY <2>2, <2>3, <2>5
            <3>2. QED
                  BY <1>1, <3>1
      <2> HIDE DEF f
      <2>6. Inj(f)
            BY <2>4, <2>5
      <2>7. QED
            BY <2>6
<1>3. PICK f : Inj(f) /\ Save!NewRows(S) = {[f[x] EXCEPT !.id = x] : x \in ids}
      <2> DEFINE f == CHOOSE g \in [ids -> S] : \A x, y \in ids : g[x] = g[y] => x = y
      <2>1. Inj(f)
            BY <1>2
      <2>2. Save!NewRows(S) = {[f[x] EXCEPT !.id = x] : x \in ids}
            BY SameCardinality DEF Save!NewRows
      <2> HIDE DEF f
      <2>3. QED
            BY <2>1, <2>2
<1>4. \A n \in S : \E x \in ids : f[x] = n
      <2>1. IsFiniteSet(ids) /\ Cardinality(ids) = c
            <3> DEFINE a == lastNodeId + 1
                       b == lastNodeId + c
            <3>1. a \in Int /\ b \in Int /\ (a > b => c = 0) /\ (b - a + 1 = c)
                  BY <1>1
            <3> HIDE DEF a, b
            <3>2. IsFiniteSet(a .. b) /\ Cardinality(a .. b) = IF a > b THEN 0 ELSE b - a + 1
                  BY <3>1, FS_Interval
            <3>3. Cardinality(a .. b) = c
                  BY <3>1, <3>2
            <3>4. QED
                  BY <3>2, <3>3 DEF a, b
      <2>2. f \in Injection(ids, S)
            BY <1>3 DEF Injection, IsInjective
      <2>3. f \in Surjection(ids, S)
            BY <1>1, <2>1, <2>2, FS_Injection
      <2>4. QED
            BY <2>3 DEF Surjection
<1> DEFINE at_(n) == CHOOSE x \in ids : f[x] = n
           h == [n \in S |-> [n EXCEPT !.id = at_(n)]]
<1>5. \A n \in S : at_(n) \in ids /\ f[at_(n)] = n
      BY <1>4
<1>6. \A x \in ids : f[x] \in S /\ at_(f[x]) = x
      BY <1>3, <1>5
<1> HIDE DEF at_
<1>7. \A n \in S : h[n] = [n EXCEPT !.id = at_(n)]
      OBVIOUS
<1> HIDE DEF h
<1>8. \A n \in S : h[n].id = at_(n)
      BY <1>7 DEF Save!Node
<1>9. Save!NewRows(S) = {h[n] : n \in S}
      <2>1. \A x \in ids : [f[x] EXCEPT !.id = x] = h[f[x]]
            BY <1>6, <1>7
      <2> HIDE DEF ids
      <2>2. \A x \in ids : f[x] \in S
            BY <1>6
      <2>3. \A n \in S : \E x \in ids : h[n] = [f[x] EXCEPT !.id = x]
            BY <1>5, <1>7
      <2>4. {[f[x] EXCEPT !.id = x] : x \in ids} \subseteq {h[n] : n \in S}
            BY <2>1, <2>2
      <2>5. {h[n] : n \in S} \subseteq {[f[x] EXCEPT !.id = x] : x \in ids}
            BY <2>3
      <2>6. QED
            BY <1>3, <2>4, <2>5
<1>10. \A m, n \in S : h[m].id = h[n].id => m = n
      BY <1>5, <1>8
<1>11. \A n \in S : \E x \in ids : h[n] = [n EXCEPT !.id = x]
      BY <1>5, <1>7
<1> HIDE DEF ids
<1>12. QED
      BY <1>9, <1>10, <1>11 DEF ids

-----------------------------------------------------------------------------
(* Saving: the inductive invariant.                                        *)

GoodRow(w, last) ==
  /\ w \in Save!Workflow
  /\ UniqueIds(w.nodes)
  /\ \A n \in w.nodes : n.id \in 1 .. last

GoodRequest(r, stored, last) ==
  /\ r \in Save!Request
  /\ UniqueIds(r.nodes) /\ UniqueIds(r.existing)
  /\ \A n \in r.existing : n.id \in 1 .. last
  /\ r.kind = "update" => r.wid \in stored
  /\ r.kind = "create" /\ r.phase \in {"read", "stored", "ok"} => r.wid \in stored
  /\ r.kind = "update" /\ r.phase = "triggered" =>
       \A n \in r.nodes : n.id \in Save!RowIds => n.id \in Save!Ids(r.existing)

\* What the canvases show.
CanvasInv ==
  /\ page \in Save!Pages /\ (page # 0 => page \in Save!Stored)
  /\ canvas \in [Save!Pages -> SUBSET Save!Node]
  /\ \A p \in Save!Pages : UniqueIds(canvas[p])
  /\ canvasEdits \in 0 .. MaxEdits

\* What the database holds.
RowsInv ==
  /\ workflows \in [Save!Wids -> Save!Workflow \cup {None}]
  /\ \A w \in Save!Stored : GoodRow(workflows[w], lastNodeId)
  /\ \E k \in 0 .. MaxWorkflows : Save!Stored = 1 .. k
  /\ lastNodeId \in 0 .. MaxNodeId

\* What was sent and read.
RequestsInv ==
  /\ DOMAIN saves \subseteq 1 .. MaxSaves
  /\ saves \in [DOMAIN saves -> Save!Request]
  /\ \A i \in DOMAIN saves : GoodRequest(saves[i], Save!Stored, lastNodeId)

SaveInv == CanvasInv /\ RowsInv /\ RequestsInv

-----------------------------------------------------------------------------
(* Saving: what rows are made of.                                          *)

\* A renaming of the ids of nodes changes no count.
LEMMA RenamedCount ==
  ASSUME NEW S, IsFiniteSet(S), NEW h, \A m, n \in S : h[m] = h[n] => m = n
  PROVE  Cardinality({h[n] : n \in S}) = Cardinality(S) /\ IsFiniteSet({h[n] : n \in S})
<1> DEFINE T == {h[n] : n \in S}
           f == [n \in S |-> h[n]]
<1>1. f \in [S -> T]
      OBVIOUS
<1>2. \A n \in S : f[n] = h[n]
      OBVIOUS
<1>3. \A t \in T : \E n \in S : f[n] = t
      OBVIOUS
<1> HIDE DEF f, T
<1>4. f \in Bijection(S, T)
      BY <1>1, <1>2, <1>3 DEF Bijection, Injection, IsInjective, Surjection
<1>5. ExistsBijection(S, T)
      BY <1>4 DEF ExistsBijection
<1>6. QED
      BY <1>5, FS_Bijection DEF T

\* The rows of new nodes are those nodes, but for fresh ids.
LEMMA NewRowsFit ==
  ASSUME NEW S \in SUBSET Save!Node, UniqueIds(S),
         lastNodeId \in Nat, lastNodeId + Cardinality(S) <= MaxNodeId
  PROVE  /\ Save!NewRows(S) \in SUBSET Save!Node
         /\ UniqueIds(Save!NewRows(S))
         /\ \A n \in Save!NewRows(S) : n.id \in (lastNodeId + 1) .. (lastNodeId + Cardinality(S))
         /\ IsFiniteSet(Save!NewRows(S)) /\ Cardinality(Save!NewRows(S)) = Cardinality(S)
         /\ \A category, config :
              Cardinality(OfKind(Save!NewRows(S), category, config))
                = Cardinality(OfKind(S, category, config))
<1> DEFINE R == Save!NewRows(S)
           c == Cardinality(S)
           ids == (lastNodeId + 1) .. (lastNodeId + c)
<1>1. IsFiniteSet(S) /\ c \in Nat
      BY NodesAreFinite
<1>2. ids \subseteq Save!RowIds
      BY <1>1, SaveNumbers DEF Save!RowIds
<1> HIDE DEF c, R, ids
<1>3. PICK h : /\ R = {h[n] : n \in S}
               /\ \A n \in S : \E x \in ids : h[n] = [n EXCEPT !.id = x]
               /\ \A m, n \in S : h[m].id = h[n].id => m = n
      BY RowsForNodes DEF R, ids, c
<1>4. \A n \in S : /\ h[n] \in Save!Node /\ h[n].id \in ids
                   /\ h[n].category = n.category /\ h[n].config = n.config
      <2> SUFFICES ASSUME NEW n \in S
                   PROVE  /\ h[n] \in Save!Node /\ h[n].id \in ids
                          /\ h[n].category = n.category /\ h[n].config = n.config
          OBVIOUS
      <2>1. PICK x \in ids : h[n] = [n EXCEPT !.id = x]
            BY <1>3
      <2>2. n \in Save!Node /\ x \in NewIds \cup Save!RowIds
            BY <1>2
      <2>3. QED
            BY <2>1, <2>2 DEF Save!Node
<1>5. \A m, n \in S : h[m] = h[n] => m = n
      BY <1>3
<1>6. R \in SUBSET Save!Node /\ UniqueIds(R) /\ \A n \in R : n.id \in ids
      BY <1>3, <1>4 DEF UniqueIds
<1>7. IsFiniteSet(R) /\ Cardinality(R) = c
      <2>1. Cardinality({h[n] : n \in S}) = Cardinality(S) /\ IsFiniteSet({h[n] : n \in S})
            BY <1>1, <1>5, RenamedCount
      <2>2. QED
            BY <1>3, <2>1 DEF c
<1>8. ASSUME NEW category, NEW config
      PROVE  Cardinality(OfKind(R, category, config)) = Cardinality(OfKind(S, category, config))
      <2> DEFINE K == OfKind(S, category, config)
      <2>1. K \subseteq S /\ IsFiniteSet(K)
            BY <1>1, FS_Subset DEF OfKind
      <2>2. OfKind(R, category, config) = {h[n] : n \in K}
            BY <1>3, <1>4 DEF OfKind
      <2>3. \A m, n \in K : h[m] = h[n] => m = n
            BY <1>5, <2>1
      <2> HIDE DEF K
      <2>4. Cardinality({h[n] : n \in K}) = Cardinality(K)
            BY <2>1, <2>3, RenamedCount
      <2>5. QED
            BY <2>2, <2>4 DEF K
<1>9. QED
      BY <1>6, <1>7, <1>8 DEF R, ids, c

\* With the rows an update has read, the transaction leaves the nodes that
\* were rows as they were sent, and the new rows.
LEMMA UpdatedExact ==
  ASSUME NEW r \in Save!Request, NEW new,
         UniqueIds(r.nodes), UniqueIds(r.existing),
         \A n \in r.existing : n.id \in Save!RowIds
  PROVE  Save!UpdatedRows(r, r.existing, new)
           = {n \in r.nodes : n.id \in Save!Ids(r.existing)} \cup new
<1> DEFINE kept == {n \in r.existing : n.id \notin Save!NodeIDsToDelete(r)}
           upd == Save!NodesToUpdate(r)
           A == {n \in r.nodes : n.id \in Save!Ids(r.existing)}
           B == {n \in kept : n.id \notin Save!Ids(upd)} \cup {n \in upd : n.id \in Save!Ids(kept)}
<1>1. ASSUME NEW n \in A PROVE n \in B
      <2>1. PICK m \in r.existing : m.id = n.id
            BY DEF Save!Ids
      <2>2. m.id \notin Save!NodeIDsToDelete(r)
            BY <2>1 DEF Save!NodeIDsToDelete, Save!Ids
      <2>3. CASE n \in r.existing
            <3>1. n \in kept
                  BY <2>1, <2>2, <2>3
            <3>2. n.id \notin Save!Ids(upd)
                  BY <2>3 DEF Save!Ids, Save!NodesToUpdate, UniqueIds
            <3>3. QED
                  BY <3>1, <3>2
      <2>4. CASE n \notin r.existing
            <3>1. n \in upd
                  BY <2>4 DEF Save!NodesToUpdate
            <3>2. n.id \in Save!Ids(kept)
                  BY <2>1, <2>2 DEF Save!Ids
            <3>3. QED
                  BY <3>1, <3>2
      <2>5. QED
            BY <2>3, <2>4
<1>2. ASSUME NEW n \in B PROVE n \in A
      <2>1. CASE n \in upd
            BY <2>1 DEF Save!NodesToUpdate
      <2>2. CASE n \in kept /\ n.id \notin Save!Ids(upd)
            <3>1. n.id \in Save!Ids(r.nodes) /\ n \in r.existing /\ n.id \in Save!Ids(r.existing)
                  BY <2>2 DEF Save!NodeIDsToDelete, Save!Ids
            <3>2. PICK m \in r.nodes : m.id = n.id
                  BY <3>1 DEF Save!Ids
            <3>3. m \in r.existing
                  BY <2>2, <3>1, <3>2 DEF Save!Ids, Save!NodesToUpdate
            <3>4. QED
                  BY <3>1, <3>2, <3>3 DEF UniqueIds
      <2>3. QED
            BY <2>1, <2>2
<1>3. Save!UpdatedRows(r, r.existing, new) = B \cup new
      BY DEF Save!UpdatedRows
<1> HIDE DEF B, A
<1>4. QED
      BY <1>1, <1>2, <1>3 DEF A

\* A union of nodes with different ids counts as its parts do together.
LEMMA CountOfUnion ==
  ASSUME NEW S, IsFiniteSet(S), NEW T, IsFiniteSet(T), S \cap T = {}, NEW category, NEW config
  PROVE  Cardinality(OfKind(S \cup T, category, config))
           = Cardinality(OfKind(S, category, config)) + Cardinality(OfKind(T, category, config))
<1> DEFINE K == OfKind(S, category, config)
           L == OfKind(T, category, config)
<1>1. IsFiniteSet(K) /\ IsFiniteSet(L)
      BY FS_Subset DEF OfKind
<1>2. OfKind(S \cup T, category, config) = K \cup L /\ K \cap L = {}
      BY DEF OfKind
<1> HIDE DEF K, L
<1>3. Cardinality(K \cup L) = Cardinality(K) + Cardinality(L) - Cardinality(K \cap L)
      BY <1>1, FS_Union
<1>4. Cardinality(K \cap L) = 0 /\ Cardinality(K) \in Nat /\ Cardinality(L) \in Nat
      BY <1>1, <1>2, FS_EmptySet, FS_CardinalityType
<1>5. Cardinality(K \cup L) = Cardinality(K) + Cardinality(L)
      BY <1>3, <1>4
<1>6. QED
      BY <1>2, <1>5 DEF K, L

\* What an update has found in order, when its transaction begins.
ReadyToCommit(r) ==
  /\ r \in Save!Request
  /\ UniqueIds(r.nodes) /\ UniqueIds(r.existing)
  /\ \A n \in r.existing : n.id \in 1 .. lastNodeId
  /\ \A n \in r.nodes : n.id \in Save!RowIds => n.id \in Save!Ids(r.existing)
  /\ lastNodeId \in 0 .. MaxNodeId
  /\ lastNodeId + Cardinality(Save!NodesToCreate(r)) <= MaxNodeId

LEMMA SameContents ==
  ASSUME NEW r, ReadyToCommit(r)
  PROVE  Save!Contents(Save!UpdatedRows(r, r.existing, Save!NewRows(Save!NodesToCreate(r))))
           = Save!Contents(r.nodes)
<1> USE DEF ReadyToCommit
<1> DEFINE C == Save!NodesToCreate(r)
           R == Save!NewRows(C)
           A == {n \in r.nodes : n.id \in Save!Ids(r.existing)}
           U == Save!UpdatedRows(r, r.existing, R)
<1>1. lastNodeId \in Nat /\ lastNodeId <= MaxNodeId
      BY SaveNumbers
<1>2. C \in SUBSET Save!Node /\ UniqueIds(C)
      BY DEF Save!NodesToCreate, UniqueIds, Save!Request
<1>3. /\ \A n \in R : n.id \in (lastNodeId + 1) .. (lastNodeId + Cardinality(C))
      /\ IsFiniteSet(R)
      /\ \A category, config :
           Cardinality(OfKind(R, category, config)) = Cardinality(OfKind(C, category, config))
      BY <1>1, <1>2, NewRowsFit
<1>4. \A n \in r.existing : n.id \in Save!RowIds
      BY <1>1, SaveNumbers DEF Save!RowIds
<1>5. U = A \cup R
      BY <1>4, UpdatedExact
<1>6. r.nodes = A \cup C
      BY <1>4 DEF Save!NodesToCreate, Save!Request, Save!Node
<1>7. \A n \in A : n.id \in 1 .. lastNodeId
      BY DEF Save!Ids
<1>8. A \cap C = {}
      <2>1. \A n \in A : n.id \in Save!RowIds
            BY <1>4 DEF Save!Ids
      <2>2. QED
            BY <2>1, SaveAssumption DEF Save!NodesToCreate, Save!RowIds
<1>9. A \cap R = {}
      <2>1. IsFiniteSet(C) /\ Cardinality(C) \in Nat
            BY <1>2, NodesAreFinite
      <2>2. \A x \in 1 .. lastNodeId : x \notin (lastNodeId + 1) .. (lastNodeId + Cardinality(C))
            BY <1>1, <2>1
      <2>3. QED
            BY <1>3, <1>7, <2>2
<1>10. IsFiniteSet(A) /\ IsFiniteSet(C)
      <2>1. A \in SUBSET Save!Node /\ UniqueIds(A)
            BY DEF UniqueIds, Save!Request
      <2>2. QED
            BY <1>2, <2>1, NodesAreFinite
<1> HIDE DEF A, C, R, U
<1>11. \A category, config :
        Cardinality(OfKind(U, category, config)) = Cardinality(OfKind(r.nodes, category, config))
      <2> SUFFICES ASSUME NEW category, NEW config
                   PROVE  Cardinality(OfKind(U, category, config))
                            = Cardinality(OfKind(r.nodes, category, config))
          OBVIOUS
      <2>1. Cardinality(OfKind(A \cup R, category, config))
              = Cardinality(OfKind(A, category, config)) + Cardinality(OfKind(R, category, config))
            BY <1>3, <1>9, <1>10, CountOfUnion
      <2>2. Cardinality(OfKind(A \cup C, category, config))
              = Cardinality(OfKind(A, category, config)) + Cardinality(OfKind(C, category, config))
            BY <1>8, <1>10, CountOfUnion
      <2>3. QED
            BY <1>3, <1>5, <1>6, <2>1, <2>2
<1>12. \A k : Save!Cardinality({n \in U : n.category = k[1] /\ n.config = k[2]})
              = Save!Cardinality({n \in r.nodes : n.category = k[1] /\ n.config = k[2]})
      <2> SUFFICES ASSUME NEW k
                   PROVE  Save!Cardinality({n \in U : n.category = k[1] /\ n.config = k[2]})
                   = Save!Cardinality({n \in r.nodes : n.category = k[1] /\ n.config = k[2]})
          OBVIOUS
      <2>1. Cardinality(OfKind(U, k[1], k[2])) = Cardinality(OfKind(r.nodes, k[1], k[2]))
            BY <1>11
      <2>2. /\ Save!Cardinality(OfKind(U, k[1], k[2])) = Cardinality(OfKind(U, k[1], k[2]))
            /\ Save!Cardinality(OfKind(r.nodes, k[1], k[2]))
                 = Cardinality(OfKind(r.nodes, k[1], k[2]))
            BY SameCardinality
      <2>3. Save!Cardinality(OfKind(U, k[1], k[2])) = Save!Cardinality(OfKind(r.nodes, k[1], k[2]))
            BY <2>1, <2>2
      <2>4. QED
            BY <2>3 DEF OfKind
<1>13. Save!Contents(U) = Save!Contents(r.nodes)
      BY <1>12 DEF Save!Contents
<1>14. QED
      BY <1>13 DEF U, R, C

\* Whatever rows the transaction finds, it leaves rows with ids of their own.
LEMMA UpdatedRowsFit ==
  ASSUME NEW r, ReadyToCommit(r), NEW rows \in SUBSET Save!Node, UniqueIds(rows),
         \A n \in rows : n.id \in 1 .. lastNodeId
  PROVE  LET C == Save!NodesToCreate(r)
             U == Save!UpdatedRows(r, rows, Save!NewRows(C))
         IN /\ U \in SUBSET Save!Node /\ UniqueIds(U)
            /\ \A n \in U : n.id \in 1 .. (lastNodeId + Cardinality(C))
            /\ Cardinality(C) \in Nat /\ Cardinality(Save!NewRows(C)) = Cardinality(C)
<1> USE DEF ReadyToCommit
<1> DEFINE C == Save!NodesToCreate(r)
           R == Save!NewRows(C)
           upd == Save!NodesToUpdate(r)
           kept == {n \in rows : n.id \notin Save!NodeIDsToDelete(r)}
           V == {n \in kept : n.id \notin Save!Ids(upd)}
           W == {n \in upd : n.id \in Save!Ids(kept)}
<1>1. lastNodeId \in Nat
      BY SaveNumbers
<1>2. C \in SUBSET Save!Node /\ UniqueIds(C)
      BY DEF Save!NodesToCreate, UniqueIds, Save!Request
<1>3. Cardinality(C) \in Nat
      BY <1>2, NodesAreFinite
<1>4. /\ R \in SUBSET Save!Node /\ UniqueIds(R)
      /\ \A n \in R : n.id \in (lastNodeId + 1) .. (lastNodeId + Cardinality(C))
      /\ Cardinality(R) = Cardinality(C)
      BY <1>1, <1>2, NewRowsFit
<1>5. V \in SUBSET Save!Node /\ UniqueIds(V) /\ \A n \in V : n.id \in 1 .. lastNodeId
      BY DEF UniqueIds
<1>6. W \in SUBSET Save!Node /\ UniqueIds(W)
      BY DEF UniqueIds, Save!NodesToUpdate, Save!Request
<1>7. \A n \in W : n.id \in 1 .. lastNodeId
      BY DEF Save!Ids
<1>8. \A m \in V, n \in W : m.id # n.id
      BY DEF Save!Ids
<1>9. Save!UpdatedRows(r, rows, R) = V \cup W \cup R
      BY DEF Save!UpdatedRows
<1>10. \A x \in 1 .. lastNodeId :
         /\ x \notin (lastNodeId + 1) .. (lastNodeId + Cardinality(C))
         /\ x \in 1 .. (lastNodeId + Cardinality(C))
      BY <1>1, <1>3
<1>11. \A x \in (lastNodeId + 1) .. (lastNodeId + Cardinality(C)) :
         x \in 1 .. (lastNodeId + Cardinality(C))
      BY <1>1, <1>3
<1> HIDE DEF C, R, V, W
<1>12. \A m \in V \cup W, n \in R : m.id # n.id
      BY <1>4, <1>5, <1>7, <1>10
<1>13. UniqueIds(V \cup W \cup R)
      BY <1>4, <1>5, <1>6, <1>8, <1>12 DEF UniqueIds
<1>14. \A n \in V \cup W \cup R : n.id \in 1 .. (lastNodeId + Cardinality(C))
      BY <1>4, <1>5, <1>7, <1>10, <1>11
<1>15. QED
      BY <1>3, <1>4, <1>5, <1>6, <1>9, <1>13, <1>14 DEF C, R

-----------------------------------------------------------------------------
(* Saving: the steps.                                                      *)

LEMMA SaveSteps ==
  [ServicesNext]_servicesVars => [Save!Next]_saveVars
BY DEF ServicesNext, servicesVars, Others, Rest, Parts

\* What an update leaves behind, and what no step takes back.
DeltaStep ==
  \A i \in DOMAIN saves :
    LET r == saves[i]
    IN (/\ r.kind = "update" /\ r.phase = "triggered" /\ saves'[i].phase = "ok"
        /\ workflows[r.wid].nodes = r.existing)
       => Save!Contents(workflows'[r.wid].nodes) = Save!Contents(r.nodes)

ArchiveStep ==
  \A w \in Save!Stored : workflows[w].status = "archived" => workflows'[w].status = "archived"

SaveStep == SaveInv' /\ DeltaStep /\ ArchiveStep

\* No update commits in this step.
NoCommit ==
  \A i \in DOMAIN saves :
    saves[i].kind = "update" /\ saves[i].phase = "triggered" => saves'[i].phase # "ok"

LEMMA NoCommitNoDelta == NoCommit => DeltaStep
BY DEF NoCommit, DeltaStep

LEMMA GoodStaysGood ==
  ASSUME NEW r, NEW s, NEW t, NEW last \in Nat, NEW next \in Nat,
         GoodRequest(r, s, last), s \subseteq t, last <= next
  PROVE  GoodRequest(r, t, next)
<1>1. \A x \in 1 .. last : x \in 1 .. next
      OBVIOUS
<1>2. QED
      BY <1>1 DEF GoodRequest

LEMMA RowStaysGood ==
  ASSUME NEW w, NEW last \in Nat, NEW next \in Nat, GoodRow(w, last), last <= next
  PROVE  GoodRow(w, next)
<1>1. \A x \in 1 .. last : x \in 1 .. next
      OBVIOUS
<1>2. QED
      BY <1>1 DEF GoodRow

LEMMA LastIsNatural == RowsInv => lastNodeId \in Nat /\ lastNodeId <= MaxNodeId
BY SaveNumbers DEF RowsInv

\* The database does not change.
LEMMA RowsAreKept ==
  ASSUME SaveInv, UNCHANGED <<workflows, lastNodeId>>
  PROVE  RowsInv' /\ Save!Stored' = Save!Stored /\ ArchiveStep
<1>1. Save!Stored' = Save!Stored
      BY DEF Save!Stored
<1>2. RowsInv'
      BY <1>1 DEF SaveInv, RowsInv
<1>3. QED
      BY <1>1, <1>2 DEF ArchiveStep

\* One request changes.
LEMMA RequestChanges ==
  ASSUME SaveInv, RowsInv', Save!Stored \subseteq Save!Stored', lastNodeId <= lastNodeId',
         NEW i \in DOMAIN saves, NEW q, saves' = [saves EXCEPT ![i] = q],
         GoodRequest(q, Save!Stored', lastNodeId')
  PROVE  RequestsInv'
<1> DEFINE s == Save!Stored
           t == Save!Stored'
<1>1. lastNodeId \in Nat /\ lastNodeId' \in Nat
      BY LastIsNatural, SaveNumbers DEF SaveInv, RowsInv
<1>2. /\ saves \in [DOMAIN saves -> Save!Request]
      /\ DOMAIN saves \subseteq 1 .. MaxSaves
      /\ \A j \in DOMAIN saves : GoodRequest(saves[j], s, lastNodeId)
      BY DEF SaveInv, RequestsInv
<1>3. DOMAIN saves' = DOMAIN saves
      BY <1>2
<1>4. q \in Save!Request
      BY DEF GoodRequest
<1>5. saves' \in [DOMAIN saves' -> Save!Request]
      BY <1>2, <1>3, <1>4
<1> HIDE DEF s, t
<1>6. ASSUME NEW j \in DOMAIN saves PROVE GoodRequest(saves'[j], t, lastNodeId')
      <2>1. CASE j = i
            BY <1>2, <2>1 DEF t
      <2>2. CASE j # i
            <3>1. saves'[j] = saves[j]
                  BY <1>2, <2>2
            <3>2. GoodRequest(saves[j], t, lastNodeId')
                  BY <1>1, <1>2, GoodStaysGood DEF s, t
            <3>3. QED
                  BY <3>1, <3>2
      <2>3. QED
            BY <2>1, <2>2
<1>7. QED
      BY <1>2, <1>3, <1>5, <1>6 DEF RequestsInv, t

\* No request changes, and the database only grows.
LEMMA RequestsAreKept ==
  ASSUME SaveInv, RowsInv', Save!Stored \subseteq Save!Stored', lastNodeId <= lastNodeId',
         saves' = saves
  PROVE  RequestsInv' /\ NoCommit
<1> DEFINE s == Save!Stored
           t == Save!Stored'
<1>1. lastNodeId \in Nat /\ lastNodeId' \in Nat
      BY LastIsNatural, SaveNumbers DEF SaveInv, RowsInv
<1>2. /\ saves \in [DOMAIN saves -> Save!Request]
      /\ DOMAIN saves \subseteq 1 .. MaxSaves
      /\ \A j \in DOMAIN saves : GoodRequest(saves[j], s, lastNodeId)
      BY DEF SaveInv, RequestsInv
<1> HIDE DEF s, t
<1>3. \A j \in DOMAIN saves : GoodRequest(saves[j], t, lastNodeId')
      BY <1>1, <1>2, GoodStaysGood DEF s, t
<1>4. RequestsInv'
      BY <1>2, <1>3 DEF RequestsInv, t
<1>5. NoCommit
      BY DEF NoCommit
<1>6. QED
      BY <1>4, <1>5

\* One row changes, keeping its status or archived.
LEMMA RowChanges ==
  ASSUME SaveInv, NEW w \in Save!Stored, NEW v,
         workflows' = [workflows EXCEPT ![w] = v],
         lastNodeId' \in 0 .. MaxNodeId, lastNodeId <= lastNodeId',
         GoodRow(v, lastNodeId'), v.status \in {workflows[w].status, "archived"}
  PROVE  RowsInv' /\ Save!Stored' = Save!Stored /\ ArchiveStep
<1>1. /\ workflows \in [Save!Wids -> Save!Workflow \cup {None}]
      /\ \A x \in Save!Stored : GoodRow(workflows[x], lastNodeId)
      /\ lastNodeId \in Nat /\ lastNodeId' \in Nat
      BY LastIsNatural, SaveNumbers DEF SaveInv, RowsInv
<1>2. v \in Save!Workflow /\ v # None
      BY SaveAssumption DEF GoodRow
<1>3. w \in Save!Wids /\ workflows'[w] = v /\ \A x \in Save!Wids \ {w} : workflows'[x] = workflows[x]
      BY <1>1 DEF Save!Stored
<1>4. workflows' \in [Save!Wids -> Save!Workflow \cup {None}]
      BY <1>1, <1>2
<1>5. Save!Stored' = Save!Stored
      BY <1>2, <1>3 DEF Save!Stored
<1>6. ASSUME NEW x \in Save!Stored PROVE GoodRow(workflows'[x], lastNodeId')
      <2>1. CASE x = w
            BY <1>3, <2>1
      <2>2. CASE x # w
            <3>1. workflows'[x] = workflows[x]
                  BY <1>3, <2>2 DEF Save!Stored
            <3>2. GoodRow(workflows[x], lastNodeId')
                  BY <1>1, RowStaysGood
            <3>3. QED
                  BY <3>1, <3>2
      <2>3. QED
            BY <2>1, <2>2
<1>7. RowsInv'
      <2>1. \E k \in 0 .. MaxWorkflows : Save!Stored = 1 .. k
            BY DEF SaveInv, RowsInv
      <2>2. QED
            BY <1>4, <1>5, <1>6, <2>1 DEF RowsInv
<1>8. ArchiveStep
      BY <1>3 DEF ArchiveStep, Save!Stored
<1>9. QED
      BY <1>5, <1>7, <1>8

LEMMA CanvasIsKept ==
  ASSUME SaveInv, UNCHANGED <<page, canvas, canvasEdits>>, Save!Stored \subseteq Save!Stored'
  PROVE  CanvasInv'
BY DEF SaveInv, CanvasInv

\* A page is shown, with other nodes than before.
LEMMA CanvasChanges ==
  ASSUME SaveInv, NEW p \in Save!Pages, NEW S \in SUBSET Save!Node, UniqueIds(S),
         canvas' = [canvas EXCEPT ![p] = S], Save!Stored' = Save!Stored,
         page' \in Save!Pages, page' # 0 => page' \in Save!Stored,
         canvasEdits' \in 0 .. MaxEdits
  PROVE  CanvasInv'
<1>1. canvas \in [Save!Pages -> SUBSET Save!Node] /\ \A q \in Save!Pages : UniqueIds(canvas[q])
      BY DEF SaveInv, CanvasInv
<1>2. canvas' \in [Save!Pages -> SUBSET Save!Node]
      BY <1>1
<1>3. ASSUME NEW q \in Save!Pages PROVE UniqueIds(canvas'[q])
      <2>1. canvas'[q] = IF q = p THEN S ELSE canvas[q]
            BY <1>1
      <2>2. QED
            BY <1>1, <2>1
<1>4. QED
      BY <1>2, <1>3 DEF CanvasInv

\* DropNode, ConfigureNode and RemoveNode.
LEMMA CanvasSteps ==
  ASSUME SaveInv,
         \/ \E u \in NewIds : Save!DropNode(u)
         \/ \E n \in canvas[page], c \in Configs : Save!ConfigureNode(n, c)
         \/ \E n \in canvas[page] : Save!RemoveNode(n)
  PROVE  SaveStep
<1>1. /\ page \in Save!Pages /\ (page # 0 => page \in Save!Stored)
      /\ canvas[page] \in SUBSET Save!Node /\ UniqueIds(canvas[page])
      /\ canvasEdits \in 0 .. MaxEdits
      BY DEF SaveInv, CanvasInv
<1>2. PICK S : Save!SetCanvas(S) /\ S \in SUBSET Save!Node /\ UniqueIds(S)
      <2>1. ASSUME NEW u \in NewIds, Save!DropNode(u)
            PROVE  \E S : Save!SetCanvas(S) /\ S \in SUBSET Save!Node /\ UniqueIds(S)
            <3> DEFINE n == [id |-> u, category |-> IF u \in TriggerIds THEN "trigger" ELSE "action",
                             config |-> EmptyConfig]
                       S == canvas[page] \cup {n}
            <3>1. n \in Save!Node /\ n.id = u
                  BY SaveAssumption DEF Save!Node
            <3>2. Save!SetCanvas(S) /\ u \notin Save!Ids(canvas[page])
                  BY <2>1 DEF Save!DropNode
            <3> HIDE DEF n
            <3>3. S \in SUBSET Save!Node
                  BY <1>1, <3>1
            <3>4. UniqueIds(S)
                  BY <1>1, <3>1, <3>2 DEF UniqueIds, Save!Ids
            <3>5. QED
                  BY <3>2, <3>3, <3>4
      <2>2. ASSUME NEW n \in canvas[page], NEW c \in Configs, Save!ConfigureNode(n, c)
            PROVE  \E S : Save!SetCanvas(S) /\ S \in SUBSET Save!Node /\ UniqueIds(S)
            <3> DEFINE m == [n EXCEPT !.config = c]
                       S == (canvas[page] \ {n}) \cup {m}
            <3>1. n \in Save!Node
                  BY <1>1
            <3>2. m \in Save!Node /\ m.id = n.id
                  BY <3>1 DEF Save!Node
            <3>3. Save!SetCanvas(S)
                  BY <2>2 DEF Save!ConfigureNode
            <3> HIDE DEF m
            <3>4. S \in SUBSET Save!Node
                  BY <1>1, <3>2
            <3>5. UniqueIds(S)
                  BY <1>1, <3>2 DEF UniqueIds
            <3>6. QED
                  BY <3>3, <3>4, <3>5
      <2>3. ASSUME NEW n \in canvas[page], Save!RemoveNode(n)
            PROVE  \E S : Save!SetCanvas(S) /\ S \in SUBSET Save!Node /\ UniqueIds(S)
            <3> DEFINE S == canvas[page] \ {n}
            <3>1. Save!SetCanvas(S)
                  BY <2>3 DEF Save!RemoveNode
            <3>2. S \in SUBSET Save!Node /\ UniqueIds(S)
                  BY <1>1 DEF UniqueIds
            <3>3. QED
                  BY <3>1, <3>2
      <2>4. QED
            BY <2>1, <2>2, <2>3
<1>3. /\ canvas' = [canvas EXCEPT ![page] = S] /\ canvasEdits < MaxEdits
      /\ canvasEdits' = canvasEdits + 1
      /\ UNCHANGED <<page, workflows, lastNodeId, saves>>
      BY <1>2 DEF Save!SetCanvas
<1>4. canvasEdits' \in 0 .. MaxEdits
      BY <1>1, <1>3, SaveNumbers
<1>5. RowsInv' /\ Save!Stored' = Save!Stored /\ ArchiveStep
      BY <1>3, RowsAreKept
<1>6. CanvasInv'
      BY <1>1, <1>2, <1>3, <1>4, <1>5, CanvasChanges
<1>7. RequestsInv' /\ NoCommit
      BY <1>3, <1>5, RequestsAreKept, LastIsNatural DEF SaveInv
<1>8. QED
      BY <1>5, <1>6, <1>7, NoCommitNoDelta DEF SaveStep, SaveInv

LEMMA OpenPageStep ==
  ASSUME SaveInv, NEW p \in Save!Pages, Save!OpenPage(p)
  PROVE  SaveStep
<1>1. /\ p = 0 \/ p \in Save!Stored
      /\ page' = p
      /\ canvas' = IF p = 0 THEN canvas ELSE [canvas EXCEPT ![p] = workflows[p].nodes]
      /\ UNCHANGED <<workflows, lastNodeId, saves, canvasEdits>>
      BY DEF Save!OpenPage, Save!Settled
<1>2. RowsInv' /\ Save!Stored' = Save!Stored /\ ArchiveStep
      BY <1>1, RowsAreKept
<1>3. RequestsInv' /\ NoCommit
      BY <1>1, <1>2, RequestsAreKept, LastIsNatural DEF SaveInv
<1>4. CASE p = 0
      <2>1. CanvasInv'
            BY <1>1, <1>2, <1>4 DEF SaveInv, CanvasInv
      <2>2. QED
            BY <1>2, <1>3, <2>1, NoCommitNoDelta DEF SaveStep, SaveInv
<1>5. CASE p # 0
      <2>1. GoodRow(workflows[p], lastNodeId)
            BY <1>1, <1>5 DEF SaveInv, RowsInv
      <2>2. workflows[p].nodes \in SUBSET Save!Node /\ UniqueIds(workflows[p].nodes)
            BY <2>1 DEF GoodRow, Save!Workflow
      <2>3. canvasEdits' \in 0 .. MaxEdits
            BY <1>1 DEF SaveInv, CanvasInv
      <2>4. CanvasInv'
            BY <1>1, <1>2, <1>5, <2>2, <2>3, CanvasChanges
      <2>5. QED
            BY <1>2, <1>3, <2>4, NoCommitNoDelta DEF SaveStep, SaveInv
<1>6. QED
      BY <1>4, <1>5

\* SaveExisting and SaveNew.
LEMMA SendSteps ==
  ASSUME SaveInv, Save!SaveExisting \/ Save!SaveNew
  PROVE  SaveStep
<1>1. PICK kind, wid : /\ Save!Send(kind, wid)
                       /\ \/ kind = "update" /\ wid = page /\ page # 0
                          \/ kind = "create" /\ wid = 0
      BY DEF Save!SaveExisting, Save!SaveNew
<1>2. UNCHANGED <<page, canvas, workflows, lastNodeId, canvasEdits>>
      BY DEF Save!SaveExisting, Save!SaveNew
<1>3. RowsInv' /\ Save!Stored' = Save!Stored /\ ArchiveStep
      BY <1>2, RowsAreKept
<1>4. CanvasInv'
      BY <1>2, <1>3, CanvasIsKept
<1> DEFINE D == DOMAIN saves
           x == Cardinality(D) + 1
           q == [kind |-> kind, wid |-> wid, nodes |-> canvas[page], phase |-> "sent", existing |-> {}]
<1>5. x \in 1 .. MaxSaves
      <2>1. D \subseteq 1 .. MaxSaves
            BY DEF SaveInv, RequestsInv
      <2>2. IsFiniteSet(1 .. MaxSaves)
            BY SaveNumbers, FS_Interval
      <2>3. Cardinality(D) \in Nat
            BY <2>1, <2>2, FS_Subset, FS_CardinalityType
      <2>4. Cardinality(D) < MaxSaves
            BY <1>1, SameCardinality DEF Save!Send
      <2> HIDE DEF D
      <2>5. QED
            BY <2>3, <2>4, SaveNumbers
<1>6. saves' = [i \in D \cup {x} |-> IF i \in D THEN saves[i] ELSE q]
      BY <1>1, SameCardinality DEF Save!Send
<1>7. GoodRequest(q, Save!Stored, lastNodeId)
      <2>1. /\ page \in Save!Pages /\ (page # 0 => page \in Save!Stored)
            /\ canvas[page] \in SUBSET Save!Node /\ UniqueIds(canvas[page])
            BY DEF SaveInv, CanvasInv
      <2>2. wid \in Save!Pages /\ kind \in {"create", "update"}
            BY <1>1, <2>1 DEF Save!Pages
      <2>3. q \in Save!Request
            BY <2>1, <2>2 DEF Save!Request
      <2>4. UniqueIds(q.existing) /\ UniqueIds(q.nodes)
            BY <2>1 DEF UniqueIds
      <2>5. QED
            BY <1>1, <2>1, <2>3, <2>4 DEF GoodRequest
<1>8. RequestsInv' /\ NoCommit
      <2>1. /\ saves \in [D -> Save!Request] /\ D \subseteq 1 .. MaxSaves
            /\ \A j \in D : GoodRequest(saves[j], Save!Stored, lastNodeId)
            BY DEF SaveInv, RequestsInv
      <2>2. q \in Save!Request
            BY <1>7 DEF GoodRequest
      <2> HIDE DEF D, x, q
      <2>3. DOMAIN saves' = D \cup {x} /\ saves' \in [DOMAIN saves' -> Save!Request]
            BY <1>6, <2>1, <2>2
      <2>4. \A j \in D \cup {x} : GoodRequest(saves'[j], Save!Stored, lastNodeId)
            BY <1>6, <1>7, <2>1
      <2>5. DOMAIN saves' \subseteq 1 .. MaxSaves
            BY <1>5, <2>1, <2>3
      <2>6. RequestsInv'
            BY <1>2, <1>3, <2>3, <2>4, <2>5 DEF RequestsInv
      <2>7. NoCommit
            BY <1>6 DEF NoCommit, D
      <2>8. QED
            BY <2>6, <2>7
<1>9. QED
      BY <1>3, <1>4, <1>8, NoCommitNoDelta DEF SaveStep, SaveInv

\* The answer to a request.
LEMMA AnswerFits ==
  ASSUME SaveInv, RowsInv', Save!Stored' = Save!Stored, lastNodeId <= lastNodeId',
         NEW i \in DOMAIN saves, NEW ph \in {"triggered", "stored", "ok", "failed"},
         Save!Answer(i, ph),
         saves[i].kind = "create" => ph = "failed" \/ saves[i].phase \in {"read", "stored", "ok"},
         saves[i].kind = "update" /\ ph = "triggered" =>
           \A n \in saves[i].nodes : n.id \in Save!RowIds => n.id \in Save!Ids(saves[i].existing)
  PROVE  RequestsInv' /\ (saves[i].kind = "create" \/ ph # "ok" => NoCommit)
<1> DEFINE q == [saves[i] EXCEPT !.phase = ph]
<1>1. /\ saves \in [DOMAIN saves -> Save!Request]
      /\ GoodRequest(saves[i], Save!Stored, lastNodeId)
      BY DEF SaveInv, RequestsInv
<1>2. saves' = [saves EXCEPT ![i] = q]
      BY <1>1 DEF Save!Answer
<1>3. saves[i] \in Save!Request
      BY <1>1
<1>4. /\ q \in Save!Request /\ q.kind = saves[i].kind /\ q.wid = saves[i].wid
      /\ q.nodes = saves[i].nodes /\ q.existing = saves[i].existing /\ q.phase = ph
      BY <1>3 DEF Save!Request
<1> HIDE DEF q
<1>5. GoodRequest(q, Save!Stored, lastNodeId)
      BY <1>1, <1>4 DEF GoodRequest
<1>6. lastNodeId \in Nat /\ lastNodeId' \in Nat
      BY LastIsNatural, SaveNumbers DEF SaveInv, RowsInv
<1>7. GoodRequest(q, Save!Stored', lastNodeId')
      BY <1>5, <1>6, GoodStaysGood
<1>8. RequestsInv'
      BY <1>2, <1>7, RequestChanges
<1>9. saves[i].kind = "create" \/ ph # "ok" => NoCommit
      BY <1>1, <1>2, <1>4 DEF NoCommit
<1>10. QED
      BY <1>8, <1>9

\* Refuse, RefuseEmpty and RollBackUpdate.
LEMMA RefuseSteps ==
  ASSUME SaveInv, NEW i \in DOMAIN saves,
         Save!Refuse(i) \/ Save!RefuseEmpty(i) \/ Save!RollBackUpdate(i)
  PROVE  SaveStep
<1>1. Save!Answer(i, "failed") /\ UNCHANGED <<page, canvas, workflows, lastNodeId, canvasEdits>>
      BY DEF Save!Refuse, Save!RefuseEmpty, Save!RollBackUpdate
<1>2. RowsInv' /\ Save!Stored' = Save!Stored /\ ArchiveStep
      BY <1>1, RowsAreKept
<1>3. CanvasInv'
      BY <1>1, <1>2, CanvasIsKept
<1>4. RequestsInv' /\ NoCommit
      BY <1>1, <1>2, AnswerFits, LastIsNatural DEF SaveInv
<1>5. QED
      BY <1>2, <1>3, <1>4, NoCommitNoDelta DEF SaveStep, SaveInv

LEMMA CreateReturnsStep ==
  ASSUME SaveInv, NEW i \in DOMAIN saves, Save!CreateReturns(i)
  PROVE  SaveStep
<1> DEFINE w == saves[i].wid
<1>1. /\ saves[i].kind = "create" /\ saves[i].phase = "stored"
      /\ page' = w /\ canvas' = [canvas EXCEPT ![w] = workflows[w].nodes]
      /\ Save!Answer(i, "ok")
      /\ UNCHANGED <<workflows, lastNodeId, canvasEdits>>
      BY DEF Save!CreateReturns, Save!Answer
<1>2. RowsInv' /\ Save!Stored' = Save!Stored /\ ArchiveStep
      BY <1>1, RowsAreKept
<1>3. w \in Save!Stored /\ w \in Save!Pages
      BY <1>1 DEF SaveInv, RequestsInv, GoodRequest, Save!Stored, Save!Pages
<1>4. GoodRow(workflows[w], lastNodeId)
      BY <1>3 DEF SaveInv, RowsInv
<1>5. workflows[w].nodes \in SUBSET Save!Node /\ UniqueIds(workflows[w].nodes)
      BY <1>4 DEF GoodRow, Save!Workflow
<1>6. canvasEdits' \in 0 .. MaxEdits
      BY <1>1 DEF SaveInv, CanvasInv
<1>7. RequestsInv' /\ NoCommit
      BY <1>1, <1>2, AnswerFits, LastIsNatural DEF SaveInv
<1> HIDE DEF w
<1>8. CanvasInv'
      BY <1>1, <1>2, <1>3, <1>5, <1>6, CanvasChanges
<1>9. QED
      BY <1>2, <1>7, <1>8, NoCommitNoDelta DEF SaveStep, SaveInv

\* A row keeps its nodes and its ids; its schedule or status may change.
LEMMA SameNodes ==
  ASSUME SaveInv, NEW w \in Save!Stored, NEW v,
         \E c \in Configs \cup {None}, s \in {workflows[w].status, "archived"} :
           v = [workflows[w] EXCEPT !.schedule = c, !.status = s],
         workflows' = [workflows EXCEPT ![w] = v], lastNodeId' = lastNodeId
  PROVE  RowsInv' /\ Save!Stored' = Save!Stored /\ ArchiveStep
<1>1. GoodRow(workflows[w], lastNodeId) /\ lastNodeId \in 0 .. MaxNodeId /\ lastNodeId <= lastNodeId'
      BY LastIsNatural DEF SaveInv, RowsInv
<1>2. workflows[w] \in Save!Workflow
      BY <1>1 DEF GoodRow
<1>3. /\ v \in Save!Workflow /\ v.nodes = workflows[w].nodes
      /\ v.status \in {workflows[w].status, "archived"}
      BY <1>2 DEF Save!Workflow
<1>4. GoodRow(v, lastNodeId')
      BY <1>1, <1>3 DEF GoodRow
<1>5. QED
      BY <1>1, <1>3, <1>4, RowChanges

LEMMA ArchiveWorkflowStep ==
  ASSUME SaveInv, NEW w \in Save!Wids, Save!ArchiveWorkflow(w)
  PROVE  SaveStep
<1>1. w \in Save!Stored /\ UNCHANGED <<page, canvas, lastNodeId, saves, canvasEdits>>
      BY DEF Save!ArchiveWorkflow, Save!Settled
<1>2. GoodRow(workflows[w], lastNodeId) /\ workflows[w] \in Save!Workflow
      BY <1>1 DEF SaveInv, RowsInv, GoodRow
<1> DEFINE c == IF \E n \in workflows[w].nodes : n.category = Save!TriggerTypeScheduled
                THEN None ELSE workflows[w].schedule
           v == [workflows[w] EXCEPT !.schedule = c, !.status = "archived"]
<1>3. c \in Configs \cup {None}
      BY <1>2 DEF Save!Workflow
<1>4. workflows' = [workflows EXCEPT ![w] = v]
      <2>1. workflows \in [Save!Wids -> Save!Workflow \cup {None}]
            BY DEF SaveInv, RowsInv
      <2>2. workflows' = [workflows EXCEPT ![w].status = "archived", ![w].schedule = c]
            BY DEF Save!ArchiveWorkflow
      <2> HIDE DEF c
      <2>3. QED
            BY <1>2, <2>1, <2>2 DEF Save!Workflow
<1> HIDE DEF c
<1>5. RowsInv' /\ Save!Stored' = Save!Stored /\ ArchiveStep
      BY <1>1, <1>3, <1>4, SameNodes
<1>6. CanvasInv'
      BY <1>1, <1>5, CanvasIsKept
<1>7. RequestsInv' /\ NoCommit
      BY <1>1, <1>5, RequestsAreKept, LastIsNatural DEF SaveInv
<1>8. QED
      BY <1>5, <1>6, <1>7, NoCommitNoDelta DEF SaveStep, SaveInv

\* A schedule follows a trigger.
LEMMA ScheduleFollows ==
  ASSUME SaveInv, NEW w \in Save!Stored, NEW c \in Configs \cup {None},
         workflows' = [workflows EXCEPT ![w].schedule = c], lastNodeId' = lastNodeId
  PROVE  RowsInv' /\ Save!Stored' = Save!Stored /\ ArchiveStep
<1> DEFINE v == [workflows[w] EXCEPT !.schedule = c]
<1>1. workflows[w] \in Save!Workflow /\ workflows \in [Save!Wids -> Save!Workflow \cup {None}]
      BY DEF SaveInv, RowsInv, GoodRow
<1>2. w \in Save!Wids
      BY DEF Save!Stored
<1>3. workflows' = [workflows EXCEPT ![w] = v]
      BY <1>1, <1>2
<1>4. v = [workflows[w] EXCEPT !.schedule = c, !.status = workflows[w].status]
      BY <1>1 DEF Save!Workflow
<1> HIDE DEF v
<1>5. QED
      BY <1>3, <1>4, SameNodes

LEMMA ExecuteTriggerStep ==
  ASSUME SaveInv, NEW i \in DOMAIN saves, Save!ExecuteTrigger(i)
  PROVE  SaveStep
<1> DEFINE w == saves[i].wid
<1>1. /\ saves[i].kind = "create" /\ saves[i].phase = "read"
      /\ UNCHANGED <<page, canvas, lastNodeId, canvasEdits>>
      BY DEF Save!ExecuteTrigger
<1>2. PICK ph \in {"stored", "failed"} : Save!Answer(i, ph)
      BY DEF Save!ExecuteTrigger
<1>3. GoodRequest(saves[i], Save!Stored, lastNodeId)
      BY DEF SaveInv, RequestsInv
<1>4. w \in Save!Stored /\ saves[i].nodes \in SUBSET Save!Node
      BY <1>1, <1>3 DEF GoodRequest, Save!Request
<1>5. \/ UNCHANGED workflows
      \/ \E c \in Configs : workflows' = [workflows EXCEPT ![w].schedule = c]
      BY <1>4 DEF Save!ExecuteTrigger, Save!Node
<1> HIDE DEF w
<1>6. RowsInv' /\ Save!Stored' = Save!Stored /\ ArchiveStep
      BY <1>1, <1>4, <1>5, RowsAreKept, ScheduleFollows
<1>7. CanvasInv'
      BY <1>1, <1>6, CanvasIsKept
<1>8. RequestsInv' /\ NoCommit
      BY <1>1, <1>2, <1>6, AnswerFits, LastIsNatural DEF SaveInv
<1>9. QED
      BY <1>6, <1>7, <1>8, NoCommitNoDelta DEF SaveStep, SaveInv

LEMMA ReadExistingStep ==
  ASSUME SaveInv, NEW i \in DOMAIN saves, Save!ReadExisting(i)
  PROVE  SaveStep
<1> DEFINE rows == workflows[saves[i].wid].nodes
           q == [saves[i] EXCEPT !.phase = "read", !.existing = rows]
<1>1. /\ saves[i].kind = "update" /\ saves[i].phase = "sent"
      /\ saves' = [saves EXCEPT ![i].phase = "read", ![i].existing = rows]
      /\ UNCHANGED <<page, canvas, workflows, lastNodeId, canvasEdits>>
      BY DEF Save!ReadExisting
<1>2. RowsInv' /\ Save!Stored' = Save!Stored /\ ArchiveStep
      BY <1>1, RowsAreKept
<1>3. CanvasInv'
      BY <1>1, <1>2, CanvasIsKept
<1>4. /\ saves \in [DOMAIN saves -> Save!Request]
      /\ GoodRequest(saves[i], Save!Stored, lastNodeId) /\ saves[i] \in Save!Request
      BY DEF SaveInv, RequestsInv, GoodRequest
<1>5. GoodRow(workflows[saves[i].wid], lastNodeId)
      BY <1>1, <1>4 DEF GoodRequest, SaveInv, RowsInv
<1>6. /\ rows \in SUBSET Save!Node /\ UniqueIds(rows)
      /\ \A n \in rows : n.id \in 1 .. lastNodeId
      BY <1>5 DEF GoodRow, Save!Workflow
<1> HIDE DEF rows
<1>7. saves' = [saves EXCEPT ![i] = q]
      BY <1>1, <1>4 DEF Save!Request
<1>8. /\ q \in Save!Request /\ q.kind = "update" /\ q.wid = saves[i].wid
      /\ q.nodes = saves[i].nodes /\ q.existing = rows /\ q.phase = "read"
      BY <1>1, <1>4, <1>6 DEF Save!Request
<1> HIDE DEF q
<1>9. GoodRequest(q, Save!Stored, lastNodeId)
      BY <1>1, <1>4, <1>6, <1>8 DEF GoodRequest
<1>10. GoodRequest(q, Save!Stored', lastNodeId')
      BY <1>1, <1>2, <1>9
<1>11. RequestsInv'
      <2>1. lastNodeId <= lastNodeId'
            BY <1>1, LastIsNatural DEF SaveInv
      <2>2. QED
            BY <1>2, <1>7, <1>10, <2>1, RequestChanges
<1>12. NoCommit
      BY <1>4, <1>7, <1>8 DEF NoCommit
<1>13. QED
      BY <1>2, <1>3, <1>11, <1>12, NoCommitNoDelta DEF SaveStep, SaveInv

LEMMA UpdateTriggersStep ==
  ASSUME SaveInv, NEW i \in DOMAIN saves, Save!UpdateTriggers(i)
  PROVE  SaveStep
<1> DEFINE r == saves[i]
           missing == {n \in r.nodes : n.id \in Save!RowIds \ Save!Ids(r.existing)}
<1>1. r.kind = "update" /\ r.phase = "read" /\ UNCHANGED <<page, canvas, lastNodeId, canvasEdits>>
      BY DEF Save!UpdateTriggers
<1>2. PICK ph \in {"triggered", "failed"} :
        Save!Answer(i, ph) /\ (ph = "triggered" => missing = {})
      BY DEF Save!UpdateTriggers
<1>3. GoodRequest(r, Save!Stored, lastNodeId)
      BY DEF SaveInv, RequestsInv
<1>4. r.wid \in Save!Stored /\ r.nodes \in SUBSET Save!Node
      BY <1>1, <1>3 DEF GoodRequest, Save!Request
<1>5. \/ UNCHANGED workflows
      \/ \E c \in Configs \cup {None} : workflows' = [workflows EXCEPT ![r.wid].schedule = c]
      <2>1. \A t \in Save!NodesToUpdate(r) : t.config \in Configs
            BY <1>4 DEF Save!NodesToUpdate, Save!Node
      <2>2. QED
            BY <2>1 DEF Save!UpdateTriggers
<1>6. RowsInv' /\ Save!Stored' = Save!Stored /\ ArchiveStep
      BY <1>1, <1>4, <1>5, RowsAreKept, ScheduleFollows
<1>7. CanvasInv'
      BY <1>1, <1>6, CanvasIsKept
<1>8. ph = "triggered" =>
        \A n \in r.nodes : n.id \in Save!RowIds => n.id \in Save!Ids(r.existing)
      BY <1>2
<1>9. RequestsInv' /\ NoCommit
      BY <1>1, <1>2, <1>6, <1>8, AnswerFits, LastIsNatural DEF SaveInv
<1>10. QED
      BY <1>6, <1>7, <1>9, NoCommitNoDelta DEF SaveStep, SaveInv

\* The transaction of an update, on whatever rows it finds.
LEMMA CommitUpdateStep ==
  ASSUME SaveInv, NEW i \in DOMAIN saves, Save!CommitUpdate(i)
  PROVE  SaveStep
<1> DEFINE r == saves[i]
           w == r.wid
           C == Save!NodesToCreate(r)
           R == Save!NewRows(C)
           U == Save!UpdatedRows(r, workflows[w].nodes, R)
           v == [workflows[w] EXCEPT !.nodes = U]
<1>1. /\ r.kind = "update" /\ r.phase = "triggered"
      /\ lastNodeId + Cardinality(C) <= MaxNodeId
      /\ workflows' = [workflows EXCEPT ![w].nodes = U]
      /\ lastNodeId' = lastNodeId + Cardinality(R)
      /\ Save!Answer(i, "ok")
      /\ UNCHANGED <<page, canvas, canvasEdits>>
      BY SameCardinality DEF Save!CommitUpdate
<1>2. /\ GoodRequest(r, Save!Stored, lastNodeId)
      /\ saves \in [DOMAIN saves -> Save!Request]
      BY DEF SaveInv, RequestsInv
<1>3. w \in Save!Stored /\ w \in Save!Wids
      BY <1>1, <1>2 DEF GoodRequest, Save!Stored
<1>4. /\ GoodRow(workflows[w], lastNodeId) /\ workflows[w] \in Save!Workflow
      /\ workflows \in [Save!Wids -> Save!Workflow \cup {None}]
      /\ lastNodeId \in 0 .. MaxNodeId /\ lastNodeId \in Nat
      BY <1>3, LastIsNatural DEF SaveInv, RowsInv, GoodRow
<1>5. ReadyToCommit(r)
      BY <1>1, <1>2, <1>4 DEF ReadyToCommit, GoodRequest
<1>6. /\ workflows[w].nodes \in SUBSET Save!Node /\ UniqueIds(workflows[w].nodes)
      /\ \A n \in workflows[w].nodes : n.id \in 1 .. lastNodeId
      BY <1>4 DEF GoodRow, Save!Workflow
<1> HIDE DEF r
<1>7. /\ U \in SUBSET Save!Node /\ UniqueIds(U)
      /\ \A n \in U : n.id \in 1 .. (lastNodeId + Cardinality(C))
      /\ Cardinality(C) \in Nat /\ Cardinality(R) = Cardinality(C)
      BY <1>5, <1>6, UpdatedRowsFit
<1> HIDE DEF U, R, C, w
<1>8. v \in Save!Workflow /\ v.nodes = U /\ v.status = workflows[w].status
      BY <1>4, <1>7 DEF Save!Workflow
<1>9. workflows' = [workflows EXCEPT ![w] = v]
      BY <1>1, <1>3, <1>4
<1>10. lastNodeId' \in 0 .. MaxNodeId /\ lastNodeId <= lastNodeId'
      BY <1>1, <1>4, <1>7, SaveNumbers
<1>11. GoodRow(v, lastNodeId')
      BY <1>1, <1>7, <1>8 DEF GoodRow
<1> HIDE DEF v
<1>12. RowsInv' /\ Save!Stored' = Save!Stored /\ ArchiveStep
      BY <1>3, <1>8, <1>9, <1>10, <1>11, RowChanges
<1>13. CanvasInv'
      BY <1>1, <1>12, CanvasIsKept
<1>14. RequestsInv'
      BY <1>1, <1>10, <1>12, AnswerFits DEF r
<1>15. DeltaStep
      <2> SUFFICES ASSUME NEW j \in DOMAIN saves,
                          saves[j].kind = "update", saves[j].phase = "triggered", saves'[j].phase = "ok",
                          workflows[saves[j].wid].nodes = saves[j].existing
                   PROVE  Save!Contents(workflows'[saves[j].wid].nodes) = Save!Contents(saves[j].nodes)
          BY DEF DeltaStep
      <2>1. j = i
            BY <1>1, <1>2 DEF Save!Answer
      <2>2. workflows[w].nodes = r.existing
            BY <2>1 DEF r, w
      <2>3. workflows'[w].nodes = U
            BY <1>3, <1>4, <1>8, <1>9
      <2>4. Save!Contents(U) = Save!Contents(r.nodes)
            BY <1>5, <2>2, SameContents DEF U, R, C
      <2>5. QED
            BY <2>1, <2>3, <2>4 DEF r, w
<1>16. QED
      BY <1>12, <1>13, <1>14, <1>15 DEF SaveStep, SaveInv

\* The rows are numbered without gaps, so that the next number is free.
LEMMA NextRowIsFree ==
  ASSUME RowsInv, Save!Stored # Save!Wids
  PROVE  LET w == Save!Cardinality(Save!Stored) + 1
         IN /\ w \in Save!Wids /\ w \notin Save!Stored
            /\ \E k \in 0 .. MaxWorkflows : Save!Stored \cup {w} = 1 .. k
<1>1. PICK k \in 0 .. MaxWorkflows : Save!Stored = 1 .. k
      BY DEF RowsInv
<1>2. k \in Nat /\ k < MaxWorkflows
      <2>1. k # MaxWorkflows
            BY <1>1 DEF Save!Wids
      <2>2. QED
            BY <2>1, SaveNumbers
<1>3. Cardinality(1 .. k) = k
      BY <1>2, FS_Interval
<1>4. Save!Cardinality(Save!Stored) = k
      BY <1>1, <1>3, SameCardinality
<1>5. k + 1 \in Save!Wids /\ k + 1 \notin 1 .. k /\ (1 .. k) \cup {k + 1} = 1 .. (k + 1)
      BY <1>2, SaveNumbers DEF Save!Wids
<1>6. k + 1 \in 0 .. MaxWorkflows
      BY <1>2, SaveNumbers
<1>7. QED
      BY <1>1, <1>4, <1>5, <1>6

LEMMA CreateWorkflowStep ==
  ASSUME SaveInv, NEW i \in DOMAIN saves, Save!CreateWorkflow(i)
  PROVE  SaveStep
<1> DEFINE w == Save!Cardinality(Save!Stored) + 1
           S == saves[i].nodes
           R == Save!NewRows(S)
           v == [nodes |-> R, schedule |-> None, status |-> "draft"]
           q == [saves[i] EXCEPT !.phase = "read", !.wid = w]
<1>1. /\ saves[i].kind = "create" /\ Save!Stored # Save!Wids
      /\ lastNodeId + Cardinality(S) <= MaxNodeId
      /\ workflows' = [workflows EXCEPT ![w] = v]
      /\ saves' = [saves EXCEPT ![i].phase = "read", ![i].wid = w]
      /\ lastNodeId' = lastNodeId + Cardinality(R)
      /\ UNCHANGED <<page, canvas, canvasEdits>>
      BY SameCardinality DEF Save!CreateWorkflow
<1>2. /\ w \in Save!Wids /\ w \notin Save!Stored
      /\ \E k \in 0 .. MaxWorkflows : Save!Stored \cup {w} = 1 .. k
      BY <1>1, NextRowIsFree DEF SaveInv
<1> HIDE DEF w
<1>3. /\ saves \in [DOMAIN saves -> Save!Request] /\ saves[i] \in Save!Request
      /\ GoodRequest(saves[i], Save!Stored, lastNodeId)
      BY DEF SaveInv, RequestsInv
<1>4. S \in SUBSET Save!Node /\ UniqueIds(S)
      BY <1>3 DEF GoodRequest, Save!Request
<1>5. /\ workflows \in [Save!Wids -> Save!Workflow \cup {None}]
      /\ \A x \in Save!Stored : GoodRow(workflows[x], lastNodeId)
      /\ lastNodeId \in Nat /\ lastNodeId <= MaxNodeId
      BY LastIsNatural DEF SaveInv, RowsInv
<1>6. Cardinality(S) \in Nat
      BY <1>4, NodesAreFinite
<1>7. /\ R \in SUBSET Save!Node /\ UniqueIds(R) /\ Cardinality(R) = Cardinality(S)
      /\ \A n \in R : n.id \in (lastNodeId + 1) .. (lastNodeId + Cardinality(S))
      BY <1>1, <1>4, <1>5, NewRowsFit
<1> HIDE DEF S, R
<1>8. /\ lastNodeId' = lastNodeId + Cardinality(S) /\ lastNodeId <= lastNodeId'
      /\ lastNodeId' \in 0 .. MaxNodeId /\ lastNodeId' \in Nat
      BY <1>1, <1>5, <1>6, <1>7, SaveNumbers
<1>9. v \in Save!Workflow /\ v # None /\ v.nodes = R
      BY <1>7, SaveAssumption DEF Save!Workflow
<1>10. GoodRow(v, lastNodeId')
      <2>1. \A x \in (lastNodeId + 1) .. (lastNodeId + Cardinality(S)) : x \in 1 .. lastNodeId'
            BY <1>5, <1>6, <1>8
      <2>2. QED
            BY <1>7, <1>9, <2>1 DEF GoodRow
<1> HIDE DEF v
<1>11. workflows'[w] = v /\ \A x \in Save!Wids \ {w} : workflows'[x] = workflows[x]
      BY <1>1, <1>2, <1>5
<1>12. Save!Stored' = Save!Stored \cup {w}
      BY <1>2, <1>9, <1>11 DEF Save!Stored
<1>13. ASSUME NEW x \in Save!Stored PROVE GoodRow(workflows'[x], lastNodeId')
      <2>1. workflows'[x] = workflows[x]
            BY <1>2, <1>11 DEF Save!Stored
      <2>2. GoodRow(workflows[x], lastNodeId')
            BY <1>5, <1>8, RowStaysGood
      <2>3. QED
            BY <2>1, <2>2
<1>14. RowsInv'
      <2>1. workflows' \in [Save!Wids -> Save!Workflow \cup {None}]
            BY <1>1, <1>5, <1>9
      <2>2. \A x \in Save!Stored' : GoodRow(workflows'[x], lastNodeId')
            BY <1>10, <1>11, <1>12, <1>13
      <2>3. QED
            BY <1>2, <1>8, <1>12, <2>1, <2>2 DEF RowsInv
<1>15. ArchiveStep
      BY <1>2, <1>11 DEF ArchiveStep, Save!Stored
<1>16. CanvasInv'
      BY <1>1, <1>12, CanvasIsKept
<1>17. saves' = [saves EXCEPT ![i] = q]
      BY <1>1, <1>3 DEF Save!Request
<1>18. /\ q \in Save!Request /\ q.kind = "create" /\ q.wid = w
       /\ q.nodes = saves[i].nodes /\ q.existing = saves[i].existing /\ q.phase = "read"
      BY <1>1, <1>2, <1>3 DEF Save!Request, Save!Pages
<1> HIDE DEF q
<1>19. GoodRequest(saves[i], Save!Stored', lastNodeId')
      BY <1>3, <1>5, <1>8, <1>12, GoodStaysGood
<1>20. GoodRequest(q, Save!Stored', lastNodeId')
      BY <1>12, <1>18, <1>19 DEF GoodRequest
<1>21. RequestsInv'
      BY <1>8, <1>12, <1>14, <1>17, <1>20, RequestChanges
<1>22. NoCommit
      BY <1>3, <1>17, <1>18 DEF NoCommit
<1>23. QED
      BY <1>14, <1>15, <1>16, <1>21, <1>22, NoCommitNoDelta DEF SaveStep, SaveInv

LEMMA SaveInitially == Save!Init => SaveInv
<1> SUFFICES ASSUME Save!Init PROVE SaveInv
    OBVIOUS
<1>1. Save!Stored = {} /\ {} = 1 .. 0 /\ 0 \in 0 .. MaxWorkflows
      BY SaveNumbers DEF Save!Init, Save!Stored
<1>2. CanvasInv
      BY SaveNumbers DEF CanvasInv, Save!Init, Save!Pages, UniqueIds
<1>3. RowsInv
      BY <1>1, SaveNumbers DEF RowsInv, Save!Init
<1>4. DOMAIN saves = {} /\ saves \in [DOMAIN saves -> Save!Request]
      BY DEF Save!Init
<1>5. QED
      BY <1>2, <1>3, <1>4 DEF SaveInv, RequestsInv

LEMMA SaveKeeps ==
  ASSUME SaveInv, [Save!Next]_saveVars
  PROVE  SaveInv' /\ [DeltaStep]_saveVars /\ [ArchiveStep]_saveVars
<1>1. CASE UNCHANGED saveVars
      <2>1. UNCHANGED <<page, canvas, workflows, lastNodeId, saves, canvasEdits>>
            BY <1>1 DEF saveVars
      <2>2. RowsInv' /\ Save!Stored' = Save!Stored
            BY <2>1, RowsAreKept
      <2>3. QED
            BY <1>1, <2>1, <2>2, CanvasIsKept, RequestsAreKept, LastIsNatural DEF SaveInv
<1>2. CASE Save!User
      BY <1>2, CanvasSteps, OpenPageStep, SendSteps, ArchiveWorkflowStep DEF Save!User, SaveStep
<1>3. ASSUME NEW i \in DOMAIN saves, Save!Server(i) PROVE SaveStep
      BY <1>3, RefuseSteps, CreateWorkflowStep, ExecuteTriggerStep, CreateReturnsStep,
         ReadExistingStep, UpdateTriggersStep, CommitUpdateStep DEF Save!Server
<1>4. QED
      BY <1>1, <1>2, <1>3 DEF Save!Next, SaveStep

\* An update that nobody interfered with stores what it was sent, ids aside,
\* whatever was saved, read and configured before: the delta of UpdateWorkflow
\* deletes, updates and creates exactly what differs.
THEOREM DeltaIsAlwaysExact == ServicesSpec => DeltaIsExact
<1>1. ServicesInit => SaveInv
      BY SaveInitially DEF ServicesInit
<1>2. SaveInv /\ [ServicesNext]_servicesVars => SaveInv' /\ [DeltaStep]_saveVars
      BY SaveSteps, SaveKeeps
<1>3. QED
      BY <1>1, <1>2, PTL DEF ServicesSpec, DeltaIsExact, Save!DeltaIsExact, DeltaStep, Save!vars, saveVars

\* An archived workflow stays archived, whatever updates are in flight and
\* whatever is created beside it: no row is ever overwritten by a new one
\* (ArchiveWorkflow, UpdateWorkflow, CreateWorkflow).
THEOREM ArchivingIsFinal == ServicesSpec => ArchiveIsFinal
<1>1. ServicesInit => SaveInv
      BY SaveInitially DEF ServicesInit
<1>2. SaveInv /\ [ServicesNext]_servicesVars => SaveInv' /\ [ArchiveStep]_saveVars
      BY SaveSteps, SaveKeeps
<1>3. QED
      BY <1>1, <1>2, PTL DEF ServicesSpec, ArchiveIsFinal, Save!ArchiveIsFinal, ArchiveStep, Save!vars,
         saveVars

-----------------------------------------------------------------------------
(* The types of all services, from the invariants of each.                 *)

PollerBounds ==
  now \in 0 .. MaxNow /\ oldest \in Nat /\ calendarEdits + failures <= MaxTroubles

LEMMA PollerNumbers == {MaxNow, MaxTroubles} \subseteq Nat
BY PollerAssumption

LEMMA PollerBoundsStep ==
  ASSUME PollerType, PollerBounds, [Poller!Next]_pollerVars
  PROVE  PollerBounds'
<1>1. Len(log) \in Nat
      BY DEF PollerType
<1>2. now' \in {now, now + 1} /\ (now' # now => now < MaxNow)
      BY DEF Poller!Next, pollerVars, Poller!PollStep, Poller!GetActiveCalendars, Poller!GetEvents,
         Poller!ErrSyncTokenExpired, Poller!GetEventsFails, Poller!MatchEvent, Poller!TryEventClaim,
         Poller!OrchestrateWorkflow, Poller!OrchestrateFails, Poller!UpdateWorkflowCalendar,
         Poller!UpdateFails, Poller!Crash, Poller!Update, Poller!TokensExpire, Poller!CancelEvent,
         Poller!Tick, Poller!world
<1>3. oldest' \in {oldest, Len(log)}
      BY DEF Poller!Next, pollerVars, Poller!PollStep, Poller!GetActiveCalendars, Poller!GetEvents,
         Poller!ErrSyncTokenExpired, Poller!GetEventsFails, Poller!MatchEvent, Poller!TryEventClaim,
         Poller!OrchestrateWorkflow, Poller!OrchestrateFails, Poller!UpdateWorkflowCalendar,
         Poller!UpdateFails, Poller!Crash, Poller!Update, Poller!TokensExpire, Poller!CancelEvent,
         Poller!Tick, Poller!world
<1>4. \/ calendarEdits' = calendarEdits /\ failures' = failures
      \/ /\ calendarEdits + failures < MaxTroubles
         /\ \/ calendarEdits' = calendarEdits + 1 /\ failures' = failures
            \/ calendarEdits' = calendarEdits /\ failures' = failures + 1
      BY DEF Poller!Next, pollerVars, Poller!PollStep, Poller!GetActiveCalendars, Poller!GetEvents,
         Poller!ErrSyncTokenExpired, Poller!GetEventsFails, Poller!MatchEvent, Poller!TryEventClaim,
         Poller!OrchestrateWorkflow, Poller!OrchestrateFails, Poller!UpdateWorkflowCalendar,
         Poller!UpdateFails, Poller!Crash, Poller!Update, Poller!TokensExpire, Poller!CancelEvent,
         Poller!Tick, Poller!Fails, Poller!Failure
<1>5. calendarEdits \in Nat /\ failures \in Nat
      BY DEF PollerType
<1>6. calendarEdits' + failures' <= MaxTroubles
      BY <1>4, <1>5, PollerNumbers DEF PollerBounds
<1>7. QED
      BY <1>1, <1>2, <1>3, <1>6, PollerNumbers DEF PollerBounds

LEMMA PollerIsTyped == PollerType /\ PollerBounds => Poller!TypeOK
<1> SUFFICES ASSUME PollerType, PollerBounds PROVE Poller!TypeOK
    OBVIOUS
<1>1. ASSUME NEW p \in Pollers
      PROVE  /\ poller[p].step \in {"idle", "fetch", "match", "claim", "run"}
             /\ poller[p].step # "idle" =>
                  /\ poller[p].condition \in Conditions /\ poller[p].minutes \in Minutes
                  /\ poller[p].token \in Poller!Token
             /\ poller[p].step = "run" => poller[p].event \in Events
      <2>1. /\ poller[p] \in BusyPoller \cup {Poller!Idle}
            /\ poller[p].step = "run" => poller[p].event \in Events
            BY DEF PollerType, PollersType
      <2>2. CASE poller[p] \in BusyPoller
            BY <2>1, <2>2 DEF BusyPoller, Poller!Token
      <2>3. CASE poller[p] = Poller!Idle
            BY <2>3 DEF Poller!Idle
      <2>4. QED
            BY <2>1, <2>2, <2>3
<1>2. /\ calendar \in [state : {"queued", "running"}, token : Poller!Token,
                      condition : Conditions, minutes : Minutes]
      /\ now \in 0 .. MaxNow /\ log \in Seq(Events) /\ oldest \in Nat
      BY DEF PollerType, PollerBounds, CalendarRow, Poller!Token
<1>3. /\ claims \in [Events -> Nat] /\ late \subseteq Events
      /\ runs \in [Events -> [Conditions -> Nat]]
      /\ calendarEdits \in Nat /\ failures \in Nat /\ calendarEdits + failures <= MaxTroubles
      BY DEF PollerType, PollerBounds
<1>4. QED
      BY <1>1, <1>2, <1>3, Zenon DEF Poller!TypeOK

LEMMA GraphIsTyped == GraphInv => Graph!TypeOK
<1> SUFFICES ASSUME GraphInv PROVE Graph!TypeOK
    OBVIOUS
<1>1. order \in Seq(Nodes) /\ at \in 0 .. Len(order)
      <2>1. CASE order = <<>>
            <3>1. order \in Seq(Nodes) /\ Len(order) = 0
                  BY <2>1
            <3>2. at = 0
                  BY <2>1 DEF GraphInv, GraphType
            <3>3. QED
                  BY <3>1, <3>2
      <2>2. CASE order # <<>>
            <3>1. order \in [1 .. N -> Nodes] /\ at \in 0 .. N
                  BY <2>2, NodesAreCounted DEF GraphInv, GraphType, Graph!TopSort
            <3>2. order \in Seq(Nodes) /\ Len(order) = N
                  BY <3>1, NodesAreCounted, LenProperties, SeqDef
            <3>3. QED
                  BY <3>1, <3>2
      <2>3. QED
            BY <2>1, <2>2
<1>2. \A n \in DOMAIN level : level[n] \in 0 .. N - 1
      <2>1. CASE order = <<>>
            BY <2>1 DEF GraphInv, GraphType
      <2>2. CASE order # <<>>
            <3> SUFFICES ASSUME NEW n \in DOMAIN level PROVE level[n] \in 0 .. N - 1
                OBVIOUS
            <3>1. order \in Graph!TopSort(edges) /\ n \in Nodes
                  BY <2>2 DEF GraphInv, GraphType
            <3>2. PICK i \in 1 .. N : order[i] = n
                  BY <3>1, OrderHasAll
            <3>3. level[n] \in 0 .. i - 1
                  BY <2>2, <3>2 DEF GraphInv, LevelsFit
            <3>4. QED
                  BY <3>3, NodesAreCounted
      <2>3. QED
            BY <2>1, <2>2
<1>3. QED
      BY <1>1, <1>2, NodesAreCounted DEF Graph!TypeOK, GraphInv, GraphType, Ends

LEMMA SaveIsTyped == SaveInv => Save!TypeOK
<1> SUFFICES ASSUME SaveInv PROVE Save!TypeOK
    OBVIOUS
<1>1. ASSUME NEW w \in Save!Wids, workflows[w] # None, NEW n \in workflows[w].nodes
      PROVE  n.id \in Save!RowIds
      <2>1. w \in Save!Stored
            BY <1>1 DEF Save!Stored
      <2>2. n.id \in 1 .. lastNodeId
            BY <2>1 DEF SaveInv, RowsInv, GoodRow
      <2>3. QED
            BY <2>2, LastIsNatural, SaveNumbers DEF SaveInv, Save!RowIds
<1>2. QED
      BY <1>1 DEF Save!TypeOK, SaveInv, CanvasInv, RowsInv, RequestsInv

\* Every service keeps to its types, for any number of events, graphs, nodes
\* and requests.
THEOREM ServicesAreTyped == ServicesSpec => []ServicesTypeOK
<1> DEFINE Inv == BrokerInv /\ PollerType /\ PollerBounds /\ GoogleInv /\ GraphInv /\ SaveInv /\ part \in Parts
<1>1. ServicesInit => Inv
      <2>1. Poller!Init => PollerBounds
            BY PollerNumbers DEF Poller!Init, PollerBounds
      <2>2. QED
            BY <2>1, BrokerInit, PollerTypeInit, GoogleInit, GraphInit, SaveInitially DEF ServicesInit
<1>2. Inv /\ [ServicesNext]_servicesVars => Inv'
      <2>1. part \in Parts /\ [ServicesNext]_servicesVars => (part \in Parts)'
            BY DEF ServicesNext, servicesVars, Others
      <2>2. QED
            BY <2>1, BrokerSteps, PollerSteps, GoogleSteps, GraphSteps, SaveSteps, BrokerNext, PollerCases,
               PollerBoundsStep, GoogleStep, GraphStep, SaveKeeps
<1>3. Inv => ServicesTypeOK
      BY PollerIsTyped, GraphIsTyped, SaveIsTyped DEF BrokerInv, GoogleInv, ServicesTypeOK, Parts
<1>4. QED
      BY <1>1, <1>2, <1>3, PTL DEF ServicesSpec
=============================================================================
