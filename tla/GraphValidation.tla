--------------------------- MODULE GraphValidation ---------------------------
(***************************************************************************)
(* ValidateWorkflowGraph: the check that every workflow passes before it   *)
(* is stored and before it is run.  Edges must join known nodes, the graph *)
(* must be free of cycles, and nodes get levels on the way along a         *)
(* topological order.  Which of the topological orders graph.TopSort       *)
(* returns is left open.                                                   *)
(***************************************************************************)
EXTENDS Naturals, Sequences, FiniteSets

CONSTANTS
  Nodes,                  \* the ids of the nodes, which are not empty
  Unknown,                \* an id that no node has
  MaxEdges                \* bound: edges between known nodes

VARIABLES
  edges,                  \* the input
  order,                  \* what TopSort returned
  at,                     \* how many nodes of it have been visited
  level,                  \* as in the code: of the nodes that have one
  verdict                 \* "none" until the function returns
vars == <<edges, order, at, level, verdict>>

TypeOK ==
  /\ edges \subseteq (Nodes \cup {Unknown}) \X (Nodes \cup {Unknown})
  /\ order \in Seq(Nodes) /\ at \in 0 .. Len(order)
  /\ DOMAIN level \subseteq Nodes
  /\ \A n \in DOMAIN level : level[n] \in 0 .. Cardinality(Nodes) - 1
  /\ verdict \in {"none", "invalid edge", "cycle detected", "invalid relationship", "valid"}

Return(what) == verdict' = what

-----------------------------------------------------------------------------
(* The topological order.                                                  *)

\* The orders of the nodes that go along the edges; none if there is a cycle.
TopSort(E) ==
  {s \in [1 .. Cardinality(Nodes) -> Nodes] :
     /\ \A i, j \in DOMAIN s : s[i] = s[j] => i = j
     /\ \A i, j \in DOMAIN s : <<s[i], s[j]>> \in E => i < j}

KnownEnds == \A e \in edges : {e[1], e[2]} \subseteq Nodes

InvalidEdge ==
  /\ verdict = "none" /\ order = <<>>
  /\ ~KnownEnds
  /\ Return("invalid edge")
  /\ UNCHANGED <<edges, order, at, level>>

Sort ==
  /\ verdict = "none" /\ order = <<>>
  /\ KnownEnds
  /\ IF TopSort(edges) = {} THEN Return("cycle detected") /\ UNCHANGED order
                            ELSE order' \in TopSort(edges) /\ UNCHANGED verdict
  /\ UNCHANGED <<edges, at, level>>

-----------------------------------------------------------------------------
(* The levels.                                                             *)

children(n) == {c \in Nodes : <<n, c>> \in edges}

\* Mutant: the child may not be one level below either.
NotBelow(parent, child) == parent > 0 /\ child > 0 /\ parent + 1 >= child

\* A child that has a level must be below its parent, unless one is a root.
invalidLevel(parent, child) == parent > 0 /\ child > 0 /\ parent >= child

childLevel(parentLevel) == parentLevel + 1

\* A node without a level is a root; its children get the next level each.
Visit ==
  /\ verdict = "none" /\ order # <<>> /\ at < Len(order)
  /\ LET n == order[at + 1]
         parentLevel == IF n \in DOMAIN level THEN level[n] ELSE 0
     IN IF \E c \in children(n) \cap DOMAIN level : invalidLevel(parentLevel, level[c])
        THEN /\ Return("invalid relationship")
             /\ UNCHANGED <<at, level>>
        ELSE /\ level' = [m \in DOMAIN level \cup {n} \cup children(n) |->
                            IF m \in children(n) THEN childLevel(parentLevel)
                            ELSE IF m = n THEN parentLevel ELSE level[m]]
             /\ at' = at + 1
             /\ UNCHANGED verdict
  /\ UNCHANGED <<edges, order>>

Accept ==
  /\ verdict = "none" /\ order # <<>> /\ at = Len(order)
  /\ Return("valid")
  /\ UNCHANGED <<edges, order, at, level>>

-----------------------------------------------------------------------------
\* Every graph of that size, and each with an edge that leads nowhere.
Init ==
  /\ \E E \in SUBSET (Nodes \X Nodes), n \in Nodes :
       /\ Cardinality(E) <= MaxEdges
       /\ edges \in {E, E \cup {<<n, Unknown>>}}
  /\ order = <<>> /\ at = 0 /\ level = <<>> /\ verdict = "none"

Next == InvalidEdge \/ Sort \/ Visit \/ Accept

Spec == Init /\ [][Next]_vars

-----------------------------------------------------------------------------
(* Properties.                                                             *)

\* No set of nodes in which everybody has a parent: what being free of cycles
\* means, without an order.
Acyclic ==
  \A S \in (SUBSET Nodes) \ {{}} : \E n \in S : \A m \in S : <<m, n>> \notin edges

\* The distance from the roots is the same along every path.
Layered ==
  \E rank \in [Nodes -> 0 .. Cardinality(Nodes) - 1] :
    /\ \A e \in edges : rank[e[2]] = rank[e[1]] + 1
    /\ \A n \in Nodes : (\A e \in edges : e[2] # n) => rank[n] = 0

\* What ValidateWorkflowGraph accepts can be run: every edge has its nodes,
\* and the executor, which waits for all the parents of a node, never waits
\* for a node that waits for it.
AcceptedIsRunnable == verdict = "valid" => KnownEnds /\ Acyclic

\* A graph whose paths to a node all have the same length is accepted whatever
\* order TopSort returns, with the levels being the distances from the roots:
\* no two nodes overwrite each other's idea of a level.
LayeredIsAccepted ==
  verdict # "none" /\ KnownEnds /\ Layered =>
    /\ verdict = "valid"
    /\ \A e \in edges : level[e[2]] = level[e[1]] + 1

=============================================================================
