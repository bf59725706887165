-------------------------- MODULE StatechartProofs --------------------------
(***************************************************************************)
(* Facts about the operators of Statechart, for every chart the loader     *)
(* accepts: what lies above and below a node, the domain of a transition   *)
(* and what preemption keeps.                                              *)
(***************************************************************************)
EXTENDS Statechart, SequenceTheorems, WellFoundedInduction, TLAPS

-----------------------------------------------------------------------------
(***************************************************************************)
(* Natural numbers: least and greatest elements, and induction over a set. *)
(***************************************************************************)
LEMMA LeastNumber ==
    ASSUME NEW S \in SUBSET Nat, S # {}
    PROVE  \E k \in S : \A i \in S : k <= i
  <1> DEFINE Less == {ss \in Nat \X Nat : ss[1] < ss[2]}
  <1>1. IsWellFoundedOn(Less, Nat)
    BY NatLessThanWellFounded, Zenon DEF OpToRel
  <1>2. PICK k \in S : \A i \in S : ~ <<i, k>> \in Less
    BY <1>1, WFMin, Zenon
  <1>3. \A i, j \in Nat : i < j => <<i, j>> \in Less
    OBVIOUS
  <1> HIDE DEF Less
  <1>4. ASSUME NEW i \in S PROVE k <= i
    <2>1. i \in Nat /\ k \in Nat /\ ~ <<i, k>> \in Less
      BY <1>2
    <2>2. ~ (i < k)
      BY <2>1, <1>3, Zenon
    <2> QED  BY <2>1, <2>2
  <1> QED  BY <1>4

LEMMA GreatestNumber ==
    ASSUME NEW S \in SUBSET Nat, S # {}, NEW b \in Nat, \A i \in S : i <= b
    PROVE  \E k \in S : \A i \in S : i <= k
  <1> DEFINE U == {u \in Nat : \A i \in S : i <= u}
  <1>1. PICK k \in U : \A i \in U : k <= i
    BY LeastNumber
  <1>2. k \in S
    <2> SUFFICES ASSUME k \notin S PROVE FALSE  OBVIOUS
    <2>1. PICK i \in S : TRUE  OBVIOUS
    <2>2. k - 1 \in U
      BY <2>1
    <2> QED  BY <2>2, <1>1
  <1> QED  BY <1>2

\* A set that holds 0 and with every k < b its successor holds all up to b.
LEMMA Induct ==
    ASSUME NEW b \in Nat, NEW S,
           0 \in S, \A k \in 0 .. b : k < b /\ k \in S => k + 1 \in S
    PROVE  \A k \in 0 .. b : k \in S
  <1> SUFFICES ASSUME NEW m \in 0 .. b, m \notin S PROVE FALSE  OBVIOUS
  <1> DEFINE U == {k \in 0 .. b : k \notin S}
  <1>a. U \in SUBSET Nat /\ U # {}
    OBVIOUS
  <1>1. PICK k \in U : \A i \in U : k <= i
    BY <1>a, LeastNumber, Zenon
  <1>2. k # 0 /\ k - 1 \in 0 .. b /\ k - 1 \notin U
    BY <1>1
  <1> QED  BY <1>2

-----------------------------------------------------------------------------
(***************************************************************************)
(* The tree.                                                               *)
(***************************************************************************)
LEMMA NodeFacts ==
    /\ Root \in Node /\ NoNode \notin Node
    /\ DocOrder \in [Node -> Nat]
    /\ \A n \in Node : DocOrder[n] \in 1 .. Len(Nodes) /\ Nodes[DocOrder[n]] = n
    /\ \A n, m \in Node : DocOrder[n] = DocOrder[m] => n = m
  <1>1. Nodes \in Seq(Node) /\ Nodes # <<>> /\ NoNode \notin Node
    BY ChartAssumption DEF WellFormedTree
  <1>2. Len(Nodes) \in Nat /\ DOMAIN Nodes = 1 .. Len(Nodes) /\ 1 \in DOMAIN Nodes
    BY <1>1
  <1>3. Root \in Node
    BY <1>2 DEF Root, Node, Range
  <1>4. \A n \in Node : DocOrder[n] \in DOMAIN Nodes /\ Nodes[DocOrder[n]] = n
    BY DEF DocOrder, Node, Range
  <1>5. DocOrder = [n \in Node |-> DocOrder[n]]
    BY DEF DocOrder
  <1> QED  BY <1>1, <1>2, <1>3, <1>4, <1>5

\* The root comes first.
LEMMA RootFirst == \A n \in Node : DocOrder[Root] <= DocOrder[n]
  <1>1. 1 \in DOMAIN Nodes /\ \A i, k \in DOMAIN Nodes : Nodes[i] = Nodes[k] => i = k
    BY ChartAssumption DEF WellFormedTree, IsInjective
  <1>2. DocOrder[Root] = 1
    BY <1>1, NodeFacts DEF Root
  <1> QED  BY <1>2, NodeFacts

LEMMA ParentFacts ==
    /\ Kind \in [Node -> Kinds]
    /\ Parent \in [Node -> Node \cup {NoNode}] /\ Parent[Root] = NoNode
    /\ \A n \in Node \ {Root} :
          /\ Parent[n] \in Node /\ DocOrder[Parent[n]] < DocOrder[n]
          /\ Kind[Parent[n]] \in {"compound", "parallel"}
    /\ \A n \in Node : Parent[n] = NoNode <=> n = Root
  BY ChartAssumption, NodeFacts DEF WellFormedTree

\* Of any nodes there is a first.
LEMMA FirstOf ==
    ASSUME NEW S \in SUBSET Node, S # {}
    PROVE  First(S) \in S /\ \A m \in S : DocOrder[First(S)] <= DocOrder[m]
  <1> DEFINE N == {DocOrder[n] : n \in S}
  <1>a. N \in SUBSET Nat /\ N # {}
    BY NodeFacts
  <1>1. PICK k \in N : \A i \in N : k <= i
    BY <1>a, LeastNumber, Zenon
  <1>2. PICK n \in S : k = DocOrder[n]
    BY <1>1
  <1>3. \A m \in S : DocOrder[n] <= DocOrder[m]
    BY <1>1, <1>2
  <1> QED  BY <1>3, Zenon DEF First

\* Of any nodes there is an innermost.
LEMMA InnermostOf ==
    ASSUME NEW S \in SUBSET Node, S # {}
    PROVE  Innermost(S) \in S /\ \A m \in S : DocOrder[m] <= DocOrder[Innermost(S)]
  <1> DEFINE N == {DocOrder[n] : n \in S}
  <1>1. Len(Nodes) \in Nat /\ \A i \in N : i \in Nat /\ i <= Len(Nodes)
    BY NodeFacts, ChartAssumption DEF WellFormedTree
  <1>2. PICK k \in N : \A i \in N : i <= k
    BY <1>1, GreatestNumber
  <1>3. PICK n \in S : k = DocOrder[n]
    BY <1>2
  <1>4. \A m \in S : DocOrder[m] <= DocOrder[n]
    BY <1>2, <1>3
  <1> QED  BY <1>4, Zenon DEF Innermost

\* Induction along the tree: from every parent to its children.
LEMMA TreeInduct ==
    ASSUME NEW S, \A n \in Node : (n # Root => Parent[n] \in S) => n \in S
    PROVE  Node \subseteq S
  <1> SUFFICES ASSUME Node \ S # {} PROVE FALSE  OBVIOUS
  <1> DEFINE n == First(Node \ S)
  <1>1. n \in Node /\ n \notin S /\ \A m \in Node \ S : DocOrder[n] <= DocOrder[m]
    BY FirstOf
  <1> HIDE DEF n
  <1>2. CASE n = Root
    BY <1>1, <1>2
  <1>3. CASE n # Root
    <2>1. Parent[n] \in Node /\ DocOrder[Parent[n]] < DocOrder[n]
      BY <1>1, <1>3, ParentFacts
    <2>2. Parent[n] \in S
      BY <2>1, <1>1, NodeFacts
    <2> QED  BY <2>2, <1>1
  <1> QED  BY <1>2, <1>3

\* The recursion over parents ends: there are such ancestors.
LEMMA AncestorsExist ==
    \E above : above = [n \in Node |-> IF Parent[n] = NoNode THEN {}
                                       ELSE {Parent[n]} \cup above[Parent[n]]]
  <1> DEFINE Rule(g, n) == IF Parent[n] = NoNode THEN {}
                           ELSE {Parent[n]} \cup g[Parent[n]]
             Good(g, k) == \A n \in Node : DocOrder[n] <= k => g[n] = Rule(g, n)
             S == {k \in 0 .. Len(Nodes) : \E g \in [Node -> SUBSET Node] : Good(g, k)}
  <1>1. Len(Nodes) \in Nat
    BY ChartAssumption DEF WellFormedTree
  <1>2. 0 \in S
    <2> DEFINE none == [n \in Node |-> {}]
    <2>1. none \in [Node -> SUBSET Node]
      OBVIOUS
    <2>2. Good(none, 0)
      BY NodeFacts
    <2>3. 0 \in 0 .. Len(Nodes)
      BY <1>1
    <2> HIDE DEF none, Good
    <2> QED  BY <2>1, <2>2, <2>3
  <1>3. ASSUME NEW k \in 0 .. Len(Nodes), k < Len(Nodes), k \in S PROVE k + 1 \in S
    <2>1. PICK g \in [Node -> SUBSET Node] : Good(g, k)
      BY <1>3
    <2> DEFINE next == [n \in Node |-> IF DocOrder[n] <= k THEN g[n] ELSE Rule(g, n)]
    <2>2. next \in [Node -> SUBSET Node]
      BY ParentFacts
    <2>3. ASSUME NEW n \in Node, DocOrder[n] <= k + 1 PROVE next[n] = Rule(next, n)
      <3>1. next[n] = Rule(g, n)
        BY <2>1, <2>3
      <3>2. CASE n = Root
        BY <3>1, <3>2, ParentFacts
      <3>3. CASE n # Root
        <4>1. Parent[n] \in Node /\ Parent[n] # NoNode /\ DocOrder[Parent[n]] < DocOrder[n]
          BY <3>3, ParentFacts, NodeFacts
        <4>2. DocOrder[Parent[n]] <= k
          BY <4>1, <2>3, <1>3, NodeFacts
        <4>3. next[Parent[n]] = g[Parent[n]]
          BY <4>1, <4>2
        <4> QED  BY <3>1, <4>1, <4>3
      <3> QED  BY <3>2, <3>3
    <2>4. k + 1 \in 0 .. Len(Nodes)
      BY <1>1, <1>3
    <2>5. Good(next, k + 1)
      BY <2>3
    <2> HIDE DEF next, Good
    <2> QED  BY <2>2, <2>4, <2>5
  <1>4. Len(Nodes) \in S
    <2> HIDE DEF S
    <2>1. \A k \in 0 .. Len(Nodes) : k < Len(Nodes) /\ k \in S => k + 1 \in S
      BY <1>3
    <2>2. \A k \in 0 .. Len(Nodes) : k \in S
      BY <1>1, <1>2, <2>1, Induct, Zenon
    <2> QED  BY <1>1, <2>2
  <1>5. PICK g \in [Node -> SUBSET Node] : Good(g, Len(Nodes))
    BY <1>4
  <1>6. g = [n \in Node |-> Rule(g, n)]
    BY <1>5, NodeFacts
  <1> QED  BY <1>6

LEMMA AncestorFacts ==
    /\ ProperAncestors \in [Node -> SUBSET Node]
    /\ ProperAncestors[Root] = {}
    /\ \A n \in Node \ {Root} :
          ProperAncestors[n] = {Parent[n]} \cup ProperAncestors[Parent[n]]
  <1> DEFINE above == CHOOSE above : above = [n \in Node |-> IF Parent[n] = NoNode THEN {}
                                       ELSE {Parent[n]} \cup above[Parent[n]]]
             A == ProperAncestors
  <1>1. above = [n \in Node |-> IF Parent[n] = NoNode THEN {}
                                ELSE {Parent[n]} \cup above[Parent[n]]]
    BY AncestorsExist, Zenon
  <1>2. A = [n \in Node |-> above[n]]
    BY Zenon DEF ProperAncestors
  <1> HIDE DEF above, A
  <1>3. \A n \in Node : A[n] = IF Parent[n] = NoNode THEN {}
                               ELSE {Parent[n]} \cup A[Parent[n]]
    BY <1>1, <1>2, ParentFacts
  <1>4. A = [n \in Node |-> A[n]]
    BY <1>2
  <1> DEFINE S == {n \in Node : A[n] \subseteq Node}
  <1>5. Node \subseteq S
    <2>1. \A n \in Node : (n # Root => Parent[n] \in S) => n \in S
      BY <1>3, ParentFacts
    <2> HIDE DEF S
    <2> QED  BY <2>1, TreeInduct, Zenon
  <1> QED  BY <1>3, <1>4, <1>5, ParentFacts, NodeFacts DEF A

LEMMA BelowFacts ==
    /\ Below[NoNode] = {}
    /\ \A n \in Node : Below[n] \in SUBSET Node
    /\ \A n, d \in Node : d \in Below[n] <=> n \in ProperAncestors[d]
  BY AncestorFacts, NodeFacts DEF Below

\* Ancestors come earlier, have children and are no history states.
LEMMA AncestorsEarlier ==
    \A n \in Node : \A a \in ProperAncestors[n] :
        /\ a \in Node \ History /\ DocOrder[a] < DocOrder[n]
        /\ Kind[a] \in {"compound", "parallel"}
  <1> DEFINE S == {n \in Node : \A a \in ProperAncestors[n] :
                      a \in Node /\ DocOrder[a] < DocOrder[n]
                      /\ Kind[a] \in {"compound", "parallel"}}
  <1>1. ASSUME NEW n \in Node, n # Root => Parent[n] \in S PROVE n \in S
    <2>1. CASE n = Root
      BY <2>1, AncestorFacts
    <2>2. CASE n # Root
      <3>1. /\ Parent[n] \in Node /\ DocOrder[Parent[n]] < DocOrder[n]
            /\ Kind[Parent[n]] \in {"compound", "parallel"}
            /\ ProperAncestors[n] = {Parent[n]} \cup ProperAncestors[Parent[n]]
        BY <2>2, ParentFacts, AncestorFacts
      <3>2. \A a \in ProperAncestors[Parent[n]] :
                /\ a \in Node /\ DocOrder[a] < DocOrder[Parent[n]]
                /\ Kind[a] \in {"compound", "parallel"}
        BY <1>1, <2>2
      <3> QED  BY <3>1, <3>2, NodeFacts
    <2> QED  BY <2>1, <2>2
  <1>2. Node \subseteq S
    <2> HIDE DEF S
    <2> QED  BY <1>1, TreeInduct, Zenon
  <1> QED  BY <1>2 DEF History

\* What lies below a node follows it without a gap.
LEMMA DepthFirst ==
    \A n \in Node : \A d \in Below[n] : \A m \in Node :
        DocOrder[n] < DocOrder[m] /\ DocOrder[m] <= DocOrder[d] => m \in Below[n]
  <1> SUFFICES ASSUME NEW n \in Node
               PROVE  \A m \in Node : \A d \in Below[n] :
                          DocOrder[n] < DocOrder[m] /\ DocOrder[m] <= DocOrder[d]
                          => m \in Below[n]
    BY BelowFacts
  <1> DEFINE S == {m \in Node : \A d \in Below[n] :
                      DocOrder[n] < DocOrder[m] /\ DocOrder[m] <= DocOrder[d]
                      => m \in Below[n]}
  <1>1. ASSUME NEW m \in Node, m # Root => Parent[m] \in S,
               NEW d \in Below[n], DocOrder[n] < DocOrder[m], DocOrder[m] <= DocOrder[d]
        PROVE  m \in Below[n]
    <2> DEFINE Later == {x \in Below[n] : DocOrder[m] <= DocOrder[x]}
               e     == First(Later)
    <2>1. /\ e \in Node /\ e \in Below[n] /\ DocOrder[m] <= DocOrder[e]
          /\ \A x \in Below[n] : DocOrder[m] <= DocOrder[x] => DocOrder[e] <= DocOrder[x]
      <3>1. Later \in SUBSET Node /\ d \in Later
        BY <1>1, BelowFacts
      <3> QED  BY <3>1, FirstOf
    <2> HIDE DEF e
    <2>2. e # Root /\ (Parent[e] = n \/ Parent[e] \in Below[n])
      BY <2>1, AncestorFacts, BelowFacts, ParentFacts
    <2>3. CASE m = e
      BY <2>1, <2>3
    <2>4. CASE m # e
      <3>1. DocOrder[m] < DocOrder[e]
        BY <2>1, <2>4, NodeFacts
      <3>2. Parent[e] \in Node /\ DocOrder[n] <= DocOrder[Parent[e]]
        BY <2>1, <2>2, ParentFacts, BelowFacts, AncestorsEarlier, NodeFacts
      <3>3. DocOrder[Parent[e]] < DocOrder[m]
        BY <1>1, <2>1, <2>2, <3>1, <3>2, ParentFacts, NodeFacts
      <3>4. m # Root
        BY <3>3, <3>2, NodeFacts, RootFirst
      <3>5. /\ Parent[m] \in Node /\ DocOrder[Parent[m]] < DocOrder[m]
            /\ DocOrder[Parent[e]] <= DocOrder[Parent[m]]
        BY <2>1, <2>2, <3>1, <3>3, <3>4, ParentFacts, ChartAssumption DEF WellFormedTree
      <3>6. Parent[m] = n \/ Parent[m] \in Below[n]
        BY <1>1, <3>2, <3>4, <3>5, NodeFacts, BelowFacts
      <3> QED  BY <3>4, <3>6, AncestorFacts, BelowFacts
    <2> QED  BY <2>3, <2>4
  <1>2. \A m \in Node : (m # Root => Parent[m] \in S) => m \in S
    BY <1>1
  <1>3. Node \subseteq S
    <2> HIDE DEF S
    <2> QED  BY <1>2, TreeInduct, Zenon
  <1> QED  BY <1>3

LEMMA AncestorsTransitive ==
    \A n \in Node : \A a \in ProperAncestors[n] : ProperAncestors[a] \subseteq ProperAncestors[n]
  <1> DEFINE S == {n \in Node : \A a \in ProperAncestors[n] :
                                    ProperAncestors[a] \subseteq ProperAncestors[n]}
  <1>1. ASSUME NEW n \in Node, n # Root => Parent[n] \in S PROVE n \in S
    BY <1>1, AncestorFacts, ParentFacts
  <1>2. Node \subseteq S
    <2> HIDE DEF S
    <2> QED  BY <1>1, TreeInduct, Zenon
  <1> QED  BY <1>2

LEMMA RootAboveAll ==
    \A n \in Node \ {Root} : Root \in ProperAncestors[n]
  <1> DEFINE S == {n \in Node : n # Root => Root \in ProperAncestors[n]}
  <1>1. ASSUME NEW n \in Node, n # Root => Parent[n] \in S PROVE n \in S
    BY <1>1, AncestorFacts, ParentFacts
  <1>2. Node \subseteq S
    <2> HIDE DEF S
    <2> QED  BY <1>1, TreeInduct, Zenon
  <1> QED  BY <1>2

\* What lies above one node lies above one another.
LEMMA AncestorsInLine ==
    \A n \in Node : \A a, b \in {n} \cup ProperAncestors[n] :
        a = b \/ a \in ProperAncestors[b] \/ b \in ProperAncestors[a]
  <1> DEFINE S == {n \in Node : \A a, b \in {n} \cup ProperAncestors[n] :
                      a = b \/ a \in ProperAncestors[b] \/ b \in ProperAncestors[a]}
  <1>1. ASSUME NEW n \in Node, n # Root => Parent[n] \in S PROVE n \in S
    BY <1>1, AncestorFacts, ParentFacts
  <1>2. Node \subseteq S
    <2> HIDE DEF S
    <2> QED  BY <1>1, TreeInduct, Zenon
  <1> QED  BY <1>2

-----------------------------------------------------------------------------
(***************************************************************************)
(* A function that is defined step by step over 0 .. b exists, and stays in*)
(* the set that its steps stay in.                                         *)
(***************************************************************************)
Steps(b, S) == [1 .. b -> [S -> S]]
Stepwise(f, b, zero, step) == f[0] = zero /\ \A k \in 1 .. b : f[k] = step[k][f[k - 1]]

LEMMA StepwiseExists ==
    ASSUME NEW S, NEW b \in Nat, NEW zero \in S, NEW step \in Steps(b, S)
    PROVE  \E f \in [0 .. b -> S] : Stepwise(f, b, zero, step)
  <1> USE DEF Steps
  <1> DEFINE Rule(f, k) == IF k = 0 THEN zero ELSE step[k][f[k - 1]]
             Good(f, m) == \A k \in 0 .. m : f[k] = Rule(f, k)
             U == {m \in 0 .. b : \E f \in [0 .. b -> S] : Good(f, m)}
  <1>1. 0 \in U
    <2> DEFINE f == [k \in 0 .. b |-> zero]
    <2>1. f \in [0 .. b -> S] /\ 0 \in 0 .. b
      OBVIOUS
    <2>2. Good(f, 0)
      BY <2>1
    <2> HIDE DEF f, Good
    <2> QED  BY <2>1, <2>2
  <1>2. ASSUME NEW m \in 0 .. b, m < b, m \in U PROVE m + 1 \in U
    <2>1. PICK f \in [0 .. b -> S] : Good(f, m)
      BY <1>2
    <2> DEFINE next == [f EXCEPT ![m + 1] = step[m + 1][f[m]]]
    <2>2. m \in 0 .. b /\ m + 1 \in 1 .. b /\ m + 1 \in 0 .. b
      BY <1>2
    <2>3. step[m + 1] \in [S -> S] /\ f[m] \in S
      BY <2>2
    <2>4. next \in [0 .. b -> S]
      BY <2>2, <2>3
    <2>5. ASSUME NEW k \in 0 .. m + 1 PROVE next[k] = Rule(next, k)
      <3>1. CASE k = m + 1
        BY <3>1, <2>2
      <3>2. CASE k # m + 1
        <4>1. k \in 0 .. m /\ next[k] = f[k]
          BY <3>2, <2>2
        <4>2. f[k] = Rule(f, k)
          BY <2>1, <4>1
        <4>3. k # 0 => k - 1 \in 0 .. b /\ k - 1 # m + 1
          BY <4>1, <2>2
        <4> QED  BY <4>1, <4>2, <4>3
      <3> QED  BY <3>1, <3>2
    <2>6. Good(next, m + 1)
      BY <2>5
    <2> HIDE DEF next, Good
    <2> QED  BY <2>2, <2>4, <2>6
  <1>3. b \in U
    <2> HIDE DEF U
    <2>1. \A m \in 0 .. b : m < b /\ m \in U => m + 1 \in U
      BY <1>2
    <2>2. \A m \in 0 .. b : m \in U
      BY <1>1, <2>1, Induct, Zenon
    <2> QED  BY <2>2
  <1>4. PICK f \in [0 .. b -> S] : Good(f, b)
    BY <1>3
  <1>5. Stepwise(f, b, zero, step)
    BY <1>4 DEF Stepwise
  <1> QED  BY <1>5

-----------------------------------------------------------------------------
(***************************************************************************)
(* Transitions, their domains and what they may exit.                      *)
(***************************************************************************)
LEMMA EdgeFacts ==
    /\ Len(Edges) \in Nat /\ Edge = 1 .. Len(Edges)
    /\ \A t \in Edge : /\ Edges[t].source \in Node /\ Edges[t].source \notin History
                       /\ Edges[t].target \in Node \cup {NoNode}
    /\ \A t, u \in Edge : t < u => DocOrder[Edges[t].source] <= DocOrder[Edges[u].source]
  <1>1. /\ Edges \in Seq(Range(Edges))
        /\ \A t \in Edge : /\ Edges[t].source \in Node \ History
                           /\ Edges[t].target \in Node \cup {NoNode}
        /\ \A t, u \in Edge : t < u => DocOrder[Edges[t].source] <= DocOrder[Edges[u].source]
    BY ChartAssumption DEF WellFormedEdges
  <1>2. Len(Edges) \in Nat /\ DOMAIN Edges = 1 .. Len(Edges)
    BY <1>1
  <1> QED  BY <1>1, <1>2 DEF Edge

\* The source and the target of a transition lie below its domain.  It has one
\* unless it leaves the root or targets it.
LEMMA DomainFacts ==
    ASSUME NEW t \in Edge, ~Targetless(t)
    PROVE  /\ Domain[t] # NoNode =>
                 /\ Domain[t] \in Node \ History
                 /\ Kind[Domain[t]] = "compound" \/ Domain[t] = Root
                 /\ Edges[t].source \in Below[Domain[t]]
                 /\ Edges[t].target \in Below[Domain[t]]
           /\ Edges[t].source # Root /\ Edges[t].target # Root => Domain[t] # NoNode
  <1> DEFINE s == Edges[t].source
             g == Edges[t].target
             D == Domains(ProperAncestors[s], g)
  <1>1. s \in Node /\ s \notin History /\ g \in Node
    BY EdgeFacts DEF Targetless
  <1>2. Domain[t] = IF D = {} THEN NoNode ELSE Innermost(D)
    BY Zenon DEF Domain, FindLCCA
  <1>3. D \subseteq ProperAncestors[s] /\ D \in SUBSET Node
    BY <1>1, AncestorFacts, Zenon DEF Domains
  <1>4. \A d \in D : d \in Node \ History /\ s \in Below[d] /\ g \in Below[d]
    BY <1>1, <1>3, AncestorsEarlier, BelowFacts DEF Domains, IsDescendant
  <1>5. D # {} => Innermost(D) \in D
    BY <1>3, InnermostOf
  <1>a. \A d \in D : Kind[d] = "compound" \/ d = Root
    BY <1>1, <1>4, ParentFacts DEF Domains
  <1>6. s # Root /\ g # Root => Root \in D
    BY <1>1, RootAboveAll, BelowFacts, NodeFacts, ParentFacts DEF Domains, IsDescendant
  <1> HIDE DEF D, s, g
  <1>7. Domain[t] # NoNode => Domain[t] \in D
    BY <1>2, <1>5
  <1>8. D # {} => Domain[t] # NoNode
    BY <1>2, <1>5, <1>3, NodeFacts
  <1> QED  BY <1>4, <1>a, <1>6, <1>7, <1>8 DEF s, g

\* What lies below one of them is exited with it.
LEMMA ScopeFacts ==
    ASSUME NEW t \in Edge
    PROVE  /\ Scope[t] \in SUBSET Node
           /\ Scope[t] # {} => /\ ~Targetless(t) /\ Domain[t] # NoNode
                               /\ Edges[t].source \in Scope[t]
           /\ \A x \in Scope[t] : Below[x] \subseteq Scope[t]
  <1>1. CASE Targetless(t)
    BY <1>1 DEF Scope
  <1>2. CASE ~Targetless(t) /\ Domain[t] = NoNode
    BY <1>2, BelowFacts DEF Scope
  <1>3. CASE ~Targetless(t) /\ Domain[t] # NoNode
    <2>1. Scope[t] = Below[Domain[t]]
      BY <1>3 DEF Scope
    <2>2. Domain[t] \in Node /\ Edges[t].source \in Below[Domain[t]]
      BY <1>3, DomainFacts
    <2>3. ASSUME NEW x \in Below[Domain[t]], NEW y \in Below[x] PROVE y \in Below[Domain[t]]
      <3>1. x \in Node /\ y \in Node
        BY <2>2, BelowFacts
      <3>2. Domain[t] \in ProperAncestors[x] /\ x \in ProperAncestors[y]
        BY <3>1, <2>2, BelowFacts
      <3> QED  BY <3>1, <3>2, <2>2, AncestorsTransitive, BelowFacts
    <2> QED  BY <1>3, <2>1, <2>2, <2>3, BelowFacts
  <1> QED  BY <1>1, <1>2, <1>3

-----------------------------------------------------------------------------
(***************************************************************************)
(* Selection and preemption.                                               *)
(***************************************************************************)
LEMMA ResolveType ==
    ASSUME NEW cfg, NEW kept \in SUBSET Edge, NEW t \in Edge
    PROVE  Resolve(cfg, kept, t) \in SUBSET Edge
  BY DEF Resolve

LEMMA KeptStepwise ==
    ASSUME NEW cfg, NEW enabled \in SUBSET Edge
    PROVE  LET upto == Kept(cfg)[enabled] IN
           /\ upto \in [0 .. Len(Edges) -> SUBSET Edge]
           /\ upto[0] = {}
           /\ \A t \in Edge : upto[t] = IF t \in enabled THEN Resolve(cfg, upto[t - 1], t)
                                        ELSE upto[t - 1]
  <1> DEFINE with(t) == [kept \in SUBSET Edge |-> Resolve(cfg, kept, t)]
             up == CHOOSE upto : upto = [t \in 0 .. Len(Edges) |->
                      IF t = 0 THEN {}
                      ELSE IF t \in enabled THEN with(t)[upto[t - 1]] ELSE upto[t - 1]]
             step == [t \in 1 .. Len(Edges) |->
                         IF t \in enabled THEN with(t) ELSE [kept \in SUBSET Edge |-> kept]]
  <1>1. Kept(cfg)[enabled] = up
    BY Zenon DEF Kept
  <1>2. step \in [1 .. Len(Edges) -> [SUBSET Edge -> SUBSET Edge]]
    BY ResolveType, EdgeFacts
  <1>3. \A t \in 1 .. Len(Edges) : \A kept \in SUBSET Edge :
            step[t][kept] = IF t \in enabled THEN with(t)[kept] ELSE kept
    OBVIOUS
  <1>4. \A t \in 1 .. Len(Edges) : \A kept \in SUBSET Edge :
            with(t)[kept] = Resolve(cfg, kept, t)
    OBVIOUS
  <1> HIDE DEF step, with
  <1>5. PICK f \in [0 .. Len(Edges) -> SUBSET Edge] :
            Stepwise(f, Len(Edges), {}, step)
    <2>1. {} \in SUBSET Edge /\ Len(Edges) \in Nat /\ step \in Steps(Len(Edges), SUBSET Edge)
      BY <1>2, EdgeFacts DEF Steps
    <2> QED  BY <2>1, StepwiseExists, Zenon
  <1>6. ASSUME NEW t \in 0 .. Len(Edges)
        PROVE  f[t] = IF t = 0 THEN {}
                      ELSE IF t \in enabled THEN with(t)[f[t - 1]] ELSE f[t - 1]
    <2>1. CASE t = 0
      BY <1>5, <2>1 DEF Stepwise
    <2>2. CASE t # 0
      <3>1. t \in 1 .. Len(Edges) /\ t - 1 \in 0 .. Len(Edges)
        BY <2>2, EdgeFacts
      <3>2. f[t] = step[t][f[t - 1]] /\ f[t - 1] \in SUBSET Edge
        BY <3>1, <1>5 DEF Stepwise
      <3> QED  BY <2>2, <3>1, <3>2, <1>3
    <2> QED  BY <2>1, <2>2
  <1>7. f = [t \in 0 .. Len(Edges) |->
                IF t = 0 THEN {}
                ELSE IF t \in enabled THEN with(t)[f[t - 1]] ELSE f[t - 1]]
    BY <1>6
  <1>8. up = [t \in 0 .. Len(Edges) |->
                IF t = 0 THEN {}
                ELSE IF t \in enabled THEN with(t)[up[t - 1]] ELSE up[t - 1]]
    BY <1>7, Zenon
  <1> HIDE DEF up
  <1>9. /\ up[0] = {}
        /\ \A t \in Edge : up[t] = IF t \in enabled THEN with(t)[up[t - 1]] ELSE up[t - 1]
    <2>1. 0 \in 0 .. Len(Edges) /\ \A t \in Edge : t \in 0 .. Len(Edges) /\ t # 0
      BY EdgeFacts
    <2>2. \A t \in 0 .. Len(Edges) :
              up[t] = IF t = 0 THEN {}
                      ELSE IF t \in enabled THEN with(t)[up[t - 1]] ELSE up[t - 1]
      BY <1>8, Zenon
    <2> QED  BY <2>1, <2>2, Zenon
  <1>10. \A t \in Edge : up[t - 1] \in SUBSET Edge =>
             up[t] = IF t \in enabled THEN Resolve(cfg, up[t - 1], t) ELSE up[t - 1]
    BY <1>9, <1>4, EdgeFacts, Zenon
  <1> DEFINE S == {k \in 0 .. Len(Edges) : up[k] \in SUBSET Edge}
  <1>11. \A k \in 0 .. Len(Edges) : k \in S
    <2>1. 0 \in S
      BY <1>9, EdgeFacts
    <2>2. ASSUME NEW k \in 0 .. Len(Edges), k < Len(Edges), k \in S PROVE k + 1 \in S
      <3>1. k + 1 \in Edge /\ k + 1 \in 0 .. Len(Edges) /\ k + 1 - 1 = k
        BY <2>2, EdgeFacts
      <3>2. up[k] \in SUBSET Edge
        BY <2>2
      <3>3. up[k + 1] = IF k + 1 \in enabled THEN Resolve(cfg, up[k], k + 1) ELSE up[k]
        BY <3>1, <3>2, <1>10
      <3> QED  BY <3>1, <3>2, <3>3, ResolveType
    <2> HIDE DEF S
    <2>3. \A k \in 0 .. Len(Edges) : k < Len(Edges) /\ k \in S => k + 1 \in S
      BY <2>2
    <2> QED  BY <2>1, <2>3, Induct, EdgeFacts, Zenon
  <1>12. \A t \in Edge : up[t - 1] \in SUBSET Edge
    BY <1>11, EdgeFacts
  <1>13. up \in [0 .. Len(Edges) -> SUBSET Edge]
    BY <1>8, <1>11
  <1> QED  BY <1>1, <1>9, <1>10, <1>12, <1>13, Zenon

LEMMA ConflictFacts ==
    ASSUME NEW cfg, NEW t \in Edge, NEW u \in Edge, Conflict(cfg, t, u)
    PROVE  Conflict(cfg, u, t) /\ Scope[t] # {} /\ Scope[u] # {}
  BY DEF Conflict, ExitSetOf

\* What can be enabled together: one transition of a node, each at or above an
\* active node.
Enabled(cfg, E) ==
    /\ cfg \subseteq Node /\ E \subseteq Edge
    /\ \A t, u \in E : Edges[t].source = Edges[u].source => t = u
    /\ \A t \in E : \E leaf \in cfg : leaf \in {Edges[t].source} \cup Below[Edges[t].source]

\* The reason to drop t: the rival w is deeper or, if neither is deeper, earlier.
Outdone(cfg, t, w) ==
    /\ Conflict(cfg, t, w)
    /\ \/ IsDescendant(Edges[w].source, Edges[t].source)
       \/ w < t /\ ~IsDescendant(Edges[t].source, Edges[w].source)

\* A node deeper than the rival of u, which u lost against, outdoes u as well.
LEMMA OutdoneAgain ==
    ASSUME NEW cfg, NEW E, Enabled(cfg, E),
           NEW u \in E, NEW w \in E, NEW x \in E, u # w, u < x, Outdone(cfg, u, w),
           Conflict(cfg, x, w), IsDescendant(Edges[x].source, Edges[w].source)
    PROVE  Outdone(cfg, u, x)
  <1> DEFINE su == Edges[u].source
             sw == Edges[w].source
             sx == Edges[x].source
  <1>1. /\ u \in Edge /\ w \in Edge /\ x \in Edge /\ cfg \subseteq Node
        /\ su \in Node /\ sw \in Node /\ sx \in Node /\ su # sw
        /\ u \in Nat /\ w \in Nat /\ x \in Nat
    BY EdgeFacts DEF Enabled
  <1>2. sx \in Below[sw] /\ sw \in ProperAncestors[sx]
    BY <1>1, BelowFacts DEF IsDescendant
  <1>3. /\ Scope[u] # {} /\ Scope[x] # {} /\ su \in Scope[u] /\ sx \in Scope[x]
    BY <1>1, ConflictFacts, ScopeFacts DEF Outdone
  <1>4. CASE IsDescendant(sw, su)
    <2>1. su \in ProperAncestors[sw]
      BY <1>1, <1>4, BelowFacts DEF IsDescendant
    <2>2. su \in ProperAncestors[sx] /\ sx \in Below[su]
      BY <1>1, <1>2, <2>1, AncestorsTransitive, BelowFacts
    <2>3. PICK leaf \in cfg : leaf \in {sx} \cup Below[sx]
      BY DEF Enabled
    <2>4. leaf \in Scope[x]
      BY <1>1, <1>3, <2>3, ScopeFacts
    <2>5. sx \in Scope[u]
      BY <1>1, <1>3, <2>2, ScopeFacts
    <2>6. leaf \in Scope[u]
      BY <1>1, <2>5, <2>3, ScopeFacts
    <2> QED  BY <2>2, <2>3, <2>4, <2>6 DEF Outdone, Conflict, ExitSetOf, IsDescendant
  <1>5. CASE w < u /\ ~IsDescendant(su, sw)
    <2>1. DocOrder[sw] <= DocOrder[su] /\ DocOrder[su] <= DocOrder[sx]
      BY <1>1, <1>5, EdgeFacts
    <2>2. DocOrder[sw] < DocOrder[su]
      BY <1>1, <2>1, NodeFacts
    <2>3. su \in Below[sw]
      BY <1>1, <1>2, <2>1, <2>2, DepthFirst
    <2> QED  BY <2>3, <1>5 DEF IsDescendant
  <1> QED  BY <1>4, <1>5 DEF Outdone

\* What is kept can be taken together, and what is dropped is outdone by
\* something kept.
LEMMA KeptIsJust ==
    ASSUME NEW cfg, NEW E, Enabled(cfg, E)
    PROVE  LET kept == RemoveConflicting(cfg, E) IN
           /\ kept \subseteq E
           /\ \A t, u \in kept : t # u => ~Conflict(cfg, t, u)
           /\ \A t \in E \ kept : \E u \in kept : Outdone(cfg, t, u)
  <1> DEFINE upto == Kept(cfg)[E]
             Just(k, K) ==
                /\ K \subseteq E /\ \A t \in K : t <= k
                /\ \A t, u \in K : t # u => ~Conflict(cfg, t, u)
                /\ \A t \in E \ K : t <= k => \E u \in K : Outdone(cfg, t, u)
             S == {k \in 0 .. Len(Edges) : Just(k, upto[k])}
  <1>1. /\ upto[0] = {}
        /\ \A t \in Edge : upto[t] = IF t \in E THEN Resolve(cfg, upto[t - 1], t)
                                     ELSE upto[t - 1]
    BY KeptStepwise DEF Enabled
  <1> HIDE DEF upto
  <1>2. Len(Edges) \in Nat /\ Edge = 1 .. Len(Edges) /\ E \subseteq Edge
    BY EdgeFacts DEF Enabled
  <1>3. Just(0, {})
    BY <1>2
  <1>4. ASSUME NEW x \in Edge, NEW K, Just(x - 1, K), x \notin E PROVE Just(x, K)
    <2>1. \A t \in E : t <= x => t <= x - 1
      BY <1>2, <1>4
    <2>2. \A t \in K : t <= x
      BY <1>2, <1>4
    <2> QED  BY <1>4, <2>1, <2>2
  <1>5. ASSUME NEW x \in Edge, NEW K, Just(x - 1, K), x \in E
        PROVE  Just(x, Resolve(cfg, K, x))
    <2> DEFINE rivals == {u \in K : Conflict(cfg, x, u)}
    <2>1. /\ K \subseteq E /\ x \notin K /\ \A t \in K : t <= x
          /\ \A t \in E : t <= x => t = x \/ t <= x - 1
          /\ \A t \in E : t <= x - 1 => t < x
          /\ \A t \in K : t < x
      BY <1>2, <1>5
    <2>2. CASE \A u \in rivals : IsDescendant(Edges[x].source, Edges[u].source)
      <3> DEFINE L == (K \ rivals) \cup {x}
      <3>1. Resolve(cfg, K, x) = L
        BY <2>2, Zenon DEF Resolve
      <3>2. L \subseteq E /\ \A t \in L : t <= x
        <4>1. x <= x
          BY <1>2
        <4> QED  BY <2>1, <1>5, <4>1
      <3>3. \A t, u \in L : t # u => ~Conflict(cfg, t, u)
        BY <1>5, <2>1, <1>2, ConflictFacts
      <3>4. ASSUME NEW t \in E \ L, t <= x PROVE \E u \in L : Outdone(cfg, t, u)
        <4>1. t \in Edge /\ x \in Edge /\ t # x /\ t <= x - 1 /\ t < x
          BY <3>4, <2>1, <1>2
        <4>2. CASE t \in K
          <5>1. t \in rivals
            BY <4>2, <3>4
          <5>2. Conflict(cfg, t, x)
            BY <5>1, <4>1, ConflictFacts
          <5>3. Outdone(cfg, t, x)
            BY <5>1, <5>2, <2>2 DEF Outdone
          <5> QED  BY <5>3
        <4>3. CASE t \notin K
          <5>1. PICK w \in K : Outdone(cfg, t, w)
            BY <4>1, <4>3, <1>5
          <5>2. CASE w \notin rivals
            BY <5>1, <5>2
          <5>3. CASE w \in rivals
            <6>1. /\ w \in E /\ t \in E /\ t # w /\ t < x
                  /\ Conflict(cfg, x, w) /\ IsDescendant(Edges[x].source, Edges[w].source)
              BY <5>1, <5>3, <4>1, <4>3, <2>1, <2>2
            <6>2. Outdone(cfg, t, x)
              BY <5>1, <6>1, <1>5, OutdoneAgain
            <6> QED  BY <6>2
          <5> QED  BY <5>2, <5>3
        <4> QED  BY <4>2, <4>3
      <3> HIDE DEF L
      <3> QED  BY <3>1, <3>2, <3>3, <3>4
    <2>3. CASE \E u \in rivals : ~IsDescendant(Edges[x].source, Edges[u].source)
      <3>1. Resolve(cfg, K, x) = K
        BY <2>3, Zenon DEF Resolve
      <3>2. PICK u \in K : Conflict(cfg, x, u) /\ ~IsDescendant(Edges[x].source, Edges[u].source)
        BY <2>3
      <3>3. Outdone(cfg, x, u)
        BY <3>2, <2>1 DEF Outdone
      <3>4. \A t \in E \ K : t <= x => \E v \in K : Outdone(cfg, t, v)
        BY <3>3, <2>1, <1>5
      <3> QED  BY <3>1, <3>4, <2>1, <1>5
    <2> QED  BY <2>2, <2>3
  <1>6. \A k \in 0 .. Len(Edges) : k \in S
    <2>1. 0 \in S
      BY <1>1, <1>2, <1>3
    <2>2. ASSUME NEW k \in 0 .. Len(Edges), k < Len(Edges), k \in S PROVE k + 1 \in S
      <3>1. k + 1 \in Edge /\ k + 1 \in 0 .. Len(Edges) /\ k + 1 - 1 = k
        BY <2>2, <1>2
      <3>2. Just(k + 1 - 1, upto[k])
        BY <2>2, <3>1
      <3>3. upto[k + 1] = IF k + 1 \in E THEN Resolve(cfg, upto[k], k + 1) ELSE upto[k]
        BY <3>1, <1>1
      <3> HIDE DEF Just
      <3>4. Just(k + 1, upto[k + 1])
        BY <3>1, <3>2, <3>3, <1>4, <1>5
      <3> QED  BY <3>1, <3>4
    <2> HIDE DEF S
    <2>3. \A k \in 0 .. Len(Edges) : k < Len(Edges) /\ k \in S => k + 1 \in S
      BY <2>2
    <2> QED  BY <2>1, <2>3, <1>2, Induct, Zenon
  <1>7. Just(Len(Edges), upto[Len(Edges)])
    BY <1>6, <1>2
  <1>8. \A t \in E : t <= Len(Edges)
    BY <1>2
  <1> QED  BY <1>7, <1>8 DEF RemoveConflicting, upto

\* The transition that is found at a node is one of the node's.
LEMMA FirstOnFacts ==
    ASSUME NEW s \in Node, NEW descriptor, NEW pass
    PROVE  FirstOn(s, descriptor, pass) \in {NoEdge} \cup Transitions[s]
  <1> DEFINE firing == {t \in Transitions[s] : Edges[t].event = descriptor /\ Passes(t, pass)}
  <1>1. FirstOn(s, descriptor, pass) =
            IF firing = {} THEN NoEdge ELSE CHOOSE t \in firing : \A u \in firing : t <= u
    BY Zenon DEF FirstOn
  <1>2. firing \subseteq Transitions[s] /\ firing \in SUBSET Nat
    BY EdgeFacts DEF Transitions
  <1> HIDE DEF firing
  <1>3. firing # {} => \E t \in firing : \A u \in firing : t <= u
    BY <1>2, LeastNumber, Zenon
  <1>4. firing # {} => FirstOn(s, descriptor, pass) \in firing
    BY <1>1, <1>3, Zenon
  <1> QED  BY <1>1, <1>2, <1>4, Zenon

\* Whichever way At finds a node's transition, what the active leaves find can
\* be enabled together.
LEMMA EnabledOnFacts ==
    ASSUME NEW cfg \in SUBSET Node, NEW event, NEW pass
    PROVE  Enabled(cfg, EnabledOn(cfg, event, pass))
  <1> DEFINE At(s) == MatchAtNode(s, event, pass)
             Matching(leaf) == {n \in {leaf} \cup ProperAncestors[leaf] : At(n) # NoEdge}
             E == EnabledOn(cfg, event, pass)
  <1>1. \A s \in Node : At(s) \in {NoEdge} \cup Transitions[s]
    BY FirstOnFacts, Zenon DEF MatchAtNode
  <1>2. E = {IF Matching(leaf) = {} THEN NoEdge ELSE At(Innermost(Matching(leaf)))
                : leaf \in Atomic(cfg)} \ {NoEdge}
    BY DEF EnabledOn, EnabledBy, FirstMatch
  <1> HIDE DEF At, E
  <1>3. ASSUME NEW t \in E
        PROVE  /\ t \in Edge /\ t = At(Edges[t].source)
               /\ \E leaf \in cfg : leaf \in {Edges[t].source} \cup Below[Edges[t].source]
    <2>1. PICK leaf \in Atomic(cfg) : /\ t # NoEdge /\ Matching(leaf) # {}
                                      /\ t = At(Innermost(Matching(leaf)))
      BY <1>2
    <2>2. leaf \in cfg /\ leaf \in Node
      BY DEF Atomic
    <2> DEFINE n == Innermost(Matching(leaf))
    <2>3. Matching(leaf) \in SUBSET Node
      BY <2>2, AncestorFacts
    <2>4. n \in Matching(leaf)
      BY <2>1, <2>3, InnermostOf
    <2>5. n \in Node /\ n \in {leaf} \cup ProperAncestors[leaf] /\ t = At(n)
      BY <2>1, <2>3, <2>4
    <2> HIDE DEF n
    <2>6. t \in Transitions[n]
      BY <2>1, <2>5, <1>1
    <2>7. t \in Edge /\ Edges[t].source = n
      BY <2>5, <2>6 DEF Transitions
    <2>8. leaf \in {n} \cup Below[n]
      BY <2>2, <2>5, BelowFacts
    <2> QED  BY <2>2, <2>5, <2>7, <2>8
  <1>4. \A t, u \in E : Edges[t].source = Edges[u].source => t = u
    BY <1>3
  <1> QED  BY <1>3, <1>4 DEF Enabled, E

LEMMA EnabledEventlessFacts ==
    ASSUME NEW cfg \in SUBSET Node, NEW pass
    PROVE  Enabled(cfg, EnabledEventless(cfg, pass))
  <1> DEFINE At(s) == FirstOn(s, Always, pass)
             Matching(leaf) == {n \in {leaf} \cup ProperAncestors[leaf] : At(n) # NoEdge}
             E == EnabledEventless(cfg, pass)
  <1>1. \A s \in Node : At(s) \in {NoEdge} \cup Transitions[s]
    BY FirstOnFacts, Zenon
  <1>2. E = {IF Matching(leaf) = {} THEN NoEdge ELSE At(Innermost(Matching(leaf)))
                : leaf \in Atomic(cfg)} \ {NoEdge}
    BY DEF EnabledEventless, EnabledBy, FirstMatch
  <1> HIDE DEF At, E
  <1>3. ASSUME NEW t \in E
        PROVE  /\ t \in Edge /\ t = At(Edges[t].source)
               /\ \E leaf \in cfg : leaf \in {Edges[t].source} \cup Below[Edges[t].source]
    <2>1. PICK leaf \in Atomic(cfg) : /\ t # NoEdge /\ Matching(leaf) # {}
                                      /\ t = At(Innermost(Matching(leaf)))
      BY <1>2
    <2>2. leaf \in cfg /\ leaf \in Node
      BY DEF Atomic
    <2> DEFINE n == Innermost(Matching(leaf))
    <2>3. Matching(leaf) \in SUBSET Node
      BY <2>2, AncestorFacts
    <2>4. n \in Matching(leaf)
      BY <2>1, <2>3, InnermostOf
    <2>5. n \in Node /\ n \in {leaf} \cup ProperAncestors[leaf] /\ t = At(n)
      BY <2>1, <2>3, <2>4
    <2> HIDE DEF n
    <2>6. t \in Transitions[n]
      BY <2>1, <2>5, <1>1
    <2>7. t \in Edge /\ Edges[t].source = n
      BY <2>5, <2>6 DEF Transitions
    <2>8. leaf \in {n} \cup Below[n]
      BY <2>2, <2>5, BelowFacts
    <2> QED  BY <2>2, <2>5, <2>7, <2>8
  <1>4. \A t, u \in E : Edges[t].source = Edges[u].source => t = u
    BY <1>3
  <1> QED  BY <1>3, <1>4 DEF Enabled, E
=============================================================================
