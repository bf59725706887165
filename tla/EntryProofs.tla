----------------------------- MODULE EntryProofs -----------------------------
(***************************************************************************)
(* What the transitions of a microstep enter, for every chart the loader   *)
(* accepts and whatever its history states restore.                        *)
(***************************************************************************)
EXTENDS StatechartProofs

-----------------------------------------------------------------------------
(***************************************************************************)
(* What holds of a run of tasks when every task keeps it.                  *)
(***************************************************************************)
LEMMA EntryInduct ==
    ASSUME NEW hist, NEW tasks, NEW S, [tasks |-> tasks, entered |-> {}] \in S,
           \A w \in S : Perform(hist)[w] \in S
    PROVE  EntryClosure(tasks, hist) \in S
  <1> DEFINE zero == [tasks |-> tasks, entered |-> {}]
             after == CHOOSE after : after =
                 [k \in 0 .. MaxTasks |-> IF k = 0 THEN zero ELSE Perform(hist)[after[k - 1]]]
             step == [k \in 1 .. MaxTasks |-> [w \in S |-> Perform(hist)[w]]]
  <1>1. EntryClosure(tasks, hist) = after[MaxTasks]
    BY Zenon DEF EntryClosure, Performed
  <1>2. zero \in S /\ MaxTasks \in Nat
    BY TaskAssumption
  <1>3. \A w \in S : Perform(hist)[w] \in S
    OBVIOUS
  <1> HIDE DEF zero
  <1>4. step \in Steps(MaxTasks, S)
    BY <1>3 DEF Steps
  <1>5. \A k \in 1 .. MaxTasks : \A w \in S : step[k][w] = Perform(hist)[w]
    OBVIOUS
  <1> HIDE DEF step
  <1>6. PICK f \in [0 .. MaxTasks -> S] : Stepwise(f, MaxTasks, zero, step)
    BY <1>2, <1>4, StepwiseExists, Zenon
  <1>7. ASSUME NEW k \in 0 .. MaxTasks
        PROVE  f[k] = IF k = 0 THEN zero ELSE Perform(hist)[f[k - 1]]
    <2>1. CASE k = 0
      BY <1>6, <2>1 DEF Stepwise
    <2>2. CASE k # 0
      <3>1. k \in 1 .. MaxTasks /\ k - 1 \in 0 .. MaxTasks
        BY <2>2, <1>2
      <3>2. f[k] = step[k][f[k - 1]] /\ f[k - 1] \in S
        BY <3>1, <1>6 DEF Stepwise
      <3> QED  BY <2>2, <3>1, <3>2, <1>5
    <2> QED  BY <2>1, <2>2
  <1>8. f = [k \in 0 .. MaxTasks |-> IF k = 0 THEN zero ELSE Perform(hist)[f[k - 1]]]
    BY <1>7
  <1>9. after = [k \in 0 .. MaxTasks |-> IF k = 0 THEN zero ELSE Perform(hist)[after[k - 1]]]
    BY <1>8, Zenon
  <1> HIDE DEF after
  <1>10. \A k \in 0 .. MaxTasks : after[k] = IF k = 0 THEN zero ELSE Perform(hist)[after[k - 1]]
    BY <1>9, Zenon
  <1> DEFINE U == {k \in 0 .. MaxTasks : after[k] \in S}
  <1>11. \A k \in 0 .. MaxTasks : k \in U
    <2>1. 0 \in U
      BY <1>2, <1>10
    <2>2. ASSUME NEW k \in 0 .. MaxTasks, k < MaxTasks, k \in U PROVE k + 1 \in U
      <3>1. k + 1 \in 0 .. MaxTasks /\ k + 1 # 0 /\ k + 1 - 1 = k
        BY <1>2, <2>2
      <3>2. after[k + 1] = Perform(hist)[after[k]]
        BY <3>1, <1>10
      <3> QED  BY <3>1, <3>2, <2>2, <1>3
    <2> HIDE DEF U
    <2>3. \A k \in 0 .. MaxTasks : k < MaxTasks /\ k \in U => k + 1 \in U
      BY <2>2
    <2> QED  BY <1>2, <2>1, <2>3, Induct, Zenon
  <1> QED  BY <1>1, <1>2, <1>11

-----------------------------------------------------------------------------
(***************************************************************************)
(* What an entry set can hold.  B is a part of the tree that holds, with a *)
(* node, all that lies below it and below its parent; the tasks keep to B  *)
(* when their nodes are in B and none climbs above a node whose descendants*)
(* are all in B.                                                           *)
(***************************************************************************)
Closed(B) ==
    /\ B \subseteq Node
    /\ \A n \in B : Below[n] \subseteq B /\ Below[Parent[n]] \subseteq B

ClimbsWithin(B, n, stop) ==
    B # Node => stop \in ProperAncestors[n] /\ Below[stop] \subseteq B

TaskWithin(B, t) ==
    /\ t.do \in {"down", "up"} => t.node \in B
    /\ t.do = "up" => ClimbsWithin(B, t.node, t.stop)
    /\ t.do \in {"regions", "back"} => t.nodes \subseteq B
    /\ t.do = "back" => \A n \in t.nodes : ClimbsWithin(B, n, t.stop)
    /\ t.do = "targets" => \A e \in t.edges :
          Edges[e].target \in B /\ ClimbsWithin(B, Edges[e].target, Domain[e])

\* What the history states restore is in the chart, and stays below their
\* parents if B is not the whole of it.
RestoresWithin(B, hist) ==
    \A h \in History : /\ Restored(h, hist) \subseteq Node
                       /\ B = Node \/ Restored(h, hist) \subseteq Below[Parent[h]]

Tasks(B) == Seq({t \in Task : TaskWithin(B, t)})

LEMMA ConcatTasks ==
    ASSUME NEW T, NEW a \in Seq(T), NEW b \in Seq(T) PROVE a \o b \in Seq(T)
  BY ConcatProperties

LEMMA NodeIsTargeted ==
    /\ Targeted \subseteq Edge /\ Targeted \subseteq Nat
    /\ \A e \in Targeted : Edges[e].target \in Node /\ Domain[e] \in Node \cup {NoNode}
  BY EdgeFacts, DomainFacts DEF Targeted, Targetless

LEMMA ChildrenBelow ==
    /\ \A n \in Node : Children(n) \subseteq Node /\ Children(n) \subseteq Below[n]
    /\ \A n \in Node \ {Root} : Parent[n] \in ProperAncestors[n]
  BY AncestorFacts, BelowFacts, ParentFacts, NodeFacts DEF Children

LEMMA HistoryFacts == \A h \in History : h \in Node /\ Parent[h] \in Node
  <1>1. Root \notin History
    BY ChartAssumption DEF WellFormedTree
  <1> QED  BY <1>1, ParentFacts DEF History

LEMMA InitialFacts ==
    /\ \A n \in Node : Kind[n] = "compound" => Initial[n] \in Children(n)
    /\ \A n \in DOMAIN Initial : Initial[n] \in Node
  BY ChartAssumption DEF WellFormedTree, Children

\* The types of the tasks.
LEMMA TaskTypes ==
    /\ \A n \in Node : Down(n) \in Task
    /\ \A n \in Node, stop \in Node \cup {NoNode} :
          Up(n, stop) \in Task /\ DownThenUp(n, stop) \in Seq(Task)
    /\ \A S \in SUBSET Node : Regions(S) \in Task
    /\ \A S \in SUBSET Node, stop \in Node \cup {NoNode} : Back(S, stop) \in Task
    /\ \A T \in SUBSET Targeted : Targets(T) \in Task
  BY DEF Task, Down, Up, Regions, Back, Targets, DownThenUp

\* The tasks that keep to B.
LEMMA WithinTasks ==
    ASSUME NEW B, Closed(B)
    PROVE  LET W == {t \in Task : TaskWithin(B, t)} IN
           /\ \A n \in B : Down(n) \in W
           /\ \A n \in B, stop \in Node \cup {NoNode} : ClimbsWithin(B, n, stop) =>
                 Up(n, stop) \in W /\ DownThenUp(n, stop) \in Seq(W)
           /\ \A S \in SUBSET B : Regions(S) \in W
           /\ \A S \in SUBSET B, stop \in Node \cup {NoNode} :
                 (\A n \in S : ClimbsWithin(B, n, stop)) => Back(S, stop) \in W
  <1> USE DEF Closed
  <1>1. \A n \in B : Down(n) \in Task /\ TaskWithin(B, Down(n))
    BY TaskTypes DEF TaskWithin, Down
  <1>2. \A n \in B, stop \in Node \cup {NoNode} : ClimbsWithin(B, n, stop) =>
            Up(n, stop) \in Task /\ TaskWithin(B, Up(n, stop))
    BY TaskTypes DEF TaskWithin, Up
  <1>3. \A S \in SUBSET B : Regions(S) \in Task /\ TaskWithin(B, Regions(S))
    BY TaskTypes DEF TaskWithin, Regions
  <1>4. \A S \in SUBSET B, stop \in Node \cup {NoNode} :
            (\A n \in S : ClimbsWithin(B, n, stop)) =>
                Back(S, stop) \in Task /\ TaskWithin(B, Back(S, stop))
    BY TaskTypes DEF TaskWithin, Back
  <1> DEFINE W == {t \in Task : TaskWithin(B, t)}
  <1>5. \A t, u \in W : <<t, u>> \in Seq(W)
    OBVIOUS
  <1>6. \A n \in B, stop \in Node \cup {NoNode} : ClimbsWithin(B, n, stop) =>
            Down(n) \in W /\ Up(n, stop) \in W
    BY <1>1, <1>2
  <1> HIDE DEF W
  <1>7. \A n \in B, stop \in Node \cup {NoNode} : ClimbsWithin(B, n, stop) =>
            DownThenUp(n, stop) \in Seq(W)
    BY <1>5, <1>6 DEF DownThenUp
  <1> QED  BY <1>1, <1>2, <1>3, <1>4, <1>7 DEF W

LEMMA TaskFields ==
    ASSUME NEW t \in Task
    PROVE  /\ t.do \in {"down", "up", "regions", "back", "targets"}
           /\ t.do \in {"down", "up"} => t.node \in Node /\ t.stop \in Node \cup {NoNode}
           /\ t.do \in {"regions", "back"} => t.nodes \subseteq Node /\ t.stop \in Node \cup {NoNode}
           /\ t.do = "targets" => t.edges \subseteq Targeted
  BY DEF Task

\* The tasks that a task leads to keep to B, as does what it enters.
LEMMA SubtasksWithin ==
    ASSUME NEW B, Closed(B), NEW hist, RestoresWithin(B, hist), NEW entered,
           NEW t \in Task, TaskWithin(B, t)
    PROVE  /\ Subtasks(t, entered, hist) \in Tasks(B)
           /\ Entering(t) \subseteq B \ History
  <1> DEFINE W == {u \in Task : TaskWithin(B, u)}
  <1>a. /\ B \subseteq Node
        /\ \A n \in B : Below[n] \subseteq B /\ Below[Parent[n]] \subseteq B
    BY DEF Closed
  <1>b. /\ \A n \in B : Down(n) \in W
        /\ \A n \in B, stop \in Node \cup {NoNode} : ClimbsWithin(B, n, stop) =>
              Up(n, stop) \in W /\ DownThenUp(n, stop) \in Seq(W)
        /\ \A S \in SUBSET B : Regions(S) \in W
        /\ \A S \in SUBSET B, stop \in Node \cup {NoNode} :
              (\A n \in S : ClimbsWithin(B, n, stop)) => Back(S, stop) \in W
    BY WithinTasks
  <1> HIDE DEF W
  <1>c. <<>> \in Seq(W) /\ \A u \in W : <<u>> \in Seq(W)
    OBVIOUS
  <1>1. CASE t.do = "targets"
    <2> DEFINE e == CHOOSE e \in t.edges : \A u \in t.edges : e <= u
    <2>1. Subtasks(t, entered, hist) =
              IF t.edges = {} THEN <<>>
              ELSE DownThenUp(Edges[e].target, Domain[e]) \o <<Targets(t.edges \ {e})>>
      BY <1>1 DEF Subtasks
    <2>2. ASSUME t.edges = {} PROVE Subtasks(t, entered, hist) \in Seq(W)
      BY <2>1, <2>2, <1>c
    <2>3. ASSUME t.edges # {} PROVE Subtasks(t, entered, hist) \in Seq(W)
      <3>1. t.edges \subseteq Targeted /\ t.edges \in SUBSET Nat
        BY <1>1, TaskFields, NodeIsTargeted
      <3>2. e \in t.edges
        BY <2>3, <3>1, LeastNumber, Zenon
      <3> HIDE DEF e
      <3>3. /\ Edges[e].target \in B /\ ClimbsWithin(B, Edges[e].target, Domain[e])
            /\ Domain[e] \in Node \cup {NoNode}
        BY <1>1, <3>1, <3>2, NodeIsTargeted DEF TaskWithin
      <3>4. DownThenUp(Edges[e].target, Domain[e]) \in Seq(W)
        BY <3>3, <1>b
      <3>5. Targets(t.edges \ {e}) \in Task /\ TaskWithin(B, Targets(t.edges \ {e}))
        BY <1>1, <3>1, TaskTypes DEF TaskWithin, Targets
      <3>6. <<Targets(t.edges \ {e})>> \in Seq(W)
        BY <3>5, <1>c DEF W
      <3> QED  BY <2>1, <2>3, <3>4, <3>6, ConcatTasks
    <2> QED  BY <2>2, <2>3, <1>1 DEF Tasks, W, Entering
  <1>2. CASE t.do = "regions"
    <2> DEFINE r == First(t.nodes)
    <2>1. Subtasks(t, entered, hist) =
              IF t.nodes = {} THEN <<>>
              ELSE (IF HasDescendantIn(r, entered) THEN <<>> ELSE <<Down(r)>>)
                   \o <<Regions(t.nodes \ {r})>>
      BY <1>2 DEF Subtasks
    <2>2. t.nodes \in SUBSET B /\ t.nodes \in SUBSET Node
      BY <1>2, <1>a DEF TaskWithin
    <2>3. t.nodes # {} => r \in t.nodes
      BY <2>2, FirstOf
    <2> HIDE DEF r
    <2>4. t.nodes # {} => /\ <<Down(r)>> \in Seq(W)
                          /\ <<Regions(t.nodes \ {r})>> \in Seq(W)
      BY <2>2, <2>3, <1>b, <1>c
    <2>5. Subtasks(t, entered, hist) \in Seq(W)
      BY <2>1, <2>4, <1>c, ConcatTasks
    <2> QED  BY <2>5, <1>2 DEF Tasks, W, Entering
  <1>3. CASE t.do = "back"
    <2> DEFINE n == First(t.nodes)
    <2>1. Subtasks(t, entered, hist) =
              IF t.nodes = {} THEN <<>>
              ELSE DownThenUp(n, t.stop) \o <<Back(t.nodes \ {n}, t.stop)>>
      BY <1>3 DEF Subtasks
    <2>2. /\ t.nodes \in SUBSET B /\ t.nodes \in SUBSET Node /\ t.stop \in Node \cup {NoNode}
          /\ \A m \in t.nodes : ClimbsWithin(B, m, t.stop)
      BY <1>3, <1>a, TaskFields DEF TaskWithin
    <2>3. t.nodes # {} => n \in t.nodes
      BY <2>2, FirstOf
    <2> HIDE DEF n
    <2>4. t.nodes # {} => /\ DownThenUp(n, t.stop) \in Seq(W)
                          /\ <<Back(t.nodes \ {n}, t.stop)>> \in Seq(W)
      BY <2>2, <2>3, <1>b, <1>c
    <2>5. Subtasks(t, entered, hist) \in Seq(W)
      BY <2>1, <2>4, <1>c, ConcatTasks
    <2> QED  BY <2>5, <1>3 DEF Tasks, W, Entering
  <1>4. CASE t.do = "up"
    <2> DEFINE p == Parent[t.node]
    <2>1. Subtasks(t, entered, hist) =
              IF p \in {NoNode, t.stop} THEN <<>>
              ELSE (IF Kind[p] = "parallel" THEN <<Regions(Children(p))>> ELSE <<>>)
                   \o <<Up(p, t.stop)>>
      BY <1>4 DEF Subtasks
    <2>2. Entering(t) = {p} \ {NoNode, t.stop}
      BY <1>4 DEF Entering
    <2>3. t.node \in B /\ ClimbsWithin(B, t.node, t.stop) /\ t.stop \in Node \cup {NoNode}
      BY <1>4, TaskFields DEF TaskWithin
    <2>4. CASE p \in {NoNode, t.stop}
      BY <2>1, <2>2, <2>4, <1>c DEF Tasks, W
    <2>5. CASE p \notin {NoNode, t.stop}
      <3>1. t.node \in Node \ {Root} /\ p \in Node
        BY <2>3, <2>5, <1>a, ParentFacts
      <3>2. ProperAncestors[t.node] = {p} \cup ProperAncestors[p] /\ p \notin History
        BY <3>1, AncestorFacts, ChildrenBelow, AncestorsEarlier
      <3>3. p \in B /\ ClimbsWithin(B, p, t.stop)
        <4>1. CASE B = Node
          BY <4>1, <3>1 DEF ClimbsWithin
        <4>2. CASE B # Node /\ t.stop \in ProperAncestors[t.node] /\ Below[t.stop] \subseteq B
          <5>1. t.stop \in ProperAncestors[p] /\ t.stop \in Node
            BY <4>2, <3>1, <3>2, <2>5, AncestorFacts
          <5>2. p \in Below[t.stop]
            BY <5>1, <3>1, BelowFacts
          <5> QED  BY <4>2, <5>1, <5>2 DEF ClimbsWithin
        <4> QED  BY <4>1, <4>2, <2>3 DEF ClimbsWithin
      <3>4. Children(p) \in SUBSET B
        BY <3>1, <3>3, <1>a, ChildrenBelow
      <3>5. <<Regions(Children(p))>> \in Seq(W) /\ <<Up(p, t.stop)>> \in Seq(W)
        BY <3>3, <3>4, <2>3, <1>b, <1>c
      <3>6. Subtasks(t, entered, hist) \in Seq(W)
        BY <2>1, <2>5, <3>5, <1>c, ConcatTasks
      <3> QED  BY <2>2, <2>5, <3>2, <3>3, <3>6 DEF Tasks, W
    <2> QED  BY <2>4, <2>5
  <1>5. CASE t.do = "down"
    <2> DEFINE n == t.node
    <2>1. Subtasks(t, entered, hist) =
              CASE n \in History          -> <<Back(Restored(n, hist), Parent[n])>>
                [] Kind[n] = "compound" -> DownThenUp(Initial[n], n)
                [] Kind[n] = "parallel" -> <<Regions(Children(n))>>
                [] OTHER                  -> <<>>
      BY <1>5 DEF Subtasks
    <2>2. Entering(t) = {n} \ History /\ n \in B /\ n \in Node
      BY <1>5, <1>a DEF Entering, TaskWithin
    <2>3. CASE n \in History
      <3>1. Parent[n] \in Node \cup {NoNode}
        BY <2>2, ParentFacts
      <3>2. /\ Restored(n, hist) \subseteq Node
            /\ B = Node \/ Restored(n, hist) \subseteq Below[Parent[n]]
        BY <2>3 DEF RestoresWithin
      <3>3. Restored(n, hist) \in SUBSET B
        BY <3>2, <2>2, <1>a
      <3>4. \A m \in Restored(n, hist) : ClimbsWithin(B, m, Parent[n])
        <4>1. CASE B = Node
          BY <4>1 DEF ClimbsWithin
        <4>2. CASE B # Node
          <5>1. Restored(n, hist) \subseteq Below[Parent[n]]
            BY <3>2, <4>2
          <5>2. \A m \in Below[Parent[n]] : Parent[n] \in ProperAncestors[m]
            BY <3>1, BelowFacts
          <5> QED  BY <5>1, <5>2, <2>2, <1>a DEF ClimbsWithin
        <4> QED  BY <4>1, <4>2
      <3>5. <<Back(Restored(n, hist), Parent[n])>> \in Seq(W)
        BY <3>1, <3>3, <3>4, <1>b, <1>c
      <3> QED  BY <2>1, <2>2, <2>3, <3>5 DEF Tasks, W, History
    <2>4. CASE n \notin History /\ Kind[n] = "compound"
      <3>1. Initial[n] \in Children(n)
        BY <2>2, <2>4, InitialFacts
      <3>2. Initial[n] \in Node /\ Initial[n] \in Below[n]
        BY <2>2, <3>1, ChildrenBelow
      <3>3. Initial[n] \in B /\ ClimbsWithin(B, Initial[n], n)
        BY <2>2, <3>2, <1>a, BelowFacts DEF ClimbsWithin
      <3>4. DownThenUp(Initial[n], n) \in Seq(W)
        BY <2>2, <3>3, <1>b
      <3> QED  BY <2>1, <2>2, <2>4, <3>4 DEF Tasks, W
    <2>5. CASE n \notin History /\ Kind[n] = "parallel"
      <3>1. Children(n) \in SUBSET B
        BY <2>2, <1>a, ChildrenBelow
      <3>2. <<Regions(Children(n))>> \in Seq(W)
        BY <3>1, <1>b, <1>c
      <3> QED  BY <2>1, <2>2, <2>5, <3>2 DEF Tasks, W
    <2>6. CASE n \notin History /\ Kind[n] \notin {"compound", "parallel"}
      BY <2>1, <2>2, <2>6, <1>c DEF Tasks, W
    <2> QED  BY <2>3, <2>4, <2>5, <2>6
  <1> QED  BY <1>1, <1>2, <1>3, <1>4, <1>5, TaskFields

\* The progress of an entry set that keeps to B.
Within(B) == [tasks : Tasks(B), entered : SUBSET (B \ History)]

LEMMA PerformWithin ==
    ASSUME NEW B, Closed(B), NEW hist, RestoresWithin(B, hist), NEW w \in Within(B)
    PROVE  w \in Progress /\ Perform(hist)[w] \in Within(B)
  <1> DEFINE W == {t \in Task : TaskWithin(B, t)}
  <1>1. /\ B \subseteq Node /\ w = [tasks |-> w.tasks, entered |-> w.entered]
        /\ w.tasks \in Seq(W) /\ w.entered \subseteq B \ History
    BY DEF Closed, Within, Tasks
  <1>2. w.tasks \in Seq(Task)
    BY <1>1
  <1>3. w \in Progress
    BY <1>1, <1>2 DEF Progress
  <1> DEFINE t == Head(w.tasks)
             entered == w.entered \cup Entering(t)
             next == Subtasks(t, entered, hist) \o Tail(w.tasks)
  <1>4. Perform(hist)[w] = IF w.tasks = <<>> THEN w
                           ELSE [tasks |-> next, entered |-> entered]
    BY <1>3, Zenon DEF Perform
  <1>5. CASE w.tasks = <<>>
    BY <1>3, <1>4, <1>5
  <1>6. CASE w.tasks # <<>>
    <2>1. t \in W /\ Tail(w.tasks) \in Seq(W)
      BY <1>1, <1>6, HeadTailProperties
    <2> HIDE DEF t
    <2>2. Subtasks(t, entered, hist) \in Tasks(B) /\ Entering(t) \subseteq B \ History
      BY <2>1, SubtasksWithin
    <2>3. next \in Seq(W)
      BY <2>1, <2>2, ConcatTasks DEF Tasks
    <2>4. entered \in SUBSET (B \ History)
      BY <1>1, <2>2
    <2> HIDE DEF next, entered
    <2> QED  BY <1>3, <1>4, <1>6, <2>3, <2>4 DEF Within, Tasks
  <1> QED  BY <1>5, <1>6

LEMMA EntryWithin ==
    ASSUME NEW B, Closed(B), NEW hist, RestoresWithin(B, hist), NEW tasks \in Tasks(B)
    PROVE  EntryClosure(tasks, hist).entered \subseteq B \ History
  <1> DEFINE S == Within(B)
             start == [tasks |-> tasks, entered |-> {}]
  <1>1. start \in S
    BY DEF Within
  <1>2. \A w \in S : Perform(hist)[w] \in S
    BY PerformWithin
  <1> HIDE DEF S
  <1>3. EntryClosure(tasks, hist) \in S
    BY <1>1, <1>2, EntryInduct, Zenon
  <1> QED  BY <1>3 DEF S, Within

\* The whole tree is closed, and so is what lies below the domains of any
\* transitions that have one.
LEMMA ClosedNode == Closed(Node)
  <1>1. \A n \in Node : Below[n] \subseteq Node /\ Below[Parent[n]] \subseteq Node
    BY BelowFacts, ParentFacts
  <1> QED  BY <1>1 DEF Closed

LEMMA ClosedScopes ==
    ASSUME NEW T \in SUBSET Edge
    PROVE  Closed(UNION {Scope[t] : t \in T})
  <1> DEFINE B == UNION {Scope[t] : t \in T}
  <1>1. B \subseteq Node
    BY ScopeFacts
  <1>2. ASSUME NEW t \in T, NEW n \in Scope[t]
        PROVE  Below[n] \subseteq Scope[t] /\ Below[Parent[n]] \subseteq Scope[t]
    <2>1. /\ t \in Edge /\ n \in Node /\ ~Targetless(t) /\ Domain[t] # NoNode
          /\ Below[n] \subseteq Scope[t]
      BY <1>2, ScopeFacts
    <2>2. Scope[t] = Below[Domain[t]] /\ Domain[t] \in Node
      BY <2>1, DomainFacts DEF Scope
    <2>3. Domain[t] \in ProperAncestors[n]
      BY <2>1, <2>2, BelowFacts
    <2>4. n # Root /\ Parent[n] \in Node /\ ProperAncestors[n] = {Parent[n]} \cup ProperAncestors[Parent[n]]
      BY <2>1, <2>3, AncestorFacts, ParentFacts
    <2>5. CASE Domain[t] = Parent[n]
      BY <2>1, <2>2, <2>5
    <2>6. CASE Domain[t] \in ProperAncestors[Parent[n]]
      <3>1. Parent[n] \in Scope[t]
        BY <2>2, <2>4, <2>6, BelowFacts
      <3> QED  BY <2>1, <3>1, ScopeFacts
    <2> QED  BY <2>3, <2>4, <2>5, <2>6
  <1> QED  BY <1>1, <1>2 DEF Closed

\* The tasks of a microstep's transitions, and of the entry of the chart.
LEMMA TargetsWithin ==
    ASSUME NEW T \in SUBSET Edge
    PROVE  /\ <<Targets(T \cap Targeted)>> \in Tasks(Node)
           /\ (\A t \in T \cap Targeted : Domain[t] # NoNode) =>
                 <<Targets(T \cap Targeted)>> \in Tasks(UNION {Scope[t] : t \in T})
  <1> DEFINE task == Targets(T \cap Targeted)
             B == UNION {Scope[t] : t \in T}
  <1>1. task \in Task /\ task.do = "targets" /\ task.edges = T \cap Targeted
    BY TaskTypes DEF Targets
  <1>2. TaskWithin(Node, task)
    BY <1>1, NodeIsTargeted DEF TaskWithin, ClimbsWithin
  <1>3. ASSUME \A t \in T \cap Targeted : Domain[t] # NoNode PROVE TaskWithin(B, task)
    <2>1. ASSUME NEW e \in T \cap Targeted
          PROVE  Edges[e].target \in B /\ ClimbsWithin(B, Edges[e].target, Domain[e])
      <3>1. e \in Edge /\ ~Targetless(e) /\ Domain[e] # NoNode
        BY <1>3 DEF Targeted
      <3>2. Domain[e] \in Node /\ Edges[e].target \in Below[Domain[e]]
        BY <3>1, DomainFacts
      <3>3. Scope[e] = Below[Domain[e]] /\ Scope[e] \subseteq B
        BY <3>1 DEF Scope
      <3>4. Edges[e].target \in Node /\ Domain[e] \in ProperAncestors[Edges[e].target]
        BY <3>2, BelowFacts
      <3> QED  BY <3>2, <3>3, <3>4 DEF ClimbsWithin
    <2> HIDE DEF B, task
    <2> QED  BY <1>1, <2>1 DEF TaskWithin
  <1> HIDE DEF task, B
  <1>4. \A S : task \in S => <<task>> \in Seq(S)
    OBVIOUS
  <1> QED  BY <1>1, <1>2, <1>3, <1>4 DEF Tasks, task, B

LEMMA RootWithin == <<Down(Root)>> \in Tasks(Node)
  BY WithinTasks, ClosedNode, NodeFacts DEF Tasks

-----------------------------------------------------------------------------
(***************************************************************************)
(* Paths: the states between a node and one above it.                      *)
(***************************************************************************)
Subtree(n)    == {n} \cup Below[n]
Path(n, stop) == {a \in ProperAncestors[n] : stop \in ProperAncestors[a]}

\* A node above n has a child on the way to n, and no other there.
LEMMA ChildToward ==
    /\ \A n \in Node : \A a \in ProperAncestors[n] :
          \E c \in {n} \cup ProperAncestors[n] : Parent[c] = a
    /\ \A n \in Node : \A c, d \in {n} \cup ProperAncestors[n] :
          Parent[c] = Parent[d] => c = d
  <1> DEFINE S == {n \in Node : \A a \in ProperAncestors[n] :
                      \E c \in {n} \cup ProperAncestors[n] : Parent[c] = a}
  <1>1. ASSUME NEW n \in Node, n # Root => Parent[n] \in S PROVE n \in S
    BY <1>1, AncestorFacts, ParentFacts
  <1>2. Node \subseteq S
    <2> HIDE DEF S
    <2> QED  BY <1>1, TreeInduct, Zenon
  <1>3. ASSUME NEW c \in Node, NEW d \in Node, Parent[c] = Parent[d], c \in ProperAncestors[d]
        PROVE  FALSE
    <2>1. d # Root /\ c # Root
      BY <1>3, AncestorFacts, ParentFacts, NodeFacts
    <2>2. /\ Parent[d] \in Node /\ DocOrder[Parent[c]] < DocOrder[c]
          /\ ProperAncestors[d] = {Parent[d]} \cup ProperAncestors[Parent[d]]
      BY <2>1, AncestorFacts, ParentFacts
    <2>3. DocOrder[c] <= DocOrder[Parent[d]]
      BY <1>3, <2>2, AncestorsEarlier, NodeFacts
    <2> QED  BY <1>3, <2>2, <2>3, NodeFacts
  <1>4. ASSUME NEW n \in Node, NEW c \in {n} \cup ProperAncestors[n],
               NEW d \in {n} \cup ProperAncestors[n], Parent[c] = Parent[d]
        PROVE  c = d
    <2>1. c \in Node /\ d \in Node
      BY <1>4, AncestorsEarlier
    <2>2. c = d \/ c \in ProperAncestors[d] \/ d \in ProperAncestors[c]
      BY <1>4, AncestorsInLine
    <2> QED  BY <1>4, <2>1, <2>2, <1>3
  <1> QED  BY <1>2, <1>4

LEMMA SubtreeFacts ==
    /\ \A n \in Node : Subtree(n) \subseteq Node
    /\ \A n \in Node, m \in Node : n \in Below[m] => Subtree(n) \subseteq Below[m]
    /\ \A n \in Node \ {Root} : n \in Below[Parent[n]] /\ Subtree(n) \subseteq Below[Parent[n]]
  <1>1. \A n \in Node, m \in Node : n \in Below[m] => Subtree(n) \subseteq Below[m]
    BY BelowFacts, AncestorsTransitive DEF Subtree
  <1>2. \A n \in Node \ {Root} : n \in Below[Parent[n]] /\ Parent[n] \in Node
    BY BelowFacts, ChildrenBelow, ParentFacts
  <1> QED  BY <1>1, <1>2, BelowFacts DEF Subtree

\* A set that holds the parents of its nodes holds all that is above them.
LEMMA UpwardClosed ==
    ASSUME NEW S \in SUBSET Node, \A n \in S \ {Root} : Parent[n] \in S
    PROVE  \A n \in S : ProperAncestors[n] \subseteq S
  <1> DEFINE U == {n \in Node : n \in S => ProperAncestors[n] \subseteq S}
  <1>1. ASSUME NEW n \in Node, n # Root => Parent[n] \in U PROVE n \in U
    BY <1>1, AncestorFacts
  <1>2. Node \subseteq U
    <2> HIDE DEF U
    <2> QED  BY <1>1, TreeInduct, Zenon
  <1> QED  BY <1>2

LEMMA PathFacts ==
    ASSUME NEW n \in Node, NEW stop \in ProperAncestors[n]
    PROVE  /\ stop \in Node /\ n # Root /\ Parent[n] \in Node
           /\ Path(n, stop) \subseteq Node \ History /\ Path(n, stop) \subseteq Below[stop]
           /\ n \in Below[stop] /\ n \notin Path(n, stop)
           /\ Path(n, stop) \cap Subtree(n) = {} /\ Path(n, stop) \cap Below[Parent[n]] = {}
           /\ \A a \in {n} \cup Path(n, stop) :
                 a # Root /\ Parent[a] \in {stop} \cup Path(n, stop)
           /\ \A a \in {stop} \cup Path(n, stop) :
                 \E c \in {n} \cup Path(n, stop) : Parent[c] = a
           /\ \A c, d \in {n} \cup Path(n, stop) : Parent[c] = Parent[d] => c = d
  <1> DEFINE P == Path(n, stop)
             A == ProperAncestors[n]
  <1>1. /\ stop \in Node /\ n # Root /\ Parent[n] \in Node /\ A \subseteq Node \ History
        /\ A = {Parent[n]} \cup ProperAncestors[Parent[n]]
    BY AncestorsEarlier, AncestorFacts, ParentFacts
  <1>2. P \subseteq A /\ P \subseteq Below[stop] /\ n \in Below[stop]
    BY <1>1, BelowFacts DEF Path
  <1>3. ASSUME NEW a \in A PROVE a \notin Subtree(n) /\ a \notin Below[Parent[n]] /\ a # n
    <2>1. DocOrder[a] < DocOrder[n] /\ DocOrder[a] <= DocOrder[Parent[n]]
      BY <1>1, AncestorsEarlier, NodeFacts
    <2>2. a \notin Below[n] /\ a \notin Below[Parent[n]]
      BY <1>1, <2>1, BelowFacts, AncestorsEarlier, NodeFacts
    <2> QED  BY <2>1, <2>2, <1>1, NodeFacts DEF Subtree
  <1>4. ASSUME NEW a \in {n} \cup P PROVE a # Root /\ Parent[a] \in {stop} \cup P
    <2>1. a \in Node /\ stop \in ProperAncestors[a] /\ ProperAncestors[a] \subseteq A
      BY <1>1, <1>2, AncestorsTransitive DEF Path
    <2>2. a # Root /\ ProperAncestors[a] = {Parent[a]} \cup ProperAncestors[Parent[a]]
      BY <2>1, AncestorFacts
    <2> QED  BY <2>1, <2>2 DEF Path
  <1>5. ASSUME NEW a \in {stop} \cup P PROVE \E c \in {n} \cup P : Parent[c] = a
    <2>1. a \in A
      BY <1>2
    <2>2. PICK c \in {n} \cup A : Parent[c] = a
      BY <2>1, ChildToward
    <2>3. c # Root /\ c \in Node
      BY <1>1, <2>1, <2>2, ParentFacts, NodeFacts
    <2>4. stop \in ProperAncestors[c]
      BY <2>2, <2>3, AncestorFacts DEF Path
    <2> QED  BY <2>2, <2>4 DEF Path
  <1>6. \A c, d \in {n} \cup P : Parent[c] = Parent[d] => c = d
    BY <1>2, ChildToward
  <1> QED  BY <1>1, <1>2, <1>3, <1>4, <1>5, <1>6

\* The path begins with the parent, if that is not where it ends.
LEMMA PathStep ==
    ASSUME NEW n \in Node, NEW stop \in ProperAncestors[n]
    PROVE  /\ Parent[n] = stop => Path(n, stop) = {}
           /\ Parent[n] # stop => /\ stop \in ProperAncestors[Parent[n]]
                                  /\ Path(n, stop) = {Parent[n]} \cup Path(Parent[n], stop)
  <1>1. /\ n # Root /\ Parent[n] \in Node
        /\ ProperAncestors[n] = {Parent[n]} \cup ProperAncestors[Parent[n]]
    BY AncestorFacts, ParentFacts
  <1>2. \A a \in ProperAncestors[stop] : stop \notin ProperAncestors[a] /\ stop # a
    BY <1>1, AncestorsEarlier, NodeFacts
  <1>3. stop \notin ProperAncestors[stop]
    BY <1>2
  <1> QED  BY <1>1, <1>2, <1>3 DEF Path

-----------------------------------------------------------------------------
(***************************************************************************)
(* What a task is good for, on charts whose history states restore one     *)
(* path.  Owes: the states it is bound to enter.  Tends: the states whose  *)
(* children it sees to; Opens: the regions it will look at.  Area: where it*)
(* may enter states, and Fresh: where none has been entered yet.           *)
(***************************************************************************)
Home(n)        == IF n \in History THEN Below[Parent[n]] ELSE Subtree(n)
Cared(n)       == IF n \in History THEN {Parent[n]} ELSE {n}
Chain(n, stop) == ({n} \ History) \cup Path(n, stop)
Forks(n, stop) == {a \in Path(n, stop) : Kind[a] = "parallel"}

Owes(t) ==
    CASE t.do = "down"    -> {t.node} \ History
      [] t.do = "up"      -> Path(t.node, t.stop)
      [] t.do = "back"    -> UNION {Chain(n, t.stop) : n \in t.nodes}
      [] t.do = "targets" -> UNION {Chain(Edges[e].target, Domain[e]) : e \in t.edges}
      [] OTHER            -> {}

Tends(t) ==
    CASE t.do = "down"    -> Cared(t.node)
      [] t.do = "up"      -> Forks(t.node, t.stop)
      [] t.do = "back"    -> UNION {Cared(n) \cup Forks(n, t.stop) : n \in t.nodes}
      [] t.do = "targets" -> UNION {Cared(Edges[e].target) \cup Forks(Edges[e].target, Domain[e]) :
                                    e \in t.edges}
      [] OTHER            -> {}

Opens(t) == IF t.do = "regions" THEN t.nodes ELSE {}

Area(t) ==
    CASE t.do = "down"    -> Home(t.node)
      [] t.do = "up"      -> Below[t.stop]
      [] t.do = "regions" -> UNION {Subtree(r) : r \in t.nodes}
      [] t.do = "back"    -> UNION {Below[t.stop] : n \in t.nodes}
      [] t.do = "targets" -> UNION {Below[Domain[e]] : e \in t.edges}

Fresh(t) ==
    CASE t.do = "up"      -> Below[t.stop] \ Home(t.node)
      [] t.do = "regions" -> {}
      [] OTHER            -> Area(t)

\* The task is in place: what it starts from is due.
Placed(t, due) ==
    /\ t.do = "down" => t.node = Root \/ Parent[t.node] \in due
    /\ t.do = "up" => t.stop \in ProperAncestors[t.node] \cap due
    /\ t.do = "regions" => \A r \in t.nodes :
          r \notin History /\ Parent[r] \in due /\ Kind[Parent[r]] = "parallel"
    /\ t.do = "back" =>
          /\ \A n \in t.nodes : n \notin History /\ t.stop \in ProperAncestors[n] \cap due
          /\ \A n, m \in t.nodes : n = m
    /\ t.do = "targets" =>
          /\ \A e \in t.edges : Domain[e] \in ProperAncestors[Edges[e].target] \cap due
          /\ \A e, u \in t.edges : e # u => Below[Domain[e]] \cap Below[Domain[u]] = {}

\* Where an earlier task may enter states, a later one counts on none.
Apart(tasks) ==
    \A i, j \in DOMAIN tasks : i < j => Area(tasks[i]) \cap Fresh(tasks[j]) = {}

\* The parent of n is due, and its children are due or seen to.
Standing(n, due, tended, opened) ==
    /\ n # Root => Parent[n] \in due
    /\ n \in tended
       \/ /\ Kind[n] = "compound" => Children(n) \cap due # {}
          /\ Kind[n] = "parallel" => Children(n) \ History \subseteq due \cup opened

\* No compound state has two children in S.
Alone(S) == \A n \in Node : Kind[n] = "compound" =>
                \A c, d \in Children(n) \cap S : c = d

\* What is due when w has been done of an entry beside base: what is active or
\* entered, and what the tasks owe.
Now(base, w) == base \cup w.entered
Due(base, w) == Now(base, w) \cup UNION {Owes(t) : t \in Range(w.tasks)}

\* What is due makes a legal configuration, but for what the tasks see to.
Sound(base, w) ==
    LET due    == Due(base, w)
        tended == UNION {Tends(t) : t \in Range(w.tasks)}
        opened == UNION {Opens(t) : t \in Range(w.tasks)}
    IN  /\ w \in Progress
        /\ due \subseteq Node \ History /\ Root \in due
        /\ \A t \in Range(w.tasks) : /\ Placed(t, due) /\ Area(t) \cap base = {}
                                     /\ Fresh(t) \cap Now(base, w) = {}
        /\ Apart(w.tasks)
        /\ \A n \in due : Standing(n, due, tended, opened)
        /\ Alone(due)

\* Every history state restores one path below its compound parent.
RestoresOnePath(hist) ==
    \A h \in History :
        /\ Kind[Parent[h]] = "compound"
        /\ \E n \in Below[Parent[h]] \ History : Restored(h, hist) = {n}

\* What a task can count on when its turn comes.
Ready(t, base, entered, due) ==
    /\ t \in Task /\ Placed(t, due)
    /\ due \subseteq Node \ History /\ Root \in due
    /\ base \cup entered \cup Owes(t) \subseteq due
    /\ \A n \in due \ {Root} : Parent[n] \in due
    /\ Area(t) \cap base = {} /\ Fresh(t) \cap (base \cup entered) = {}
    /\ Fresh(t) \cap due \subseteq Owes(t)

\* What it passes on to the tasks it leads to.
PassesOn(t, sub, base, entered, due) ==
    LET owed   == UNION {Owes(u) : u \in Range(sub)}
        tended == UNION {Tends(u) : u \in Range(sub)}
        opened == UNION {Opens(u) : u \in Range(sub)}
        next   == due \cup owed
    IN  /\ sub \in Seq(Task)
        /\ Entering(t) \subseteq Owes(t) /\ Owes(t) \subseteq Entering(t) \cup owed
        /\ owed \subseteq Node \ History
        /\ \A u \in Range(sub) : /\ Placed(u, next) /\ Area(u) \subseteq Area(t)
                                 /\ Fresh(u) \cap (base \cup entered \cup Entering(t)) = {}
        /\ Apart(sub)
        /\ \A n \in (owed \ due) \cup (due \cap Tends(t)) : Standing(n, next, tended, opened)
        /\ Opens(t) \subseteq next \cup opened
        /\ \A n \in Node : Kind[n] = "compound" =>
              \A c \in Children(n) \cap (owed \ due), d \in Children(n) \cap next : c = d

-----------------------------------------------------------------------------
(***************************************************************************)
(* One task after the other.                                               *)
(***************************************************************************)
LEMMA RangeConcat ==
    ASSUME NEW S, NEW a \in Seq(S), NEW b \in Seq(S)
    PROVE  Range(a \o b) = Range(a) \cup Range(b)
  <1>1. /\ Len(a) \in Nat /\ Len(b) \in Nat /\ DOMAIN a = 1 .. Len(a) /\ DOMAIN b = 1 .. Len(b)
        /\ DOMAIN (a \o b) = 1 .. (Len(a) + Len(b))
        /\ \A i \in 1 .. (Len(a) + Len(b)) :
              (a \o b)[i] = IF i <= Len(a) THEN a[i] ELSE b[i - Len(a)]
    OBVIOUS
  <1>2. Range(a \o b) \subseteq Range(a) \cup Range(b)
    BY <1>1 DEF Range
  <1>3. ASSUME NEW i \in 1 .. Len(a) PROVE a[i] \in Range(a \o b)
    <2>1. i \in 1 .. (Len(a) + Len(b)) /\ (a \o b)[i] = a[i]
      BY <1>1
    <2> QED  BY <2>1, <1>1 DEF Range
  <1>4. ASSUME NEW i \in 1 .. Len(b) PROVE b[i] \in Range(a \o b)
    <2>1. /\ i + Len(a) \in 1 .. (Len(a) + Len(b))
          /\ (a \o b)[i + Len(a)] = b[i]
      BY <1>1
    <2> QED  BY <2>1, <1>1 DEF Range
  <1> QED  BY <1>1, <1>2, <1>3, <1>4 DEF Range

LEMMA RangeFacts ==
    /\ \A S : \A a \in Seq(S) : Range(a) \subseteq S
    /\ Range(<<>>) = {}
    /\ \A u : Range(<<u>>) = {u}
    /\ \A u, v : Range(<<u, v>>) = {u, v}
  <1>2. ASSUME NEW S, NEW a \in Seq(S) PROVE Range(a) \subseteq S
    BY DEF Range
  <1>3. Range(<<>>) = {}
    BY DEF Range
  <1>4. \A u : Range(<<u>>) = {u}
    BY DEF Range
  <1>5. ASSUME NEW u, NEW v PROVE Range(<<u, v>>) = {u, v}
    <2>1. DOMAIN <<u, v>> = {1, 2} /\ <<u, v>>[1] = u /\ <<u, v>>[2] = v
      OBVIOUS
    <2> HIDE DEF Range
    <2> QED  BY <2>1 DEF Range
  <1> QED  BY <1>2, <1>3, <1>4, <1>5

LEMMA HeadTailRange ==
    ASSUME NEW S, NEW s \in Seq(S), s # <<>>
    PROVE  /\ Head(s) \in S /\ Tail(s) \in Seq(S)
           /\ Range(s) = {Head(s)} \cup Range(Tail(s))
           /\ Apart(s) => /\ Apart(Tail(s))
                          /\ \A u \in Range(Tail(s)) : Area(Head(s)) \cap Fresh(u) = {}
  <1>1. /\ Len(s) \in Nat /\ Len(s) > 0 /\ DOMAIN s = 1 .. Len(s) /\ Head(s) = s[1]
        /\ Tail(s) \in Seq(S) /\ DOMAIN Tail(s) = 1 .. (Len(s) - 1)
        /\ \A i \in 1 .. (Len(s) - 1) : Tail(s)[i] = s[i + 1]
    OBVIOUS
  <1>2. Range(s) = {Head(s)} \cup Range(Tail(s))
    <2>1. ASSUME NEW i \in 1 .. Len(s) PROVE s[i] \in {Head(s)} \cup Range(Tail(s))
      <3>1. CASE i = 1
        BY <3>1, <1>1
      <3>2. CASE i # 1
        <4>1. i - 1 \in 1 .. (Len(s) - 1) /\ i - 1 + 1 = i
          BY <3>2, <1>1
        <4> QED  BY <4>1, <1>1 DEF Range
      <3> QED  BY <3>1, <3>2
    <2>2. \A i \in 1 .. (Len(s) - 1) : i + 1 \in 1 .. Len(s)
      BY <1>1
    <2>3. 1 \in 1 .. Len(s)
      BY <1>1
    <2> QED  BY <1>1, <2>1, <2>2, <2>3 DEF Range
  <1>3. ASSUME Apart(s) PROVE Apart(Tail(s)) /\ \A u \in Range(Tail(s)) : Area(Head(s)) \cap Fresh(u) = {}
    <2>1. \A i \in 1 .. (Len(s) - 1) : i + 1 \in 1 .. Len(s) /\ 1 < i + 1
      BY <1>1
    <2>2. \A i, j \in 1 .. (Len(s) - 1) : i < j => i + 1 < j + 1
      OBVIOUS
    <2>3. 1 \in 1 .. Len(s)
      BY <1>1
    <2>4. \A i, j \in 1 .. Len(s) : i < j => Area(s[i]) \cap Fresh(s[j]) = {}
      BY <1>1, <1>3 DEF Apart
    <2>5. Apart(Tail(s))
      BY <1>1, <2>1, <2>2, <2>4 DEF Apart
    <2>6. \A i \in 1 .. (Len(s) - 1) : Area(s[1]) \cap Fresh(s[i + 1]) = {}
      BY <2>1, <2>3, <2>4
    <2> QED  BY <1>1, <2>5, <2>6 DEF Range
  <1> QED  BY <1>1, <1>2, <1>3

LEMMA ApartConcat ==
    ASSUME NEW S, NEW a \in Seq(S), NEW b \in Seq(S), Apart(a), Apart(b),
           \A u \in Range(a), v \in Range(b) : Area(u) \cap Fresh(v) = {}
    PROVE  Apart(a \o b)
  <1>1. /\ Len(a) \in Nat /\ Len(b) \in Nat /\ DOMAIN a = 1 .. Len(a) /\ DOMAIN b = 1 .. Len(b)
        /\ DOMAIN (a \o b) = 1 .. (Len(a) + Len(b))
        /\ \A i \in 1 .. (Len(a) + Len(b)) :
              (a \o b)[i] = IF i <= Len(a) THEN a[i] ELSE b[i - Len(a)]
    OBVIOUS
  <1>2. ASSUME NEW i \in 1 .. (Len(a) + Len(b)), NEW j \in 1 .. (Len(a) + Len(b)), i < j
        PROVE  Area((a \o b)[i]) \cap Fresh((a \o b)[j]) = {}
    <2>1. CASE j <= Len(a)
      <3>1. i \in DOMAIN a /\ j \in DOMAIN a /\ (a \o b)[i] = a[i] /\ (a \o b)[j] = a[j]
        BY <1>1, <1>2, <2>1
      <3> QED  BY <3>1, <1>2 DEF Apart
    <2>2. CASE i <= Len(a) /\ ~(j <= Len(a))
      <3>1. /\ i \in DOMAIN a /\ j - Len(a) \in DOMAIN b
            /\ (a \o b)[i] = a[i] /\ (a \o b)[j] = b[j - Len(a)]
        BY <1>1, <1>2, <2>2
      <3> QED  BY <3>1 DEF Range
    <2>3. CASE ~(i <= Len(a))
      <3>1. /\ i - Len(a) \in DOMAIN b /\ j - Len(a) \in DOMAIN b /\ i - Len(a) < j - Len(a)
            /\ (a \o b)[i] = b[i - Len(a)] /\ (a \o b)[j] = b[j - Len(a)]
        BY <1>1, <1>2, <2>3
      <3> QED  BY <3>1 DEF Apart
    <2> QED  BY <2>1, <2>2, <2>3, <1>1
  <1> QED  BY <1>1, <1>2 DEF Apart

\* What these are, kind by kind.
LEMMA TaskMeans ==
    ASSUME NEW t
    PROVE  /\ t.do = "down" => /\ Owes(t) = {t.node} \ History /\ Tends(t) = Cared(t.node)
                               /\ Opens(t) = {} /\ Area(t) = Home(t.node) /\ Fresh(t) = Area(t)
           /\ t.do = "up" => /\ Owes(t) = Path(t.node, t.stop) /\ Tends(t) = Forks(t.node, t.stop)
                             /\ Opens(t) = {} /\ Area(t) = Below[t.stop]
                             /\ Fresh(t) = Below[t.stop] \ Home(t.node)
           /\ t.do = "regions" => /\ Owes(t) = {} /\ Tends(t) = {} /\ Opens(t) = t.nodes
                                  /\ Area(t) = UNION {Subtree(r) : r \in t.nodes} /\ Fresh(t) = {}
           /\ t.do = "back" =>
                 /\ Owes(t) = UNION {Chain(n, t.stop) : n \in t.nodes}
                 /\ Tends(t) = UNION {Cared(n) \cup Forks(n, t.stop) : n \in t.nodes}
                 /\ Opens(t) = {} /\ Area(t) = UNION {Below[t.stop] : n \in t.nodes}
                 /\ Fresh(t) = Area(t)
           /\ t.do = "targets" =>
                 /\ Owes(t) = UNION {Chain(Edges[e].target, Domain[e]) : e \in t.edges}
                 /\ Tends(t) = UNION {Cared(Edges[e].target) \cup Forks(Edges[e].target, Domain[e]) :
                                     e \in t.edges}
                 /\ Opens(t) = {} /\ Area(t) = UNION {Below[Domain[e]] : e \in t.edges}
                 /\ Fresh(t) = Area(t)
  <1>1. CASE t.do = "down"
    BY <1>1 DEF Owes, Tends, Opens, Area, Fresh
  <1>2. CASE t.do = "up"
    BY <1>2 DEF Owes, Tends, Opens, Area, Fresh
  <1>3. CASE t.do = "regions"
    BY <1>3 DEF Owes, Tends, Opens, Area, Fresh
  <1>4. CASE t.do = "back"
    BY <1>4 DEF Owes, Tends, Opens, Area, Fresh
  <1>5. CASE t.do = "targets"
    BY <1>5 DEF Owes, Tends, Opens, Area, Fresh
  <1> QED  BY <1>1, <1>2, <1>3, <1>4, <1>5

\* A task enters what it owes where nothing has been entered yet, and that is
\* where it may enter states at all.
LEMMA OwesFresh ==
    ASSUME NEW u \in Task, NEW due \in SUBSET (Node \ History), Placed(u, due)
    PROVE  Owes(u) \subseteq Fresh(u) /\ Fresh(u) \subseteq Area(u)
  <1>a. Fresh(u) \subseteq Area(u)
    BY TaskFields, TaskMeans
  <1>b. ASSUME NEW n \in Node, NEW stop \in ProperAncestors[n]
        PROVE  Chain(n, stop) \subseteq Below[stop] /\ Path(n, stop) \subseteq Below[stop] \ Home(n)
    BY PathFacts DEF Chain, Home
  <1>1. CASE u.do = "down"
    BY <1>1, TaskMeans DEF Home, Subtree
  <1>2. CASE u.do = "up"
    <2>1. u.node \in Node /\ u.stop \in ProperAncestors[u.node]
      BY <1>2, TaskFields DEF Placed
    <2> QED  BY <1>2, <2>1, <1>b, TaskMeans
  <1>3. CASE u.do = "regions"
    BY <1>3, TaskMeans
  <1>4. CASE u.do = "back"
    <2>1. \A n \in u.nodes : n \in Node /\ u.stop \in ProperAncestors[n]
      BY <1>4, TaskFields DEF Placed
    <2> QED  BY <1>4, <2>1, <1>b, TaskMeans
  <1>5. CASE u.do = "targets"
    <2>1. \A e \in u.edges : /\ Edges[e].target \in Node
                             /\ Domain[e] \in ProperAncestors[Edges[e].target]
      BY <1>5, TaskFields, NodeIsTargeted DEF Placed
    <2> QED  BY <1>5, <2>1, <1>b, TaskMeans
  <1> QED  BY <1>a, <1>1, <1>2, <1>3, <1>4, <1>5, TaskFields

\* The first task can count on what it needs.
LEMMA HeadIsReady ==
    ASSUME NEW base, NEW w, Sound(base, w), w.tasks # <<>>
    PROVE  Ready(Head(w.tasks), base, w.entered, Due(base, w))
  <1> DEFINE t == Head(w.tasks)
             due == Due(base, w)
             R == Range(w.tasks)
  <1>1. /\ w.tasks \in Seq(Task) /\ w.entered \subseteq Node
        /\ due \subseteq Node \ History /\ Root \in due
        /\ \A u \in R : /\ Placed(u, due) /\ Area(u) \cap base = {}
                        /\ Fresh(u) \cap Now(base, w) = {}
        /\ Apart(w.tasks)
        /\ \A n \in due : n # Root => Parent[n] \in due
    BY DEF Sound, Progress, Standing
  <1>2. /\ t \in Task /\ R = {t} \cup Range(Tail(w.tasks))
        /\ \A u \in Range(Tail(w.tasks)) : Area(t) \cap Fresh(u) = {}
        /\ R \subseteq Task
    BY <1>1, HeadTailRange, RangeFacts
  <1>3. due = base \cup w.entered \cup UNION {Owes(u) : u \in R}
    BY DEF Due, Now
  <1>4. ASSUME NEW u \in R, u # t PROVE Fresh(t) \cap Owes(u) = {}
    <2>1. Placed(u, due) /\ u \in Task /\ Placed(t, due) /\ Area(t) \cap Fresh(u) = {}
      BY <1>1, <1>2, <1>4
    <2>2. Owes(u) \subseteq Fresh(u) /\ Fresh(t) \subseteq Area(t)
      BY <2>1, <1>1, <1>2, OwesFresh
    <2> QED  BY <2>1, <2>2
  <1>5. Fresh(t) \cap (base \cup w.entered) = {} /\ Placed(t, due) /\ Area(t) \cap base = {}
    BY <1>1, <1>2 DEF Now
  <1> HIDE DEF t, due, R
  <1>6. Fresh(t) \cap due \subseteq Owes(t)
    BY <1>3, <1>4, <1>5
  <1>7. base \cup w.entered \cup Owes(t) \subseteq due
    BY <1>2, <1>3
  <1> QED  BY <1>1, <1>2, <1>5, <1>6, <1>7 DEF Ready, t, due

\* What a task passes on to the tasks it leads to, all of them keep.
LEMMA StaysSound ==
    ASSUME NEW base, NEW w, Sound(base, w), w.tasks # <<>>, NEW sub,
           PassesOn(Head(w.tasks), sub, base, w.entered, Due(base, w))
    PROVE  Sound(base, [tasks   |-> sub \o Tail(w.tasks),
                        entered |-> w.entered \cup Entering(Head(w.tasks))])
  <1> DEFINE t == Head(w.tasks)
             due == Due(base, w)
             rest == Tail(w.tasks)
             v == [tasks |-> sub \o rest, entered |-> w.entered \cup Entering(t)]
             R == Range(sub)
             Q == Range(rest)
             owed == UNION {Owes(u) : u \in R}
             owing == UNION {Owes(u) : u \in Q}
             tended == UNION {Tends(u) : u \in R}
             tending == UNION {Tends(u) : u \in Q}
             opened == UNION {Opens(u) : u \in R}
             opening == UNION {Opens(u) : u \in Q}
             next == due \cup owed
  <1>1. /\ w.tasks \in Seq(Task) /\ w.entered \subseteq Node
        /\ due \subseteq Node \ History /\ Root \in due
        /\ \A u \in Range(w.tasks) : /\ Placed(u, due) /\ Area(u) \cap base = {}
                                     /\ Fresh(u) \cap Now(base, w) = {}
        /\ Apart(w.tasks) /\ Alone(due)
        /\ \A n \in due : Standing(n, due, UNION {Tends(u) : u \in Range(w.tasks)},
                                           UNION {Opens(u) : u \in Range(w.tasks)})
    BY DEF Sound, Progress
  <1>2. /\ t \in Task /\ rest \in Seq(Task) /\ Range(w.tasks) = {t} \cup Q
        /\ Apart(rest) /\ \A u \in Q : Area(t) \cap Fresh(u) = {}
    BY <1>1, HeadTailRange
  <1>3. /\ sub \in Seq(Task)
        /\ Entering(t) \subseteq Owes(t) /\ Owes(t) \subseteq Entering(t) \cup owed
        /\ owed \subseteq Node \ History
        /\ \A u \in R : /\ Placed(u, next) /\ Area(u) \subseteq Area(t)
                        /\ Fresh(u) \cap (base \cup w.entered \cup Entering(t)) = {}
        /\ Apart(sub)
        /\ \A n \in (owed \ due) \cup (due \cap Tends(t)) : Standing(n, next, tended, opened)
        /\ Opens(t) \subseteq next \cup opened
        /\ \A n \in Node : Kind[n] = "compound" =>
              \A c \in Children(n) \cap (owed \ due), d \in Children(n) \cap next : c = d
    BY DEF PassesOn
  <1>4. /\ v.tasks = sub \o rest /\ v.entered = w.entered \cup Entering(t)
        /\ v.tasks \in Seq(Task) /\ Range(v.tasks) = R \cup Q
    <2>1. v.tasks = sub \o rest /\ v.entered = w.entered \cup Entering(t)
      OBVIOUS
    <2> HIDE DEF t, rest, v
    <2>2. sub \o rest \in Seq(Task)
      BY <1>2, <1>3, ConcatTasks
    <2>3. Range(sub \o rest) = R \cup Q
      BY <1>2, <1>3, RangeConcat
    <2> QED  BY <2>1, <2>2, <2>3
  <1>5. /\ due = base \cup w.entered \cup Owes(t) \cup owing
        /\ Now(base, v) = Now(base, w) \cup Entering(t)
        /\ Due(base, v) = base \cup w.entered \cup Entering(t) \cup owed \cup owing
    BY <1>2, <1>4 DEF Due, Now
  <1>6. /\ UNION {Tends(u) : u \in Range(v.tasks)} = tended \cup tending
        /\ UNION {Opens(u) : u \in Range(v.tasks)} = opened \cup opening
        /\ UNION {Tends(u) : u \in Range(w.tasks)} = Tends(t) \cup tending
        /\ UNION {Opens(u) : u \in Range(w.tasks)} = Opens(t) \cup opening
    BY <1>2, <1>4
  <1> HIDE DEF v, t, rest, due, R, Q, owed, owing, tended, tending, opened, opening
  <1>7. Due(base, v) = next /\ Entering(t) \subseteq due
    BY <1>3, <1>5
  <1>8. \A u \in Q : Placed(u, next)
    BY <1>1, <1>2 DEF Placed
  <1>9. Owes(t) \subseteq Area(t) /\ \A u \in Q : Entering(t) \cap Fresh(u) = {}
    BY <1>1, <1>2, <1>3, OwesFresh
  <1>10. Apart(v.tasks)
    <2>1. \A u \in R, x \in Q : Area(u) \cap Fresh(x) = {}
      BY <1>2, <1>3
    <2>2. Apart(sub \o rest)
      BY <1>2, <1>3, <2>1, ApartConcat DEF R, Q
    <2> QED  BY <2>2, <1>4
  <1>11. \A n \in next : Standing(n, next, tended \cup tending, opened \cup opening)
    <2>1. ASSUME NEW n \in due, n \notin Tends(t)
          PROVE  Standing(n, next, tended \cup tending, opened \cup opening)
      <3>1. Standing(n, due, Tends(t) \cup tending, Opens(t) \cup opening)
        BY <1>1, <1>6
      <3> QED  BY <1>3, <2>1, <3>1 DEF Standing
    <2>2. ASSUME NEW n, Standing(n, next, tended, opened)
          PROVE  Standing(n, next, tended \cup tending, opened \cup opening)
      BY <2>2 DEF Standing
    <2> QED  BY <1>3, <2>1, <2>2
  <1>12. Alone(next)
    <2> SUFFICES ASSUME NEW n \in Node, Kind[n] = "compound",
                        NEW c \in Children(n) \cap next, NEW d \in Children(n) \cap next
                 PROVE  c = d
      BY DEF Alone
    <2>1. CASE c \in due /\ d \in due
      BY <1>1, <2>1 DEF Alone
    <2> QED  BY <1>3, <2>1
  <1>13. \A u \in R \cup Q : /\ Placed(u, next) /\ Area(u) \cap base = {}
                             /\ Fresh(u) \cap Now(base, v) = {}
    BY <1>1, <1>2, <1>3, <1>5, <1>8, <1>9 DEF Now
  <1>14. v \in Progress
    <2>1. v.entered \subseteq Node
      BY <1>1, <1>4, <1>7
    <2>2. v = [tasks |-> v.tasks, entered |-> v.entered]
      BY DEF v
    <2> QED  BY <1>4, <2>1, <2>2 DEF Progress
  <1>15. Sound(base, v)
    <2>1. next \subseteq Node \ History /\ Root \in next
      BY <1>1, <1>3
    <2>2. \A n \in Due(base, v) :
              Standing(n, Due(base, v), UNION {Tends(u) : u \in Range(v.tasks)},
                                        UNION {Opens(u) : u \in Range(v.tasks)})
      BY <1>6, <1>7, <1>11
    <2>3. \A u \in Range(v.tasks) : /\ Placed(u, Due(base, v)) /\ Area(u) \cap base = {}
                                    /\ Fresh(u) \cap Now(base, v) = {}
      BY <1>4, <1>7, <1>13
    <2> QED  BY <1>7, <1>10, <1>12, <1>14, <2>1, <2>2, <2>3 DEF Sound
  <1> QED  BY <1>15 DEF v, t, rest

-----------------------------------------------------------------------------
(***************************************************************************)
(* What each kind of task passes on.                                       *)
(***************************************************************************)
\* The sequences of tasks that a task leads to.
Makes(s, tasks) == s \in Seq(Task) /\ Range(s) = tasks /\ Apart(s)

LEMMA Pair ==
    ASSUME NEW a \in Task, NEW b \in Task, Area(a) \cap Fresh(b) = {}
    PROVE  Makes(<<a, b>>, {a, b})
  <1>1. <<a, b>> \in Seq(Task)
    OBVIOUS
  <1>2. DOMAIN <<a, b>> = 1 .. 2 /\ <<a, b>>[1] = a /\ <<a, b>>[2] = b
    OBVIOUS
  <1>3. \A i, j \in 1 .. 2 : i < j => i = 1 /\ j = 2
    OBVIOUS
  <1>4. Apart(<<a, b>>)
    BY <1>2, <1>3 DEF Apart
  <1> QED  BY <1>1, <1>4, RangeFacts DEF Makes

LEMMA OneTask ==
    ASSUME NEW a \in Task PROVE Makes(<<a>>, {a})
  BY RangeFacts DEF Makes, Apart

LEMMA NoTask == Makes(<<>>, {})
  BY RangeFacts DEF Makes, Apart

LEMMA ThenMore ==
    ASSUME NEW s, NEW R, Makes(s, R), NEW b \in Task, \A u \in R : Area(u) \cap Fresh(b) = {}
    PROVE  Makes(s \o <<b>>, R \cup {b})
  <1> DEFINE y == <<b>>
  <1>1. y \in Seq(Task) /\ Range(y) = {b} /\ Apart(y)
    BY OneTask DEF Makes
  <1> HIDE DEF y
  <1>2. s \o y \in Seq(Task) /\ Range(s \o y) = R \cup {b}
    BY <1>1, RangeConcat, ConcatTasks DEF Makes
  <1>3. \A u \in Range(s), v \in Range(y) : Area(u) \cap Fresh(v) = {}
    BY <1>1 DEF Makes
  <1>4. Apart(s \o y)
    BY <1>1, <1>3, ApartConcat DEF Makes
  <1> QED  BY <1>2, <1>4 DEF y, Makes

\* A task with nothing to do.
LEMMA PassNothing ==
    ASSUME NEW t, NEW base, NEW entered, NEW due, Ready(t, base, entered, due),
           Entering(t) = {}, Owes(t) = {}, Tends(t) = {}, Opens(t) = {}
    PROVE  PassesOn(t, <<>>, base, entered, due)
  BY NoTask DEF PassesOn, Ready, Makes

\* A node entered downwards, then what is above it.
LEMMA DownThenUpFacts ==
    ASSUME NEW n \in Node, NEW stop \in ProperAncestors[n]
    PROVE  LET d == Down(n)
               u == Up(n, stop)
           IN  /\ d \in Task /\ u \in Task
               /\ Owes(d) \cup Owes(u) = Chain(n, stop)
               /\ Tends(d) \cup Tends(u) = Cared(n) \cup Forks(n, stop)
               /\ Opens(d) = {} /\ Opens(u) = {}
               /\ Area(d) \subseteq Below[stop] /\ Area(u) = Below[stop]
               /\ Fresh(d) \subseteq Below[stop] /\ Fresh(u) \subseteq Below[stop]
               /\ Area(d) \cap Fresh(u) = {}
               /\ \A due : {stop} \cup Chain(n, stop) \subseteq due => Placed(d, due) /\ Placed(u, due)
  <1> DEFINE d == Down(n)
             u == Up(n, stop)
  <1>1. /\ d.do = "down" /\ d.node = n /\ u.do = "up" /\ u.node = n /\ u.stop = stop
        /\ d \in Task /\ u \in Task
    BY TaskTypes, PathFacts DEF Down, Up
  <1> HIDE DEF d, u
  <1>2. Home(n) \subseteq Below[stop]
    <2>1. CASE n \in History
      <3>1. Parent[n] = stop \/ Parent[n] \in Path(n, stop)
        BY PathFacts
      <3>2. Parent[n] = stop \/ Parent[n] \in Below[stop]
        BY <3>1, PathFacts
      <3> QED  BY <2>1, <3>2, PathFacts, SubtreeFacts DEF Home, Subtree
    <2>2. CASE n \notin History
      BY <2>2, PathFacts, SubtreeFacts DEF Home
    <2> QED  BY <2>1, <2>2
  <1>3. ASSUME NEW due, {stop} \cup Chain(n, stop) \subseteq due PROVE Placed(d, due) /\ Placed(u, due)
    BY <1>1, <1>3, PathFacts DEF Placed, Chain
  <1>4. /\ Owes(d) = {n} \ History /\ Owes(u) = Path(n, stop)
        /\ Tends(d) = Cared(n) /\ Tends(u) = Forks(n, stop)
        /\ Opens(d) = {} /\ Opens(u) = {}
        /\ Area(d) = Home(n) /\ Fresh(d) = Home(n)
        /\ Area(u) = Below[stop] /\ Fresh(u) = Below[stop] \ Home(n)
    BY <1>1, TaskMeans
  <1> QED  BY <1>1, <1>2, <1>3, <1>4 DEF Chain, d, u

\* A task that enters nothing itself and leaves all it is good for to others.
LEMMA PassAlong ==
    ASSUME NEW t, NEW base, NEW entered, NEW due, Ready(t, base, entered, due),
           Entering(t) = {}, Opens(t) = {}, NEW sub, NEW R, Makes(sub, R),
           UNION {Owes(u) : u \in R} = Owes(t), UNION {Tends(u) : u \in R} = Tends(t),
           \A u \in R : /\ Placed(u, due) /\ Area(u) \subseteq Area(t)
                        /\ Fresh(u) \subseteq Fresh(t)
    PROVE  PassesOn(t, sub, base, entered, due)
  <1>1. Owes(t) \subseteq due /\ due \cup Owes(t) = due /\ due \subseteq Node \ History
    BY DEF Ready
  <1>2. \A n \in due : \A opened : n \in Tends(t) => Standing(n, due, Tends(t), opened)
    BY DEF Ready, Standing
  <1>3. Range(sub) = R /\ sub \in Seq(Task) /\ Apart(sub)
    BY DEF Makes
  <1>4. \A u \in R : Fresh(u) \cap (base \cup entered \cup Entering(t)) = {}
    BY DEF Ready
  <1> DEFINE owed   == UNION {Owes(u) : u \in Range(sub)}
             tended == UNION {Tends(u) : u \in Range(sub)}
             opened == UNION {Opens(u) : u \in Range(sub)}
  <1>5. owed = Owes(t) /\ tended = Tends(t)
    BY <1>3
  <1> HIDE DEF owed, tended, opened
  <1>6. /\ due \cup owed = due /\ owed \ due = {} /\ owed \subseteq Node \ History
        /\ Owes(t) \subseteq Entering(t) \cup owed /\ Entering(t) \subseteq Owes(t)
    BY <1>1, <1>5
  <1>7. \A n \in (owed \ due) \cup (due \cap Tends(t)) : Standing(n, due, tended, opened)
    BY <1>2, <1>5, <1>6
  <1>8. \A n \in Node : Kind[n] = "compound" =>
            \A c \in Children(n) \cap (owed \ due), d \in Children(n) \cap due : c = d
    BY <1>6
  <1> DEFINE next == due \cup owed
  <1>n. next = due
    BY <1>6
  <1> HIDE DEF next
  <1>9. /\ \A u \in Range(sub) : /\ Placed(u, next) /\ Area(u) \subseteq Area(t)
                                 /\ Fresh(u) \cap (base \cup entered \cup Entering(t)) = {}
        /\ \A n \in (owed \ due) \cup (due \cap Tends(t)) : Standing(n, next, tended, opened)
        /\ Opens(t) \subseteq next \cup opened
        /\ \A n \in Node : Kind[n] = "compound" =>
              \A c \in Children(n) \cap (owed \ due), d \in Children(n) \cap next : c = d
    BY <1>n, <1>3, <1>4, <1>6, <1>7, <1>8
  <1> QED  BY <1>3, <1>6, <1>9, Zenon DEF PassesOn, next, owed, tended, opened

LEMMA TargetsPassOn ==
    ASSUME NEW t, NEW base, NEW entered, NEW due, Ready(t, base, entered, due),
           t.do = "targets", NEW seen, NEW hist
    PROVE  PassesOn(t, Subtasks(t, seen, hist), base, entered, due)
  <1> DEFINE e == CHOOSE e \in t.edges : \A u \in t.edges : e <= u
             g == Edges[e].target
             d == Down(g)
             u == Up(g, Domain[e])
             rest == Targets(t.edges \ {e})
  <1>1. Subtasks(t, seen, hist) = IF t.edges = {} THEN <<>> ELSE <<d, u>> \o <<rest>>
    BY DEF Subtasks, DownThenUp
  <1>2. t \in Task /\ t.edges \in SUBSET Targeted /\ t.edges \in SUBSET Nat /\ Entering(t) = {}
    BY TaskFields, NodeIsTargeted DEF Ready, Entering
  <1>3. CASE t.edges = {}
    BY <1>1, <1>2, <1>3, PassNothing, TaskMeans
  <1>4. CASE t.edges # {}
    <2>1. e \in t.edges
      BY <1>2, <1>4, LeastNumber, Zenon
    <2> HIDE DEF e
    <2>2. /\ g \in Node /\ Domain[e] \in ProperAncestors[g] /\ Domain[e] \in due
          /\ rest \in Task /\ rest.do = "targets" /\ rest.edges = t.edges \ {e}
      BY <1>2, <2>1, NodeIsTargeted, TaskTypes DEF Ready, Placed, Targets
    <2> DEFINE D == Domain[e]
    <2> HIDE DEF g, rest
    <2>3. /\ d \in Task /\ u \in Task
          /\ Owes(d) \cup Owes(u) = Chain(g, D)
          /\ Tends(d) \cup Tends(u) = Cared(g) \cup Forks(g, D)
          /\ Opens(d) = {} /\ Opens(u) = {}
          /\ Area(d) \subseteq Below[D] /\ Area(u) = Below[D]
          /\ Fresh(d) \subseteq Below[D] /\ Fresh(u) \subseteq Below[D]
          /\ Area(d) \cap Fresh(u) = {}
          /\ {D} \cup Chain(g, D) \subseteq due => Placed(d, due) /\ Placed(u, due)
      BY <2>2, DownThenUpFacts
    <2> HIDE DEF d, u, D
    <2>4. /\ Owes(t) = Chain(g, D) \cup Owes(rest)
          /\ Tends(t) = Cared(g) \cup Forks(g, D) \cup Tends(rest)
          /\ Opens(t) = {} /\ Opens(rest) = {}
          /\ Area(t) = Below[D] \cup Area(rest) /\ Fresh(t) = Area(t) /\ Fresh(rest) = Area(rest)
          /\ Below[D] \cap Area(rest) = {}
      <3>1. t.edges = {e} \cup rest.edges /\ \A x \in rest.edges : Below[D] \cap Below[Domain[x]] = {}
        BY <2>1, <2>2 DEF Ready, Placed, D
      <3>2. /\ Owes(t) = UNION {Chain(Edges[x].target, Domain[x]) : x \in t.edges}
            /\ Owes(rest) = UNION {Chain(Edges[x].target, Domain[x]) : x \in rest.edges}
        BY <2>2, TaskMeans
      <3>3. /\ Tends(t) = UNION {Cared(Edges[x].target) \cup Forks(Edges[x].target, Domain[x]) :
                                     x \in t.edges}
            /\ Tends(rest) = UNION {Cared(Edges[x].target) \cup Forks(Edges[x].target, Domain[x]) :
                                     x \in rest.edges}
        BY <2>2, TaskMeans
      <3>4. /\ Area(t) = UNION {Below[Domain[x]] : x \in t.edges}
            /\ Area(rest) = UNION {Below[Domain[x]] : x \in rest.edges}
        BY <2>2, TaskMeans
      <3>5. /\ Opens(t) = {} /\ Opens(rest) = {} /\ Fresh(t) = Area(t) /\ Fresh(rest) = Area(rest)
        BY <2>2, TaskMeans
      <3>6. Owes(t) = Chain(g, D) \cup Owes(rest)
        BY <3>1, <3>2 DEF g, D
      <3>7. Tends(t) = Cared(g) \cup Forks(g, D) \cup Tends(rest)
        BY <3>1, <3>3 DEF g, D
      <3>8. Area(t) = Below[D] \cup Area(rest) /\ Below[D] \cap Area(rest) = {}
        BY <3>1, <3>4 DEF D
      <3> QED  BY <3>5, <3>6, <3>7, <3>8
    <2>5. Placed(rest, due) /\ Placed(d, due) /\ Placed(u, due)
      <3>1. {D} \cup Chain(g, D) \subseteq due
        BY <2>2, <2>4 DEF Ready, D
      <3> QED  BY <2>2, <2>3, <3>1 DEF Ready, Placed
    <2> DEFINE both == <<d, u>>
               sub == both \o <<rest>>
    <2>6. Makes(sub, {d, u, rest})
      <3>1. Makes(both, {d, u})
        BY <2>3, Pair
      <3>2. \A x \in {d, u} : Area(x) \cap Fresh(rest) = {}
        BY <2>3, <2>4
      <3> HIDE DEF both
      <3>3. {d, u} \cup {rest} = {d, u, rest}
        OBVIOUS
      <3> QED  BY <3>1, <3>2, <3>3, <2>2, ThenMore
    <2> HIDE DEF both, sub
    <2>7. /\ UNION {Owes(x) : x \in {d, u, rest}} = Owes(t)
          /\ UNION {Tends(x) : x \in {d, u, rest}} = Tends(t)
      BY <2>3, <2>4
    <2>8. \A x \in {d, u, rest} :
              Placed(x, due) /\ Area(x) \subseteq Area(t) /\ Fresh(x) \subseteq Fresh(t)
      BY <2>3, <2>4, <2>5
    <2>9. PassesOn(t, sub, base, entered, due)
      BY <1>2, <2>4, <2>6, <2>7, <2>8, PassAlong
    <2> QED  BY <2>9, <1>1, <1>4 DEF sub, both
  <1> QED  BY <1>3, <1>4

LEMMA BackPassesOn ==
    ASSUME NEW t, NEW base, NEW entered, NEW due, Ready(t, base, entered, due),
           t.do = "back", NEW seen, NEW hist
    PROVE  PassesOn(t, Subtasks(t, seen, hist), base, entered, due)
  <1> DEFINE n == First(t.nodes)
             d == Down(n)
             u == Up(n, t.stop)
             rest == Back(t.nodes \ {n}, t.stop)
  <1>1. Subtasks(t, seen, hist) = IF t.nodes = {} THEN <<>> ELSE <<d, u>> \o <<rest>>
    BY DEF Subtasks, DownThenUp
  <1>2. t \in Task /\ t.nodes \in SUBSET Node /\ t.stop \in Node \cup {NoNode} /\ Entering(t) = {}
    BY TaskFields DEF Ready, Entering
  <1>3. CASE t.nodes = {}
    BY <1>1, <1>2, <1>3, PassNothing, TaskMeans
  <1>4. CASE t.nodes # {}
    <2>1. n \in t.nodes
      BY <1>2, <1>4, FirstOf
    <2> HIDE DEF n
    <2>2. /\ n \in Node /\ t.stop \in ProperAncestors[n] /\ t.stop \in due /\ t.nodes = {n}
          /\ rest \in Task /\ rest.do = "back" /\ rest.nodes = {}
      BY <1>2, <2>1, TaskTypes DEF Ready, Placed, Back
    <2> DEFINE D == t.stop
    <2> HIDE DEF rest
    <2>3. /\ d \in Task /\ u \in Task
          /\ Owes(d) \cup Owes(u) = Chain(n, D)
          /\ Tends(d) \cup Tends(u) = Cared(n) \cup Forks(n, D)
          /\ Opens(d) = {} /\ Opens(u) = {}
          /\ Area(d) \subseteq Below[D] /\ Area(u) = Below[D]
          /\ Fresh(d) \subseteq Below[D] /\ Fresh(u) \subseteq Below[D]
          /\ Area(d) \cap Fresh(u) = {}
          /\ {D} \cup Chain(n, D) \subseteq due => Placed(d, due) /\ Placed(u, due)
      BY <2>2, DownThenUpFacts
    <2> HIDE DEF d, u
    <2>4. /\ Owes(t) = Chain(n, D) /\ Owes(rest) = {}
          /\ Tends(t) = Cared(n) \cup Forks(n, D) /\ Tends(rest) = {}
          /\ Opens(t) = {} /\ Opens(rest) = {}
          /\ Area(t) = Below[D] /\ Area(rest) = {} /\ Fresh(t) = Area(t) /\ Fresh(rest) = {}
      <3>1. /\ Owes(t) = UNION {Chain(m, D) : m \in {n}}
            /\ Tends(t) = UNION {Cared(m) \cup Forks(m, D) : m \in {n}}
            /\ Area(t) = UNION {Below[D] : m \in {n}}
            /\ Opens(t) = {} /\ Fresh(t) = Area(t)
        BY <2>2, TaskMeans
      <3>2. /\ Owes(rest) = UNION {Chain(m, D) : m \in {}}
            /\ Tends(rest) = UNION {Cared(m) \cup Forks(m, D) : m \in {}}
            /\ Area(rest) = UNION {Below[D] : m \in {}}
            /\ Opens(rest) = {} /\ Fresh(rest) = Area(rest)
        <4>1. rest.stop = D
          BY DEF rest, Back
        <4> QED  BY <4>1, <2>2, TaskMeans
      <3> QED  BY <3>1, <3>2
    <2>5. Placed(rest, due) /\ Placed(d, due) /\ Placed(u, due)
      <3>1. {D} \cup Chain(n, D) \subseteq due
        BY <2>2, <2>4 DEF Ready
      <3> QED  BY <2>2, <2>3, <3>1 DEF Placed
    <2> DEFINE both == <<d, u>>
               sub == both \o <<rest>>
    <2>6. Makes(sub, {d, u, rest})
      <3>1. Makes(both, {d, u})
        BY <2>3, Pair
      <3>2. \A x \in {d, u} : Area(x) \cap Fresh(rest) = {}
        BY <2>3, <2>4
      <3> HIDE DEF both
      <3>3. {d, u} \cup {rest} = {d, u, rest}
        OBVIOUS
      <3> QED  BY <3>1, <3>2, <3>3, <2>2, ThenMore
    <2> HIDE DEF both, sub
    <2>7. /\ UNION {Owes(x) : x \in {d, u, rest}} = Owes(t)
          /\ UNION {Tends(x) : x \in {d, u, rest}} = Tends(t)
      BY <2>3, <2>4
    <2>8. \A x \in {d, u, rest} :
              Placed(x, due) /\ Area(x) \subseteq Area(t) /\ Fresh(x) \subseteq Fresh(t)
      BY <2>3, <2>4, <2>5
    <2>9. PassesOn(t, sub, base, entered, due)
      BY <1>2, <2>4, <2>6, <2>7, <2>8, PassAlong
    <2> QED  BY <2>9, <1>1, <1>4 DEF sub, both
  <1> QED  BY <1>3, <1>4

\* What PassesOn asks, for the set R of the tasks led to.
Leaves(t, R, base, entered, due, owed, tended, opened) ==
    /\ owed = UNION {Owes(u) : u \in R}
    /\ tended = UNION {Tends(u) : u \in R}
    /\ opened = UNION {Opens(u) : u \in R}
    /\ Entering(t) \subseteq Owes(t) /\ Owes(t) \subseteq Entering(t) \cup owed
    /\ owed \subseteq Node \ History
    /\ \A u \in R : /\ Placed(u, due \cup owed) /\ Area(u) \subseteq Area(t)
                    /\ Fresh(u) \cap (base \cup entered \cup Entering(t)) = {}
    /\ \A n \in (owed \ due) \cup (due \cap Tends(t)) :
          Standing(n, due \cup owed, tended, opened)
    /\ Opens(t) \subseteq (due \cup owed) \cup opened
    /\ \A n \in Node : Kind[n] = "compound" =>
          \A c \in Children(n) \cap (owed \ due), x \in Children(n) \cap (due \cup owed) : c = x

LEMMA PassIf ==
    ASSUME NEW t, NEW base, NEW entered, NEW due, NEW sub, NEW R, Makes(sub, R),
           NEW owed, NEW tended, NEW opened,
           Leaves(t, R, base, entered, due, owed, tended, opened)
    PROVE  PassesOn(t, sub, base, entered, due)
  <1> USE DEF Leaves
  <1>1. Range(sub) = R /\ sub \in Seq(Task) /\ Apart(sub)
    BY DEF Makes
  <1> DEFINE o == UNION {Owes(u) : u \in Range(sub)}
             d == UNION {Tends(u) : u \in Range(sub)}
             p == UNION {Opens(u) : u \in Range(sub)}
  <1>2. o = owed /\ d = tended /\ p = opened
    BY <1>1
  <1> HIDE DEF o, d, p
  <1>3. /\ \A u \in Range(sub) : /\ Placed(u, due \cup o) /\ Area(u) \subseteq Area(t)
                                 /\ Fresh(u) \cap (base \cup entered \cup Entering(t)) = {}
        /\ \A n \in (o \ due) \cup (due \cap Tends(t)) : Standing(n, due \cup o, d, p)
        /\ Opens(t) \subseteq (due \cup o) \cup p
        /\ \A n \in Node : Kind[n] = "compound" =>
              \A c \in Children(n) \cap (o \ due), x \in Children(n) \cap (due \cup o) : c = x
        /\ Owes(t) \subseteq Entering(t) \cup o /\ o \subseteq Node \ History
    BY <1>1, <1>2
  <1> QED  BY <1>1, <1>3, Zenon DEF PassesOn, o, d, p

LEMMA RegionsPassOn ==
    ASSUME NEW t, NEW base, NEW entered, NEW due, Ready(t, base, entered, due),
           t.do = "regions", NEW hist
    PROVE  PassesOn(t, Subtasks(t, entered \cup Entering(t), hist), base, entered, due)
  <1> DEFINE r == First(t.nodes)
             d == Down(r)
             rest == Regions(t.nodes \ {r})
  <1>2. t \in Task /\ t.nodes \in SUBSET Node /\ Entering(t) = {}
    BY TaskFields DEF Ready, Entering
  <1>1. Subtasks(t, entered \cup Entering(t), hist) =
            IF t.nodes = {} THEN <<>>
            ELSE (IF HasDescendantIn(r, entered) THEN <<>> ELSE <<d>>) \o <<rest>>
    <2>1. entered \cup Entering(t) = entered
      BY <1>2
    <2> QED  BY <2>1 DEF Subtasks
  <1>3. CASE t.nodes = {}
    BY <1>1, <1>2, <1>3, PassNothing, TaskMeans
  <1>4. CASE t.nodes # {}
    <2>1. r \in t.nodes
      BY <1>2, <1>4, FirstOf
    <2> HIDE DEF r
    <2>2. /\ r \in Node \ History /\ r # Root
          /\ Parent[r] \in due /\ Parent[r] \in Node /\ Kind[Parent[r]] = "parallel"
          /\ rest \in Task /\ rest.do = "regions" /\ rest.nodes = t.nodes \ {r}
      <3>1. rest \in Task /\ rest.do = "regions" /\ rest.nodes = t.nodes \ {r}
        BY <1>2, TaskTypes DEF Regions
      <3>2. r \notin History /\ Parent[r] \in due /\ Kind[Parent[r]] = "parallel" /\ due \subseteq Node
        BY <2>1 DEF Ready, Placed
      <3> QED  BY <1>2, <2>1, <3>1, <3>2, ParentFacts, NodeFacts
    <2>3. /\ Owes(t) = {} /\ Tends(t) = {} /\ Opens(t) = t.nodes
          /\ Area(t) = UNION {Subtree(x) : x \in t.nodes}
          /\ Owes(rest) = {} /\ Tends(rest) = {} /\ Opens(rest) = t.nodes \ {r}
          /\ Area(rest) = UNION {Subtree(x) : x \in t.nodes \ {r}} /\ Fresh(rest) = {}
      BY <2>2, TaskMeans
    <2>4. Area(rest) \subseteq Area(t) /\ Subtree(r) \subseteq Area(t)
      BY <2>1, <2>3
    <2>5. \A D : due \subseteq D => Placed(rest, D)
      BY <2>2 DEF Ready, Placed
    <2>6. CASE HasDescendantIn(r, entered)
      <3>1. r \in due
        <4>1. \A x \in due : ProperAncestors[x] \subseteq due
          BY UpwardClosed DEF Ready
        <4>2. r \in entered \/ \E x \in entered : r \in ProperAncestors[x]
          BY <2>2, <2>6, BelowFacts DEF HasDescendantIn
        <4> QED  BY <4>1, <4>2 DEF Ready
      <3>2. Makes(<<>> \o <<rest>>, {} \cup {rest})
        BY <2>2, NoTask, ThenMore
      <3> DEFINE sub == <<>> \o <<rest>>
      <3>3. Makes(sub, {rest})
        BY <3>2
      <3> HIDE DEF sub, rest
      <3>4. /\ {} = UNION {Owes(u) : u \in {rest}} /\ {} = UNION {Tends(u) : u \in {rest}}
            /\ t.nodes \ {r} = UNION {Opens(u) : u \in {rest}}
        BY <2>3
      <3>5. PassesOn(t, sub, base, entered, due)
        <4> DEFINE owed == {}
                   opened == t.nodes \ {r}
        <4>1. \A u \in {rest} : /\ Placed(u, due \cup owed) /\ Area(u) \subseteq Area(t)
                                /\ Fresh(u) \cap (base \cup entered \cup Entering(t)) = {}
          BY <2>3, <2>4, <2>5
        <4>2. /\ \A n \in (owed \ due) \cup (due \cap Tends(t)) :
                     Standing(n, due \cup owed, {}, opened)
              /\ Opens(t) \subseteq (due \cup owed) \cup opened
              /\ \A n \in Node : Kind[n] = "compound" =>
                    \A c \in Children(n) \cap (owed \ due), x \in Children(n) \cap (due \cup owed) : c = x
          BY <2>3, <3>1
        <4>3. Entering(t) \subseteq Owes(t) /\ Owes(t) \subseteq Entering(t) \cup owed
              /\ owed \subseteq Node \ History
          BY <1>2, <2>3
        <4>4. owed = UNION {Owes(u) : u \in {rest}} /\ opened = UNION {Opens(u) : u \in {rest}}
          BY <3>4
        <4> HIDE DEF owed, opened
        <4>5. Leaves(t, {rest}, base, entered, due, owed, {}, opened)
          BY <3>4, <4>1, <4>2, <4>3, <4>4, Zenon DEF Leaves
        <4> QED  BY <3>3, <4>5, PassIf
      <3> QED  BY <1>1, <1>4, <2>6, <3>5 DEF sub
    <2>7. CASE ~HasDescendantIn(r, entered)
      <3>1. /\ d \in Task /\ Owes(d) = {r} /\ Tends(d) = {r} /\ Opens(d) = {}
            /\ Area(d) = Subtree(r) /\ Fresh(d) = Subtree(r)
            /\ \A D : due \subseteq D => Placed(d, D)
        <4>1. d \in Task /\ d.do = "down" /\ d.node = r
          BY <2>2, TaskTypes DEF Down
        <4>2. Cared(r) = {r} /\ Home(r) = Subtree(r) /\ {r} \ History = {r}
          BY <2>2 DEF Cared, Home
        <4>3. \A D : due \subseteq D => Placed(d, D)
          BY <4>1, <2>2 DEF Placed
        <4> QED  BY <4>1, <4>2, <4>3, TaskMeans
      <3> DEFINE one == <<d>>
                 sub == one \o <<rest>>
      <3>2. Makes(sub, {d, rest})
        <4>1. Makes(one, {d}) /\ \A u \in {d} : Area(u) \cap Fresh(rest) = {}
          BY <3>1, <2>3, OneTask
        <4> HIDE DEF one
        <4>2. {d} \cup {rest} = {d, rest}
          OBVIOUS
        <4> QED  BY <4>1, <4>2, <2>2, ThenMore
      <3> HIDE DEF one, sub, d, rest
      <3> DEFINE R == {d, rest}
                 owed == {r}
                 opened == t.nodes \ {r}
      <3>3. /\ owed = UNION {Owes(u) : u \in R} /\ owed = UNION {Tends(u) : u \in R}
            /\ opened = UNION {Opens(u) : u \in R}
        BY <2>3, <3>1
      <3>4. Subtree(r) \cap (base \cup entered \cup Entering(t)) = {}
        BY <1>2, <2>4, <2>7 DEF Ready, HasDescendantIn, Subtree
      <3>5. \A u \in R : /\ Placed(u, due \cup owed) /\ Area(u) \subseteq Area(t)
                         /\ Fresh(u) \cap (base \cup entered \cup Entering(t)) = {}
        BY <2>3, <2>4, <2>5, <3>1, <3>4
      <3>6. \A n \in (owed \ due) \cup (due \cap Tends(t)) :
                Standing(n, due \cup owed, owed, opened)
        BY <2>2, <2>3 DEF Standing
      <3>7. /\ Opens(t) \subseteq (due \cup owed) \cup opened
            /\ \A n \in Node : Kind[n] = "compound" =>
                  \A c \in Children(n) \cap (owed \ due), x \in Children(n) \cap (due \cup owed) : c = x
        BY <2>2, <2>3 DEF Children
      <3>8. Entering(t) \subseteq Owes(t) /\ Owes(t) \subseteq Entering(t) \cup owed
            /\ owed \subseteq Node \ History
        BY <1>2, <2>2, <2>3
      <3> HIDE DEF R, owed, opened
      <3>9. Makes(sub, R)
        BY <3>2 DEF R
      <3>10. Leaves(t, R, base, entered, due, owed, owed, opened)
        BY <3>3, <3>5, <3>6, <3>7, <3>8, Zenon DEF Leaves
      <3>11. PassesOn(t, sub, base, entered, due)
        BY <3>9, <3>10, PassIf
      <3> QED  BY <1>1, <1>4, <2>7, <3>11 DEF sub, one
    <2> QED  BY <2>6, <2>7
  <1> QED  BY <1>3, <1>4

LEMMA UpPassesOn ==
    ASSUME NEW t, NEW base, NEW entered, NEW due, Ready(t, base, entered, due),
           t.do = "up", NEW seen, NEW hist, RestoresOnePath(hist)
    PROVE  PassesOn(t, Subtasks(t, seen, hist), base, entered, due)
  <1> DEFINE n == t.node
             stop == t.stop
             p == Parent[n]
             reg == Regions(Children(p))
             up == Up(p, stop)
  <1>1. Subtasks(t, seen, hist) =
            IF p \in {NoNode, stop} THEN <<>>
            ELSE (IF Kind[p] = "parallel" THEN <<reg>> ELSE <<>>) \o <<up>>
    BY DEF Subtasks
  <1>2. /\ t \in Task /\ n \in Node /\ stop \in ProperAncestors[n] /\ stop \in due
        /\ stop \in Node /\ p \in Node /\ p \notin History /\ Entering(t) = {p} \ {NoNode, stop}
    <2>1. t \in Task /\ n \in Node /\ stop \in ProperAncestors[n] /\ stop \in due
      BY TaskFields DEF Ready, Placed
    <2>2. stop \in Node /\ p \in Node /\ p \in ProperAncestors[n]
      BY <2>1, PathFacts, ChildrenBelow
    <2>3. p \notin History
      BY <2>1, <2>2, AncestorsEarlier
    <2> QED  BY <2>1, <2>2, <2>3 DEF Entering
  <1>3. /\ Owes(t) = Path(n, stop) /\ Tends(t) = Forks(n, stop) /\ Opens(t) = {}
        /\ Area(t) = Below[stop] /\ Fresh(t) = Below[stop] \ Home(n)
    BY TaskMeans
  <1> HIDE DEF p
  <1>4. CASE p = stop
    <2>1. Path(n, stop) = {}
      BY <1>2, <1>4, PathStep DEF p
    <2>2. Forks(n, stop) = {} /\ Entering(t) = {}
      BY <1>2, <1>4, <2>1 DEF Forks
    <2> QED  BY <1>1, <1>3, <1>4, <2>1, <2>2, PassNothing
  <1>5. CASE p # stop
    <2>1. stop \in ProperAncestors[p] /\ Path(n, stop) = {p} \cup Path(p, stop)
      BY <1>2, <1>5, PathStep DEF p
    <2>2. p # NoNode /\ Entering(t) = {p}
      BY <1>2, <1>5, NodeFacts
    <2>3. /\ up \in Task /\ Owes(up) = Path(p, stop) /\ Tends(up) = Forks(p, stop) /\ Opens(up) = {}
          /\ Area(up) = Below[stop] /\ Fresh(up) = Below[stop] \ Subtree(p)
          /\ Placed(up, due)
      <3>1. up \in Task /\ up.do = "up" /\ up.node = p /\ up.stop = stop
        BY <1>2, TaskTypes DEF Up
      <3>2. Home(p) = Subtree(p)
        BY <1>2 DEF Home
      <3>3. Placed(up, due)
        BY <3>1, <1>2, <2>1 DEF Placed
      <3> QED  BY <3>1, <3>2, <3>3, TaskMeans
    <2>4. Below[p] \subseteq Subtree(p) /\ p \in Subtree(p) /\ p \in Below[stop]
          /\ Subtree(p) \subseteq Below[stop] /\ Home(n) \subseteq Subtree(p)
      <3>1. p \in Below[stop] /\ Subtree(p) \subseteq Below[stop]
        BY <1>2, <2>1, BelowFacts, SubtreeFacts
      <3>2. n # Root
        BY <1>2, PathFacts
      <3>3. Subtree(n) \subseteq Below[p]
        BY <3>2, <1>2, SubtreeFacts DEF p
      <3> QED  BY <3>1, <3>3 DEF Home, Subtree, p
    <2>5. Fresh(up) \cap (base \cup entered \cup Entering(t)) = {}
      BY <1>3, <2>2, <2>3, <2>4 DEF Ready
    <2>6. /\ Path(p, stop) \subseteq due /\ p \in due /\ due \cup Path(p, stop) = due
          /\ Path(p, stop) \ due = {} /\ Path(p, stop) \subseteq Node \ History
          /\ p # Root /\ Parent[p] \in due
      <3>1. Path(p, stop) \subseteq due /\ p \in due /\ due \subseteq Node \ History
        BY <1>3, <2>1 DEF Ready
      <3>2. p # Root
        BY <2>1, AncestorFacts
      <3>3. Parent[p] \in due
        BY <3>1, <3>2 DEF Ready
      <3> QED  BY <3>1, <3>2, <3>3
    <2>7. /\ Entering(t) \subseteq Owes(t) /\ Owes(t) \subseteq Entering(t) \cup Path(p, stop)
          /\ Opens(t) \subseteq due
      BY <1>3, <2>1, <2>2
    <2>8. Forks(n, stop) = {a \in {p} : Kind[a] = "parallel"} \cup Forks(p, stop)
      BY <2>1 DEF Forks
    <2> HIDE DEF up, reg
    <2>9. CASE Kind[p] = "parallel"
      <3>1. \A c \in Children(p) : c \in Node \ History /\ Subtree(c) \subseteq Below[p]
        <4>1. \A c \in Children(p) : c \in Node /\ c \notin History /\ Parent[c] = p
          BY <2>9 DEF Children, RestoresOnePath
        <4> QED  BY <4>1, <1>2, ParentFacts, NodeFacts, SubtreeFacts
      <3>2. /\ reg \in Task /\ Owes(reg) = {} /\ Tends(reg) = {} /\ Opens(reg) = Children(p)
            /\ Area(reg) \subseteq Below[p] /\ Fresh(reg) = {} /\ Placed(reg, due)
        <4>1. reg \in Task /\ reg.do = "regions" /\ reg.nodes = Children(p)
          BY <1>2, ChildrenBelow, TaskTypes DEF reg, Regions
        <4>2. Placed(reg, due)
          BY <4>1, <3>1, <2>6, <2>9 DEF Placed, Children
        <4>3. Area(reg) = UNION {Subtree(r) : r \in Children(p)}
          BY <4>1, TaskMeans
        <4>4. Area(reg) \subseteq Below[p]
          BY <4>3, <3>1
        <4> QED  BY <4>1, <4>2, <4>4, TaskMeans
      <3> DEFINE one == <<reg>>
                 sub == one \o <<up>>
                 R == {reg, up}
                 owed == Path(p, stop)
                 tended == Forks(p, stop)
                 opened == Children(p)
      <3>3. Makes(sub, R)
        <4>1. Makes(one, {reg}) /\ \A u \in {reg} : Area(u) \cap Fresh(up) = {}
          BY <3>2, <2>3, <2>4, OneTask
        <4> HIDE DEF one
        <4>2. {reg} \cup {up} = R
          OBVIOUS
        <4> HIDE DEF R
        <4> QED  BY <4>1, <4>2, <2>3, ThenMore
      <3> HIDE DEF one, sub
      <3>4. /\ owed = UNION {Owes(u) : u \in R} /\ tended = UNION {Tends(u) : u \in R}
            /\ opened = UNION {Opens(u) : u \in R}
        BY <2>3, <3>2
      <3>5. \A u \in R : /\ Placed(u, due) /\ Area(u) \subseteq Area(t)
                         /\ Fresh(u) \cap (base \cup entered \cup Entering(t)) = {}
        BY <1>3, <2>3, <2>4, <2>5, <3>2
      <3>6. \A m \in due \cap Tends(t) : Standing(m, due, tended, opened)
        <4>1. Standing(p, due, tended, opened)
          BY <2>6, <2>9 DEF Standing
        <4>2. \A m \in due : m \in tended => Standing(m, due, tended, opened)
          BY DEF Standing, Ready
        <4> QED  BY <4>1, <4>2, <1>3, <2>8
      <3> HIDE DEF R, owed, tended, opened
      <3>7. Leaves(t, R, base, entered, due, owed, tended, opened)
        <4>1. due \cup owed = due /\ owed \ due = {} /\ owed \subseteq Node \ History
          BY <2>6 DEF owed
        <4>2. Owes(t) \subseteq Entering(t) \cup owed
          BY <2>7 DEF owed
        <4> QED  BY <4>1, <4>2, <2>7, <3>4, <3>5, <3>6 DEF Leaves
      <3>8. PassesOn(t, sub, base, entered, due)
        BY <3>3, <3>7, PassIf
      <3> QED  BY <1>1, <1>5, <2>2, <2>9, <3>8 DEF sub, one
    <2>10. CASE Kind[p] # "parallel"
      <3> DEFINE sub == <<>> \o <<up>>
      <3>1. Makes(sub, {} \cup {up})
        BY <2>3, NoTask, ThenMore
      <3> DEFINE R == {up}
                 owed == Path(p, stop)
                 tended == Forks(p, stop)
                 opened == {}
      <3>3. Makes(sub, R)
        BY <3>1
      <3> HIDE DEF sub
      <3>4. /\ owed = UNION {Owes(u) : u \in R} /\ tended = UNION {Tends(u) : u \in R}
            /\ opened = UNION {Opens(u) : u \in R}
        BY <2>3
      <3>5. \A u \in R : /\ Placed(u, due) /\ Area(u) \subseteq Area(t)
                         /\ Fresh(u) \cap (base \cup entered \cup Entering(t)) = {}
        BY <1>3, <2>3, <2>5
      <3>6. \A m \in due \cap Tends(t) : Standing(m, due, tended, opened)
        BY <1>3, <2>8, <2>10 DEF Standing, Ready
      <3> HIDE DEF R, owed, tended, opened
      <3>7. Leaves(t, R, base, entered, due, owed, tended, opened)
        <4>1. due \cup owed = due /\ owed \ due = {} /\ owed \subseteq Node \ History
          BY <2>6 DEF owed
        <4>2. Owes(t) \subseteq Entering(t) \cup owed
          BY <2>7 DEF owed
        <4> QED  BY <4>1, <4>2, <2>7, <3>4, <3>5, <3>6 DEF Leaves
      <3>8. PassesOn(t, sub, base, entered, due)
        BY <3>3, <3>7, PassIf
      <3> QED  BY <1>1, <1>5, <2>2, <2>10, <3>8 DEF sub
    <2> QED  BY <2>9, <2>10
  <1> QED  BY <1>4, <1>5

\* The states on the way down to a restored one stand, once they are entered.
LEMMA ChainStands ==
    ASSUME NEW m \in Node \ History, NEW stop \in ProperAncestors[m], NEW next,
           {stop} \cup Chain(m, stop) \subseteq next, NEW opened
    PROVE  /\ \A x \in Chain(m, stop) : Standing(x, next, {m} \cup Forks(m, stop), opened)
           /\ Children(stop) \cap next # {}
           /\ Chain(m, stop) \subseteq Below[stop] \ History
           /\ \A c, d \in Chain(m, stop) : Parent[c] = Parent[d] => c = d
           /\ \A c \in Chain(m, stop) : Parent[c] = stop \/ Parent[c] \in Below[stop]
  <1> DEFINE P == Path(m, stop)
  <1>1. Chain(m, stop) = {m} \cup P
    BY DEF Chain
  <1>2. /\ stop \in Node /\ P \subseteq Node \ History /\ P \subseteq Below[stop] /\ m \in Below[stop]
        /\ \A a \in {m} \cup P : a # Root /\ Parent[a] \in {stop} \cup P
        /\ \A a \in {stop} \cup P : \E c \in {m} \cup P : Parent[c] = a
        /\ \A c, d \in {m} \cup P : Parent[c] = Parent[d] => c = d
    BY PathFacts
  <1>3. \A a \in P : Kind[a] = "parallel" => a \in Forks(m, stop)
    BY DEF Forks
  <1> HIDE DEF P
  <1>4. \A a \in {stop} \cup P : Children(a) \cap next # {}
    BY <1>1, <1>2 DEF Children
  <1>5. \A x \in {m} \cup P : Standing(x, next, {m} \cup Forks(m, stop), opened)
    BY <1>1, <1>2, <1>3, <1>4 DEF Standing
  <1> QED  BY <1>1, <1>2, <1>4, <1>5

LEMMA DownHistoryPassesOn ==
    ASSUME NEW t, NEW base, NEW entered, NEW due, Ready(t, base, entered, due),
           t.do = "down", t.node \in History, NEW seen, NEW hist, RestoresOnePath(hist)
    PROVE  PassesOn(t, Subtasks(t, seen, hist), base, entered, due)
  <1> DEFINE n == t.node
             P == Parent[n]
  <1>1. /\ t \in Task /\ n \in Node /\ P \in Node /\ P \in due /\ Kind[P] = "compound"
        /\ n # Root /\ Entering(t) = {}
    BY TaskFields, HistoryFacts, ParentFacts, NodeFacts
       DEF Ready, Placed, RestoresOnePath, Entering
  <1>2. PICK m \in Below[P] \ History : Restored(n, hist) = {m}
    BY DEF RestoresOnePath
  <1>3. m \in Node \ History /\ P \in ProperAncestors[m]
    BY <1>1, <1>2, BelowFacts
  <1> DEFINE back == Back({m}, P)
             owed == Chain(m, P)
             tended == {m} \cup Forks(m, P)
             opened == {}
             R == {back}
             sub == <<back>>
  <1>4. Subtasks(t, seen, hist) = sub
    <2>1. Subtasks(t, seen, hist) =
              CASE n \in History        -> <<Back(Restored(n, hist), P)>>
                [] Kind[n] = "compound" -> DownThenUp(Initial[n], n)
                [] Kind[n] = "parallel" -> <<Regions(Children(n))>>
                [] OTHER                -> <<>>
      BY DEF Subtasks
    <2> QED  BY <2>1, <1>2 DEF History
  <1>5. /\ Owes(t) = {} /\ Tends(t) = {P} /\ Opens(t) = {}
        /\ Area(t) = Below[P] /\ Fresh(t) = Below[P] /\ Below[P] \cap due = {}
        /\ Below[P] \cap (base \cup entered \cup Entering(t)) = {}
    <2>1. /\ Owes(t) = {} /\ Tends(t) = {P} /\ Opens(t) = {}
          /\ Area(t) = Below[P] /\ Fresh(t) = Below[P]
      BY TaskMeans DEF Cared, Home
    <2> QED  BY <2>1, <1>1 DEF Ready
  <1>6. /\ back \in Task /\ Owes(back) = owed /\ Tends(back) = tended /\ Opens(back) = {}
        /\ Area(back) = Below[P] /\ Fresh(back) = Below[P]
        /\ \A D : due \subseteq D => Placed(back, D)
    <2>1. back \in Task /\ back.do = "back" /\ back.nodes = {m} /\ back.stop = P
      BY <1>1, <1>3, TaskTypes DEF Back
    <2>2. \A D : due \subseteq D => Placed(back, D)
      BY <2>1, <1>1, <1>3 DEF Placed
    <2>3. /\ Owes(back) = UNION {Chain(x, P) : x \in {m}}
          /\ Tends(back) = UNION {Cared(x) \cup Forks(x, P) : x \in {m}}
          /\ Area(back) = UNION {Below[P] : x \in {m}}
          /\ Opens(back) = {} /\ Fresh(back) = Area(back)
      <3> HIDE DEF back, P
      <3> QED  BY <2>1, TaskMeans
    <2>4. Cared(m) = {m}
      BY <1>3 DEF Cared
    <2> QED  BY <2>1, <2>2, <2>3, <2>4
  <1> HIDE DEF P, n, back
  <1>7. Makes(sub, R)
    BY <1>6, OneTask
  <1>8. /\ owed = UNION {Owes(u) : u \in R} /\ tended = UNION {Tends(u) : u \in R}
        /\ opened = UNION {Opens(u) : u \in R}
    BY <1>6
  <1>9. \A u \in R : /\ Placed(u, due \cup owed) /\ Area(u) \subseteq Area(t)
                     /\ Fresh(u) \cap (base \cup entered \cup Entering(t)) = {}
    BY <1>5, <1>6
  <1> DEFINE next == due \cup owed
  <1>10. /\ \A x \in owed : Standing(x, next, tended, opened)
         /\ Children(P) \cap next # {}
         /\ owed \subseteq Below[P] \ History
         /\ \A c, d \in owed : Parent[c] = Parent[d] => c = d
         /\ \A c \in owed : Parent[c] = P \/ Parent[c] \in Below[P]
    <2>1. {P} \cup owed \subseteq next
      BY <1>1
    <2> HIDE DEF next
    <2> QED  BY <1>3, <2>1, ChainStands
  <1> HIDE DEF sub, R, owed, tended, opened
  <1>11. Standing(P, next, tended, opened)
    BY <1>1, <1>10 DEF Standing, Ready
  <1>12. \A N \in Node : Kind[N] = "compound" =>
            \A c \in Children(N) \cap (owed \ due), x \in Children(N) \cap next : c = x
    <2> SUFFICES ASSUME NEW N \in Node, NEW c \in Children(N) \cap owed, NEW x \in Children(N) \cap due
                 PROVE  FALSE
      BY <1>10 DEF Children
    <2>1. N = P \/ N \in Below[P]
      BY <1>10 DEF Children
    <2>2. x \in Node /\ x \in Below[N]
      BY ChildrenBelow
    <2>3. x \in Below[P]
      BY <2>1, <2>2, <1>1, SubtreeFacts DEF Subtree
    <2> QED  BY <2>3, <1>5
  <1>13. Leaves(t, R, base, entered, due, owed, tended, opened)
    <2>1. /\ Entering(t) \subseteq Owes(t) /\ Owes(t) \subseteq Entering(t) \cup owed
          /\ Opens(t) \subseteq next \cup opened /\ owed \subseteq Node \ History
      BY <1>1, <1>5, <1>10, BelowFacts
    <2>2. \A x \in (owed \ due) \cup (due \cap Tends(t)) : Standing(x, next, tended, opened)
      BY <1>5, <1>10, <1>11
    <2> QED  BY <1>8, <1>9, <1>12, <2>1, <2>2 DEF Leaves
  <1>14. PassesOn(t, sub, base, entered, due)
    BY <1>7, <1>13, PassIf
  <1> QED  BY <1>4, <1>14

LEMMA DownPassesOn ==
    ASSUME NEW t, NEW base, NEW entered, NEW due, Ready(t, base, entered, due),
           t.do = "down", NEW seen, NEW hist, RestoresOnePath(hist)
    PROVE  PassesOn(t, Subtasks(t, seen, hist), base, entered, due)
  <1> DEFINE n == t.node
  <1>1. CASE n \in History
    BY <1>1, DownHistoryPassesOn
  <1>2. CASE n \notin History
    <2>1. /\ t \in Task /\ n \in Node /\ n \in due /\ (n # Root => Parent[n] \in due)
          /\ Entering(t) = {n} /\ Owes(t) = {n} /\ Tends(t) = {n} /\ Opens(t) = {}
          /\ Area(t) = Subtree(n) /\ Fresh(t) = Subtree(n) /\ Subtree(n) \cap due \subseteq {n}
          /\ Subtree(n) \cap (base \cup entered) = {} /\ due \subseteq Node \ History
      <3>1. /\ Owes(t) = {n} /\ Tends(t) = {n} /\ Opens(t) = {}
            /\ Area(t) = Subtree(n) /\ Fresh(t) = Subtree(n)
        BY <1>2, TaskMeans DEF Cared, Home
      <3>2. Entering(t) = {n} /\ t \in Task /\ n \in Node
        BY <1>2, TaskFields DEF Entering, Ready
      <3> QED  BY <3>1, <3>2 DEF Ready
    <2>2. Below[n] \subseteq Subtree(n) /\ n \notin Below[n]
      BY <2>1, BelowFacts, AncestorsEarlier, NodeFacts DEF Subtree
    <2>3. Below[n] \cap (base \cup entered \cup Entering(t)) = {} /\ Below[n] \cap due = {}
      BY <2>1, <2>2
    <2>4. Subtasks(t, seen, hist) =
              CASE n \in History        -> <<Back(Restored(n, hist), Parent[n])>>
                [] Kind[n] = "compound" -> DownThenUp(Initial[n], n)
                [] Kind[n] = "parallel" -> <<Regions(Children(n))>>
                [] OTHER                -> <<>>
      BY DEF Subtasks
    <2> HIDE DEF n
    <2>5. CASE Kind[n] = "compound"
      <3> DEFINE i == Initial[n]
                 d == Down(i)
                 u == Up(i, n)
                 sub == <<d, u>>
                 R == {d, u}
                 owed == {i} \ History
                 tended == Cared(i)
                 opened == {}
      <3>1. Subtasks(t, seen, hist) = sub
        BY <1>2, <2>4, <2>5 DEF DownThenUp
      <3>2. i \in Node /\ Parent[i] = n /\ n \in ProperAncestors[i] /\ i # Root
        <4>1. i \in Node /\ Parent[i] = n
          BY <2>1, <2>5, InitialFacts DEF Children
        <4> QED  BY <4>1, <2>1, ChildrenBelow, NodeFacts, ParentFacts
      <3>3. Chain(i, n) = owed /\ Forks(i, n) = {}
        <4>1. Path(i, n) = {}
          BY <3>2, PathStep
        <4> QED  BY <4>1 DEF Chain, Forks
      <3>4. /\ d \in Task /\ u \in Task
            /\ Owes(d) \cup Owes(u) = owed /\ Tends(d) \cup Tends(u) = tended
            /\ Opens(d) = {} /\ Opens(u) = {}
            /\ Area(d) \subseteq Below[n] /\ Area(u) = Below[n]
            /\ Fresh(d) \subseteq Below[n] /\ Fresh(u) \subseteq Below[n]
            /\ Area(d) \cap Fresh(u) = {}
            /\ Placed(d, due \cup owed) /\ Placed(u, due \cup owed)
        <4>1. {n} \cup Chain(i, n) \subseteq due \cup owed
          BY <2>1, <3>3
        <4>2. \A D : {n} \cup Chain(i, n) \subseteq D => Placed(d, D) /\ Placed(u, D)
          BY <3>2, DownThenUpFacts
        <4>3. Placed(d, due \cup owed) /\ Placed(u, due \cup owed)
          BY <4>1, <4>2, Zenon
        <4>4. /\ d \in Task /\ u \in Task
              /\ Owes(d) \cup Owes(u) = Chain(i, n) /\ Tends(d) \cup Tends(u) = Cared(i) \cup Forks(i, n)
              /\ Opens(d) = {} /\ Opens(u) = {}
              /\ Area(d) \subseteq Below[n] /\ Area(u) = Below[n]
              /\ Fresh(d) \subseteq Below[n] /\ Fresh(u) \subseteq Below[n]
              /\ Area(d) \cap Fresh(u) = {}
          BY <3>2, DownThenUpFacts
        <4> QED  BY <3>3, <4>3, <4>4
      <3> HIDE DEF d, u
      <3>5. Makes(sub, R)
        BY <3>4, Pair
      <3>6. /\ owed = UNION {Owes(x) : x \in R} /\ tended = UNION {Tends(x) : x \in R}
            /\ opened = UNION {Opens(x) : x \in R}
        BY <3>4
      <3>7. \A x \in R : /\ Placed(x, due \cup owed) /\ Area(x) \subseteq Area(t)
                         /\ Fresh(x) \cap (base \cup entered \cup Entering(t)) = {}
        BY <2>1, <2>2, <2>3, <3>4
      <3>8. /\ i \in owed => tended = {i} /\ i \in Children(n)
            /\ i \notin owed => tended = {n}
            /\ owed \subseteq {i} /\ owed \subseteq Node \ History /\ owed \subseteq Below[n]
        <4>1. i \in Below[n] /\ i \in Children(n)
          BY <2>1, <3>2, BelowFacts DEF Children
        <4> QED  BY <4>1, <3>2 DEF Cared
      <3> DEFINE next == due \cup owed
      <3> HIDE DEF sub, R, owed, tended, opened, i
      <3>9. \A x \in (owed \ due) \cup (due \cap Tends(t)) : Standing(x, next, tended, opened)
        <4>1. Standing(n, next, tended, opened)
          BY <2>1, <2>5, <3>8 DEF Standing
        <4>2. \A x \in owed : Standing(x, next, tended, opened)
          BY <2>1, <3>2, <3>8 DEF Standing
        <4> QED  BY <2>1, <4>1, <4>2
      <3>10. \A N \in Node : Kind[N] = "compound" =>
                \A c \in Children(N) \cap (owed \ due), x \in Children(N) \cap next : c = x
        <4> SUFFICES ASSUME NEW N \in Node, NEW c \in Children(N) \cap owed,
                            NEW x \in Children(N) \cap due
                     PROVE  FALSE
          BY <3>8
        <4>1. N = n /\ x \in Below[N]
          BY <3>2, <3>8, ChildrenBelow DEF Children
        <4> QED  BY <4>1, <2>3
      <3>11. Leaves(t, R, base, entered, due, owed, tended, opened)
        <4>1. /\ Entering(t) \subseteq Owes(t) /\ Owes(t) \subseteq Entering(t) \cup owed
              /\ Opens(t) \subseteq next \cup opened /\ owed \subseteq Node \ History
          BY <2>1, <3>8
        <4> QED  BY <3>6, <3>7, <3>9, <3>10, <4>1 DEF Leaves
      <3>12. PassesOn(t, sub, base, entered, due)
        BY <3>5, <3>11, PassIf
      <3> QED  BY <3>1, <3>12
    <2>6. CASE Kind[n] = "parallel"
      <3> DEFINE reg == Regions(Children(n))
                 sub == <<reg>>
                 R == {reg}
                 owed == {}
                 tended == {}
                 opened == Children(n)
      <3>1. Subtasks(t, seen, hist) = sub
        BY <1>2, <2>4, <2>6
      <3>2. \A c \in Children(n) : c \in Node \ History /\ Subtree(c) \subseteq Below[n] /\ Parent[c] = n
        <4>1. \A c \in Children(n) : c \in Node /\ c \notin History /\ Parent[c] = n
          BY <2>6 DEF Children, RestoresOnePath
        <4> QED  BY <4>1, <2>1, ParentFacts, NodeFacts, SubtreeFacts
      <3>3. /\ reg \in Task /\ Owes(reg) = {} /\ Tends(reg) = {} /\ Opens(reg) = Children(n)
            /\ Area(reg) \subseteq Below[n] /\ Fresh(reg) = {} /\ Placed(reg, due)
        <4>1. reg \in Task /\ reg.do = "regions" /\ reg.nodes = Children(n)
          BY <2>1, ChildrenBelow, TaskTypes DEF Regions
        <4>2. Placed(reg, due)
          BY <4>1, <3>2, <2>1, <2>6 DEF Placed
        <4>3. Area(reg) = UNION {Subtree(r) : r \in Children(n)}
          BY <4>1, TaskMeans
        <4>4. Area(reg) \subseteq Below[n]
          BY <4>3, <3>2
        <4> QED  BY <4>1, <4>2, <4>4, TaskMeans
      <3> HIDE DEF reg
      <3>4. Makes(sub, R)
        BY <3>3, OneTask
      <3>5. /\ owed = UNION {Owes(x) : x \in R} /\ tended = UNION {Tends(x) : x \in R}
            /\ opened = UNION {Opens(x) : x \in R}
        BY <3>3
      <3>6. \A x \in R : /\ Placed(x, due \cup owed) /\ Area(x) \subseteq Area(t)
                         /\ Fresh(x) \cap (base \cup entered \cup Entering(t)) = {}
        BY <2>1, <2>2, <3>3
      <3>7. /\ Standing(n, due \cup owed, tended, opened)
            /\ Entering(t) \subseteq Owes(t) /\ Owes(t) \subseteq Entering(t) \cup owed
            /\ Opens(t) \subseteq (due \cup owed) \cup opened /\ owed \subseteq Node \ History
            /\ owed \ due = {}
        BY <2>1, <2>6 DEF Standing
      <3> HIDE DEF sub, R, owed, tended, opened
      <3>8. Leaves(t, R, base, entered, due, owed, tended, opened)
        BY <2>1, <3>5, <3>6, <3>7 DEF Leaves
      <3>9. PassesOn(t, sub, base, entered, due)
        BY <3>4, <3>8, PassIf
      <3> QED  BY <3>1, <3>9
    <2>7. CASE Kind[n] \notin {"compound", "parallel"}
      <3> DEFINE sub == <<>>
                 R == {}
                 none == {}
      <3>1. Subtasks(t, seen, hist) = sub
        BY <1>2, <2>4, <2>7
      <3>2. /\ none = UNION {Owes(x) : x \in R} /\ none = UNION {Tends(x) : x \in R}
            /\ none = UNION {Opens(x) : x \in R}
        OBVIOUS
      <3>3. /\ Standing(n, due \cup none, none, none)
            /\ Entering(t) \subseteq Owes(t) /\ Owes(t) \subseteq Entering(t) \cup none
            /\ Opens(t) \subseteq (due \cup none) \cup none /\ none \subseteq Node \ History
            /\ none \ due = {} /\ \A x \in R : FALSE
        BY <2>1, <2>7 DEF Standing
      <3>4. Makes(sub, R)
        BY NoTask
      <3> HIDE DEF sub, R, none
      <3>5. Leaves(t, R, base, entered, due, none, none, none)
        BY <2>1, <3>2, <3>3 DEF Leaves
      <3>6. PassesOn(t, sub, base, entered, due)
        BY <3>4, <3>5, PassIf
      <3> QED  BY <3>1, <3>6
    <2> QED  BY <2>5, <2>6, <2>7
  <1> QED  BY <1>1, <1>2

-----------------------------------------------------------------------------
(***************************************************************************)
(* A run of tasks keeps what is due sound, to its end.                     *)
(***************************************************************************)
LEMMA PerformSound ==
    ASSUME NEW hist, RestoresOnePath(hist), NEW base, NEW w, Sound(base, w)
    PROVE  Sound(base, Perform(hist)[w])
  <1>1. w \in Progress
    BY DEF Sound
  <1>2. CASE w.tasks = <<>>
    BY <1>1, <1>2 DEF Perform
  <1>3. CASE w.tasks # <<>>
    <2> DEFINE t == Head(w.tasks)
               entered == w.entered \cup Entering(t)
               sub == Subtasks(t, entered, hist)
    <2>1. Perform(hist)[w] = [tasks |-> sub \o Tail(w.tasks), entered |-> entered]
      BY <1>1, <1>3 DEF Perform
    <2>2. Ready(t, base, w.entered, Due(base, w))
      BY <1>3, HeadIsReady
    <2>3. t \in Task
      BY <2>2 DEF Ready
    <2>4. PassesOn(t, sub, base, w.entered, Due(base, w))
      <3> HIDE DEF t
      <3> QED  BY <2>2, <2>3, TaskFields, DownPassesOn, UpPassesOn, RegionsPassOn,
                  BackPassesOn, TargetsPassOn
    <2> HIDE DEF sub
    <2>5. Sound(base, [tasks |-> sub \o Tail(w.tasks), entered |-> entered])
      BY <1>3, <2>4, StaysSound
    <2> QED  BY <2>1, <2>5
  <1> QED  BY <1>2, <1>3

LEMMA EntrySound ==
    ASSUME NEW hist, RestoresOnePath(hist), NEW base, NEW tasks,
           Sound(base, [tasks |-> tasks, entered |-> {}])
    PROVE  Sound(base, EntryClosure(tasks, hist))
  <1> DEFINE S == {w \in Progress : Sound(base, w)}
  <1>1. [tasks |-> tasks, entered |-> {}] \in S
    BY DEF Sound
  <1>2. \A w \in S : Perform(hist)[w] \in S
    <2> SUFFICES ASSUME NEW w, Sound(base, w) PROVE Perform(hist)[w] \in S
      OBVIOUS
    <2>1. Sound(base, Perform(hist)[w])
      BY PerformSound
    <2> QED  BY <2>1 DEF Sound
  <1> HIDE DEF S
  <1>3. EntryClosure(tasks, hist) \in S
    BY <1>1, <1>2, EntryInduct, Zenon
  <1> QED  BY <1>3 DEF S

\* The shape of a legal configuration.
Whole(S) ==
    /\ S \subseteq Node \ History /\ Root \in S
    /\ \A n \in S \ {Root} : Parent[n] \in S
    /\ \A n \in S : /\ Kind[n] = "compound" => Children(n) \cap S # {}
                    /\ Kind[n] = "parallel" => Children(n) \ History \subseteq S
    /\ Alone(S)

LEMMA EndsWhole ==
    ASSUME NEW base, NEW w, Sound(base, w), Ends(w) PROVE Whole(base \cup w.entered)
  <1>1. w.tasks = <<>> /\ Range(w.tasks) = {}
    BY RangeFacts DEF Ends
  <1>2. UNION {Owes(t) : t \in Range(w.tasks)} = {}
    BY <1>1
  <1>3. UNION {Tends(t) : t \in Range(w.tasks)} = {}
    BY <1>1
  <1>4. UNION {Opens(t) : t \in Range(w.tasks)} = {}
    BY <1>1
  <1>5. Due(base, w) = base \cup w.entered
    BY <1>2 DEF Due, Now
  <1> DEFINE S == base \cup w.entered
  <1>6. \A n \in S : Standing(n, S, {}, {})
    BY <1>3, <1>4, <1>5 DEF Sound
  <1>7. S \subseteq Node \ History /\ Root \in S /\ Alone(S)
    BY <1>5 DEF Sound
  <1> HIDE DEF S
  <1>8. Whole(S)
    BY <1>6, <1>7 DEF Whole, Standing
  <1> QED  BY <1>8 DEF S

-----------------------------------------------------------------------------
(***************************************************************************)
(* Where an entry begins: at the root, or with the transitions taken from  *)
(* a legal configuration that do not conflict.                             *)
(***************************************************************************)
LEMMA RootSound == Sound({}, [tasks |-> <<Down(Root)>>, entered |-> {}])
  <1> DEFINE d == Down(Root)
             w == [tasks |-> <<d>>, entered |-> {}]
  <1>1. Root \in Node /\ Root \notin History
    BY NodeFacts, ChartAssumption DEF WellFormedTree
  <1>2. d \in Task /\ d.do = "down" /\ d.node = Root
    BY <1>1, TaskTypes DEF Down
  <1>3. Owes(d) = {Root} /\ Tends(d) = {Root} /\ \A D : Placed(d, D)
    BY <1>1, <1>2, TaskMeans DEF Cared, Placed
  <1> HIDE DEF d
  <1>4. Makes(<<d>>, {d})
    BY <1>2, OneTask
  <1>5. w.tasks = <<d>> /\ w.entered = {} /\ w \in Progress
    BY <1>4 DEF Progress, Makes
  <1> HIDE DEF w
  <1>6. Range(w.tasks) = {d} /\ Apart(w.tasks)
    BY <1>4, <1>5 DEF Makes
  <1>7. UNION {Owes(t) : t \in Range(w.tasks)} = {Root}
    BY <1>3, <1>6
  <1>8. UNION {Tends(t) : t \in Range(w.tasks)} = {Root}
    BY <1>3, <1>6
  <1>9. Now({}, w) = {} /\ Due({}, w) = {Root}
    BY <1>5, <1>7 DEF Due, Now
  <1>10. \A n \in Due({}, w) : Standing(n, Due({}, w), {Root}, UNION {Opens(t) : t \in Range(w.tasks)})
    BY <1>9 DEF Standing
  <1>11. Alone(Due({}, w))
    BY <1>9 DEF Alone
  <1>12. Sound({}, w)
    BY <1>1, <1>3, <1>5, <1>6, <1>8, <1>9, <1>10, <1>11 DEF Sound
  <1> QED  BY <1>12 DEF w, d

\* The transitions of T can be taken together from the configuration cfg.
Together(cfg, T) ==
    /\ T \subseteq Edge
    /\ \A t \in T : Edges[t].source \in cfg
    /\ \A t \in T \cap Targeted : Domain[t] # NoNode
    /\ \A t, u \in T : t # u => ~Conflict(cfg, t, u)

\* Their scopes lie apart, and what they exit leaves their domains.
LEMMA ScopesApart ==
    ASSUME NEW cfg, Whole(cfg), NEW T, Together(cfg, T), Kind[Root] # "parallel"
    PROVE  LET base == cfg \ ComputeExitSet(cfg, T) IN
           /\ base = cfg \ UNION {Below[Domain[t]] : t \in T \cap Targeted}
           /\ \A t \in T \cap Targeted :
                 /\ Domain[t] \in base /\ Kind[Domain[t]] = "compound"
                 /\ Edges[t].target \in Node /\ Domain[t] \in ProperAncestors[Edges[t].target]
           /\ \A t, u \in T \cap Targeted : t # u => Below[Domain[t]] \cap Below[Domain[u]] = {}
  <1> DEFINE T1 == T \cap Targeted
             base == cfg \ ComputeExitSet(cfg, T)
  <1>1. cfg \subseteq Node /\ \A n \in cfg : ProperAncestors[n] \subseteq cfg
    BY UpwardClosed DEF Whole
  <1>2. ASSUME NEW t \in T1
        PROVE  /\ t \in Edge /\ ~Targetless(t) /\ Domain[t] \in Node /\ Domain[t] \in cfg
               /\ Edges[t].source \in cfg /\ Edges[t].source \in Below[Domain[t]]
               /\ Edges[t].target \in Node /\ Domain[t] \in ProperAncestors[Edges[t].target]
               /\ Scope[t] = Below[Domain[t]] /\ Kind[Domain[t]] = "compound"
    <2>1. t \in Edge /\ ~Targetless(t) /\ Domain[t] # NoNode /\ Edges[t].source \in cfg
      BY DEF Together, Targeted
    <2>2. /\ Domain[t] \in Node /\ Edges[t].source \in Below[Domain[t]]
          /\ Edges[t].target \in Below[Domain[t]]
      BY <2>1, DomainFacts
    <2>3. Edges[t].target \in Node /\ Edges[t].source \in Node
      BY <2>2, BelowFacts
    <2>4. /\ Domain[t] \in ProperAncestors[Edges[t].source]
          /\ Domain[t] \in ProperAncestors[Edges[t].target]
      BY <2>2, <2>3, BelowFacts
    <2>5. Scope[t] = Below[Domain[t]]
      BY <2>1 DEF Scope
    <2>6. Kind[Domain[t]] = "compound" \/ Domain[t] = Root
      BY <2>1, DomainFacts
    <2>7. Kind[Domain[t]] \in {"compound", "parallel"}
      BY <2>3, <2>4, AncestorsEarlier
    <2> QED  BY <2>1, <2>2, <2>3, <2>4, <2>5, <2>6, <2>7, <1>1
  <1>3. base = cfg \ UNION {Below[Domain[t]] : t \in T1}
    <2>1. ASSUME NEW t \in T, t \notin T1 PROVE ExitSetOf(cfg, t) = {}
      BY <2>1 DEF ExitSetOf, Scope, Targeted, Together
    <2>2. ASSUME NEW t \in T1 PROVE ExitSetOf(cfg, t) = cfg \cap Below[Domain[t]]
      BY <1>2 DEF ExitSetOf
    <2> QED  BY <2>1, <2>2 DEF ComputeExitSet
  <1>4. ASSUME NEW t \in T1, NEW u \in T1, t # u, Edges[t].source \in Below[Domain[u]]
        PROVE  FALSE
    BY <1>2, <1>4 DEF Together, Conflict, ExitSetOf
  <1>5. ASSUME NEW t \in T1, NEW u \in T1, Domain[t] \in Below[Domain[u]] PROVE FALSE
    <2>1. t # u
      BY <1>2, <1>5, BelowFacts, AncestorsEarlier, NodeFacts
    <2>2. Edges[t].source \in Below[Domain[u]]
      BY <1>2, <1>5, SubtreeFacts DEF Subtree
    <2> QED  BY <2>1, <2>2, <1>4
  <1>6. ASSUME NEW t \in T1, NEW u \in T1, t # u PROVE Below[Domain[t]] \cap Below[Domain[u]] = {}
    <2> SUFFICES ASSUME NEW x \in Below[Domain[t]], x \in Below[Domain[u]] PROVE FALSE
      OBVIOUS
    <2>1. x \in Node /\ Domain[t] \in ProperAncestors[x] /\ Domain[u] \in ProperAncestors[x]
      BY <1>2, BelowFacts
    <2>2. \/ Domain[t] = Domain[u]
          \/ Domain[t] \in ProperAncestors[Domain[u]] \/ Domain[u] \in ProperAncestors[Domain[t]]
      BY <2>1, AncestorsInLine
    <2>3. \/ Domain[t] = Domain[u] \/ Domain[t] \in Below[Domain[u]] \/ Domain[u] \in Below[Domain[t]]
      BY <2>2, <1>2, BelowFacts
    <2> QED  BY <2>3, <1>2, <1>4, <1>5, <1>6
  <1>7. \A t \in T1 : Domain[t] \in base
    BY <1>2, <1>3, <1>5
  <1> QED  BY <1>2, <1>3, <1>6, <1>7

\* On the way to a target every state has its child, or a history target that
\* sees to it.
LEMMA ChainLeads ==
    ASSUME NEW g \in Node, NEW D \in ProperAncestors[g]
    PROVE  /\ \A a \in {D} \cup Chain(g, D) :
                 \/ Children(a) \cap Chain(g, D) # {}
                 \/ a \in Cared(g)
           /\ Chain(g, D) \subseteq Below[D] \ History
           /\ \A c \in Chain(g, D) : c # Root /\ Parent[c] \in {D} \cup Chain(g, D)
           /\ \A c, d \in Chain(g, D) : Parent[c] = Parent[d] => c = d
           /\ \A c \in Chain(g, D) : Kind[c] = "parallel" => c \in Cared(g) \cup Forks(g, D)
  <1> DEFINE P == Path(g, D)
  <1>1. Chain(g, D) = ({g} \ History) \cup P
    BY DEF Chain
  <1>2. /\ D \in Node /\ P \subseteq Node \ History /\ P \subseteq Below[D] /\ g \in Below[D]
        /\ \A a \in {g} \cup P : a # Root /\ Parent[a] \in {D} \cup P
        /\ \A a \in {D} \cup P : \E c \in {g} \cup P : Parent[c] = a
        /\ \A c, d \in {g} \cup P : Parent[c] = Parent[d] => c = d
    BY PathFacts
  <1>3. \A a \in P : Kind[a] = "parallel" => a \in Forks(g, D)
    BY DEF Forks
  <1>4. /\ g \in History => Cared(g) = {Parent[g]}
        /\ g \notin History => Cared(g) = {g}
    BY DEF Cared
  <1> HIDE DEF P
  <1>5. ASSUME NEW a \in {D} \cup P
        PROVE  Children(a) \cap Chain(g, D) # {} \/ a \in Cared(g)
    <2>1. PICK c \in {g} \cup P : Parent[c] = a
      BY <1>2
    <2>2. c \in Node
      BY <1>2
    <2> QED  BY <2>1, <2>2, <1>1, <1>4 DEF Children
  <1> QED  BY <1>1, <1>2, <1>3, <1>4, <1>5

LEMMA TargetsSound ==
    ASSUME NEW cfg, Whole(cfg), NEW T, Together(cfg, T), Kind[Root] # "parallel"
    PROVE  Sound(cfg \ ComputeExitSet(cfg, T),
                 [tasks |-> <<Targets(T \cap Targeted)>>, entered |-> {}])
  <1> DEFINE base == cfg \ ComputeExitSet(cfg, T)
             T1 == T \cap Targeted
             t == Targets(T1)
             w == [tasks |-> <<t>>, entered |-> {}]
             D(e) == Domain[e]
             g(e) == Edges[e].target
  <1>1. /\ base = cfg \ UNION {Below[D(e)] : e \in T1}
        /\ \A e \in T1 : /\ D(e) \in base /\ Kind[D(e)] = "compound"
                         /\ g(e) \in Node /\ D(e) \in ProperAncestors[g(e)]
        /\ \A e, u \in T1 : e # u => Below[D(e)] \cap Below[D(u)] = {}
    BY ScopesApart
  <1>2. t \in Task /\ t.do = "targets" /\ t.edges = T1
    BY TaskTypes DEF Targets
  <1>3. /\ cfg \subseteq Node \ History /\ Root \in cfg
        /\ \A n \in cfg \ {Root} : Parent[n] \in cfg
        /\ \A n \in cfg : /\ Kind[n] = "compound" => Children(n) \cap cfg # {}
                          /\ Kind[n] = "parallel" => Children(n) \ History \subseteq cfg
        /\ Alone(cfg)
    BY DEF Whole
  <1> HIDE DEF base, t
  <1>4. Makes(<<t>>, {t})
    BY <1>2, OneTask
  <1>5. w.tasks = <<t>> /\ w.entered = {} /\ w \in Progress
    BY <1>4 DEF Progress, Makes
  <1> HIDE DEF w
  <1>6. Range(w.tasks) = {t} /\ Apart(w.tasks)
    BY <1>4, <1>5 DEF Makes
  <1> DEFINE owed == Owes(t)
             tended == Tends(t)
             due == base \cup owed
  <1>7. /\ UNION {Owes(u) : u \in Range(w.tasks)} = owed
        /\ UNION {Tends(u) : u \in Range(w.tasks)} = tended
        /\ UNION {Opens(u) : u \in Range(w.tasks)} = {}
    <2>1. Opens(t) = {}
      BY <1>2, TaskMeans
    <2> QED  BY <1>6, <2>1
  <1>8. Now(base, w) = base /\ Due(base, w) = due
    BY <1>5, <1>7 DEF Due, Now
  <1>9. owed = UNION {Chain(g(e), D(e)) : e \in T1}
    BY <1>2, TaskMeans
  <1>10. tended = UNION {Cared(g(e)) \cup Forks(g(e), D(e)) : e \in T1}
    BY <1>2, TaskMeans
  <1>11. Area(t) = UNION {Below[D(e)] : e \in T1} /\ Fresh(t) = Area(t)
    BY <1>2, TaskMeans
  <1> HIDE DEF owed, tended
  <1>12. ASSUME NEW e \in T1
         PROVE  /\ \A a \in {D(e)} \cup Chain(g(e), D(e)) :
                      Children(a) \cap owed # {} \/ a \in tended
                /\ Chain(g(e), D(e)) \subseteq owed /\ Chain(g(e), D(e)) \subseteq Below[D(e)] \ History
                /\ \A c \in Chain(g(e), D(e)) :
                      /\ c # Root /\ Parent[c] \in {D(e)} \cup Chain(g(e), D(e))
                      /\ Kind[c] = "parallel" => c \in tended
                /\ \A c, d \in Chain(g(e), D(e)) : Parent[c] = Parent[d] => c = d
    <2>1. g(e) \in Node /\ D(e) \in ProperAncestors[g(e)]
      BY <1>1
    <2>2. Chain(g(e), D(e)) \subseteq owed /\ Cared(g(e)) \cup Forks(g(e), D(e)) \subseteq tended
      BY <1>9, <1>10
    <2> HIDE DEF g, D
    <2> QED  BY <2>1, <2>2, ChainLeads
  <1>13. base \cap Area(t) = {} /\ due \subseteq Node \ History /\ Root \in due
    <2>1. base \cap Area(t) = {}
      BY <1>1, <1>11
    <2>2. owed \subseteq Node \ History
      BY <1>9, <1>12, <1>1, BelowFacts, AncestorsEarlier
    <2>3. Root \in base
      <3>1. \A e \in T1 : Root \notin Below[D(e)]
        BY <1>1, <1>3, BelowFacts, AncestorFacts, NodeFacts
      <3> QED  BY <3>1, <1>1, <1>3
    <2> QED  BY <2>1, <2>2, <2>3, <1>1, <1>3
  <1>14. Placed(t, due)
    BY <1>1, <1>2 DEF Placed
  <1>15. ASSUME NEW n \in base PROVE Standing(n, due, tended, {})
    <2>1. n \in cfg /\ n \in Node /\ \A e \in T1 : n \notin Below[D(e)]
      BY <1>1, <1>3
    <2>2. n # Root => Parent[n] \in due
      <3> SUFFICES ASSUME n # Root PROVE Parent[n] \in base
        OBVIOUS
      <3>1. Parent[n] \in cfg /\ Parent[n] \in Node /\ n \in Below[Parent[n]]
        BY <2>1, <1>3, SubtreeFacts
      <3>2. \A e \in T1 : Parent[n] \in Below[D(e)] => n \in Below[D(e)]
        BY <3>1, <1>1, <1>3, SubtreeFacts DEF Subtree
      <3> QED  BY <2>1, <3>1, <3>2, <1>1
    <2>3. ASSUME NEW c \in Children(n), c \in cfg, c \notin base
          PROVE  \E e \in T1 : n = D(e)
      <3>1. PICK e \in T1 : c \in Below[D(e)]
        BY <2>3, <1>1
      <3>2. D(e) \in ProperAncestors[c] /\ c \in Node /\ Parent[c] = n /\ D(e) \in Node
        BY <3>1, <1>1, <1>3, BelowFacts DEF Children
      <3>3. c # Root /\ ProperAncestors[c] = {n} \cup ProperAncestors[n]
        BY <3>2, AncestorFacts
      <3>4. D(e) \notin ProperAncestors[n]
        BY <2>1, <3>2, BelowFacts
      <3> QED  BY <3>2, <3>3, <3>4
    <2>4. Kind[n] = "compound" => n \in tended \/ Children(n) \cap due # {}
      <3> SUFFICES ASSUME Kind[n] = "compound", NEW c \in Children(n) \cap cfg, c \notin base
                   PROVE  n \in tended \/ Children(n) \cap due # {}
        BY <2>1, <1>3
      <3>1. PICK e \in T1 : n = D(e)
        BY <2>3
      <3> QED  BY <3>1, <1>12
    <2>5. Kind[n] = "parallel" => Children(n) \ History \subseteq due
      BY <2>1, <2>3, <1>1, <1>3
    <2> QED  BY <2>2, <2>4, <2>5 DEF Standing
  <1>16. ASSUME NEW n \in owed PROVE Standing(n, due, tended, {})
    <2>1. PICK e \in T1 : n \in Chain(g(e), D(e))
      BY <1>9
    <2>2. /\ n # Root /\ Parent[n] \in {D(e)} \cup Chain(g(e), D(e))
          /\ Kind[n] = "parallel" => n \in tended
          /\ Children(n) \cap owed # {} \/ n \in tended
      BY <2>1, <1>12
    <2>3. Parent[n] \in due
      BY <2>2, <1>1, <1>12
    <2> QED  BY <2>2, <2>3 DEF Standing
  <1>17. Alone(due)
    <2>1. ASSUME NEW n \in Node, NEW c \in Children(n) \cap owed, NEW d \in Children(n) \cap due
          PROVE  c = d
      <3>1. PICK e \in T1 : c \in Chain(g(e), D(e))
        BY <1>9
      <3>2. c \in Below[D(e)] /\ n \in {D(e)} \cup Below[D(e)]
        BY <3>1, <1>12 DEF Children
      <3>3. d \in Below[D(e)]
        <4>1. d \in Below[n] /\ D(e) \in Node
          BY <1>1, <1>3, ChildrenBelow
        <4> QED  BY <4>1, <3>2, SubtreeFacts DEF Subtree
      <3>4. CASE d \in base
        BY <3>3, <3>4, <1>1
      <3>5. CASE d \in owed
        <4>1. PICK u \in T1 : d \in Chain(g(u), D(u))
          BY <3>5, <1>9
        <4>2. d \in Below[D(u)]
          BY <4>1, <1>12
        <4>3. u = e
          BY <4>2, <3>3, <1>1
        <4> QED  BY <3>1, <4>1, <4>3, <1>12 DEF Children
      <3> QED  BY <3>4, <3>5
    <2>2. \A n \in Node, c, d \in base : c \in Children(n) /\ d \in Children(n) /\ Kind[n] = "compound" => c = d
      BY <1>1, <1>3 DEF Alone
    <2> QED  BY <2>1, <2>2 DEF Alone
  <1>18. Sound(base, w)
    <2>1. \A n \in due : Standing(n, due, tended, {})
      BY <1>15, <1>16
    <2>2. \A u \in Range(w.tasks) : /\ Placed(u, due) /\ Area(u) \cap base = {}
                                    /\ Fresh(u) \cap Now(base, w) = {}
      BY <1>6, <1>8, <1>11, <1>13, <1>14
    <2> HIDE DEF due
    <2> QED  BY <1>5, <1>6, <1>7, <1>8, <1>13, <1>17, <2>1, <2>2 DEF Sound
  <1> QED  BY <1>18 DEF base, w, t

-----------------------------------------------------------------------------
(***************************************************************************)
(* What a history target restores is entered.                              *)
(***************************************************************************)
\* The tasks on the way from the history state h to n, which it restores.
Leads(t, h, n) ==
    \/ t.do = "targets" /\ \E e \in t.edges : Edges[e].target = h
    \/ t.do = "down" /\ t.node \in {h, n}
    \/ t.do = "back" /\ n \in t.nodes

LEMMA LeadsOn ==
    ASSUME NEW h \in History, NEW n, n \notin History, NEW hist, Restored(h, hist) = {n},
           NEW t \in Task, Leads(t, h, n), NEW seen
    PROVE  \/ n \in Entering(t)
           \/ \E u \in Range(Subtasks(t, seen, hist)) : Leads(u, h, n)
  <1>a. \A s \in Seq(Task), v \in Task : Range(s \o <<v>>) = Range(s) \cup {v}
    <2> TAKE s \in Seq(Task), v \in Task
    <2> DEFINE y == <<v>>
    <2>1. y \in Seq(Task) /\ Range(y) = {v}
      BY RangeFacts
    <2> HIDE DEF y
    <2>2. Range(s \o y) = Range(s) \cup Range(y)
      BY <2>1, RangeConcat
    <2> QED  BY <2>1, <2>2 DEF y
  <1>b. \A x, stop : Range(DownThenUp(x, stop)) = {Down(x), Up(x, stop)}
    BY RangeFacts DEF DownThenUp
  <1>1. CASE t.do = "targets"
    <2> DEFINE e == CHOOSE e \in t.edges : \A u \in t.edges : e <= u
               both == DownThenUp(Edges[e].target, Domain[e])
               rest == Targets(t.edges \ {e})
    <2>1. PICK x \in t.edges : Edges[x].target = h
      BY <1>1 DEF Leads
    <2>2. Subtasks(t, seen, hist) = both \o <<rest>>
      BY <1>1, <2>1 DEF Subtasks
    <2>3. t.edges \in SUBSET Targeted /\ t.edges \in SUBSET Nat
      BY <1>1, TaskFields, NodeIsTargeted
    <2>4. e \in t.edges
      BY <2>1, <2>3, LeastNumber, Zenon
    <2> HIDE DEF e
    <2>5. both \in Seq(Task) /\ rest \in Task
      BY <2>3, <2>4, NodeIsTargeted, TaskTypes
    <2>6. Range(both) = {Down(Edges[e].target), Up(Edges[e].target, Domain[e])}
      BY <1>b
    <2> HIDE DEF both
    <2>7. Range(Subtasks(t, seen, hist)) =
              {Down(Edges[e].target), Up(Edges[e].target, Domain[e]), rest}
      <3> HIDE DEF rest
      <3>1. Range(both \o <<rest>>) = Range(both) \cup {rest}
        BY <1>a, <2>5
      <3> QED  BY <3>1, <2>2, <2>6
    <2>8. CASE x = e
      <3>1. Leads(Down(Edges[e].target), h, n)
        BY <2>1, <2>8 DEF Leads, Down
      <3> QED  BY <2>7, <3>1
    <2>9. CASE x # e
      <3>1. Leads(rest, h, n)
        BY <2>1, <2>9 DEF Leads, Targets
      <3> QED  BY <2>7, <3>1
    <2> QED  BY <2>8, <2>9
  <1>2. CASE t.do = "down" /\ t.node = n
    BY <1>2 DEF Entering
  <1>3. CASE t.do = "down" /\ t.node = h
    <2>1. Subtasks(t, seen, hist) =
              CASE h \in History          -> <<Back(Restored(h, hist), Parent[h])>>
                [] Kind[h] = "compound" -> DownThenUp(Initial[h], h)
                [] Kind[h] = "parallel" -> <<Regions(Children(h))>>
                [] OTHER                  -> <<>>
      BY <1>3 DEF Subtasks
    <2>2. Subtasks(t, seen, hist) = <<Back({n}, Parent[h])>>
      BY <2>1 DEF History
    <2>3. Range(Subtasks(t, seen, hist)) = {Back({n}, Parent[h])}
      BY <2>2, RangeFacts
    <2>4. Leads(Back({n}, Parent[h]), h, n)
      BY DEF Leads, Back
    <2> QED  BY <2>3, <2>4
  <1>4. CASE t.do = "back"
    <2> DEFINE m == First(t.nodes)
               both == DownThenUp(m, t.stop)
               rest == Back(t.nodes \ {m}, t.stop)
    <2>1. n \in t.nodes
      BY <1>4 DEF Leads
    <2>2. Subtasks(t, seen, hist) = both \o <<rest>>
      BY <1>4, <2>1 DEF Subtasks
    <2>3. t.nodes \in SUBSET Node /\ t.stop \in Node \cup {NoNode}
      BY <1>4, TaskFields
    <2>4. m \in t.nodes
      BY <2>1, <2>3, FirstOf
    <2> HIDE DEF m
    <2>5. both \in Seq(Task) /\ rest \in Task
      BY <2>3, <2>4, TaskTypes
    <2>6. Range(both) = {Down(m), Up(m, t.stop)}
      BY <1>b
    <2> HIDE DEF both
    <2>7. Range(Subtasks(t, seen, hist)) = {Down(m), Up(m, t.stop), rest}
      BY <1>a, <2>2, <2>5, <2>6
    <2>8. m = n => Leads(Down(m), h, n)
      BY DEF Leads, Down
    <2>9. m # n => Leads(rest, h, n)
      BY <2>1 DEF Leads, Back
    <2> QED  BY <2>7, <2>8, <2>9
  <1> QED  BY <1>1, <1>2, <1>3, <1>4 DEF Leads

LEMMA RestoredIsEntered ==
    ASSUME NEW hist, RestoresOnePath(hist), NEW base, NEW tasks,
           Sound(base, [tasks |-> tasks, entered |-> {}]),
           NEW h \in History, NEW n, n \notin History, Restored(h, hist) = {n},
           \E u \in Range(tasks) : Leads(u, h, n),
           Ends(EntryClosure(tasks, hist))
    PROVE  n \in EntryClosure(tasks, hist).entered
  <1> DEFINE OnItsWay(w) == n \in w.entered \/ \E u \in Range(w.tasks) : Leads(u, h, n)
             S == {w \in Progress : Sound(base, w) /\ OnItsWay(w)}
             zero == [tasks |-> tasks, entered |-> {}]
  <1>1. zero \in S
    BY DEF Sound
  <1>2. ASSUME NEW w \in Progress, Sound(base, w), OnItsWay(w) PROVE Perform(hist)[w] \in S
    <2>1. Sound(base, Perform(hist)[w])
      BY <1>2, PerformSound
    <2>2. OnItsWay(Perform(hist)[w])
      <3>1. CASE w.tasks = <<>>
        BY <1>2, <3>1 DEF Perform
      <3>2. CASE w.tasks # <<>>
        <4> DEFINE t == Head(w.tasks)
                   entered == w.entered \cup Entering(t)
                   sub == Subtasks(t, entered, hist)
                   rest == Tail(w.tasks)
                   v == Perform(hist)[w]
        <4>1. v.tasks = sub \o rest /\ v.entered = entered
          BY <1>2, <3>2 DEF Perform
        <4>2. w.tasks \in Seq(Task)
          BY <1>2 DEF Progress
        <4>3. t \in Task /\ rest \in Seq(Task) /\ Range(w.tasks) = {t} \cup Range(rest)
          BY <3>2, <4>2, HeadTailRange
        <4>4. sub \in Seq(Task)
          <5>1. Ready(t, base, w.entered, Due(base, w))
            BY <1>2, <3>2, HeadIsReady
          <5> HIDE DEF t
          <5>2. PassesOn(t, sub, base, w.entered, Due(base, w))
            BY <5>1, <4>3, TaskFields, DownPassesOn, UpPassesOn, RegionsPassOn,
               BackPassesOn, TargetsPassOn
          <5> QED  BY <5>2 DEF PassesOn
        <4> HIDE DEF t, rest, v
        <4>5. Leads(t, h, n) => n \in Entering(t) \/ \E u \in Range(sub) : Leads(u, h, n)
          BY <4>3, LeadsOn
        <4> HIDE DEF sub
        <4>6. Range(v.tasks) = Range(sub) \cup Range(rest)
          BY <4>1, <4>3, <4>4, RangeConcat
        <4>7. OnItsWay(v)
          BY <1>2, <4>1, <4>3, <4>5, <4>6
        <4> QED  BY <4>7 DEF v
      <3> QED  BY <3>1, <3>2
    <2> QED  BY <2>1, <2>2 DEF Sound
  <1>3. \A w \in S : Perform(hist)[w] \in S
    BY <1>2
  <1> HIDE DEF S
  <1>4. EntryClosure(tasks, hist) \in S
    BY <1>1, <1>3, EntryInduct, Zenon
  <1>5. OnItsWay(EntryClosure(tasks, hist))
    BY <1>4 DEF S
  <1>6. Range(EntryClosure(tasks, hist).tasks) = {}
    BY RangeFacts DEF Ends
  <1> QED  BY <1>5, <1>6
=============================================================================
