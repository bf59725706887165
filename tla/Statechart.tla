----------------------------- MODULE Statechart -----------------------------
(***************************************************************************)
(* The pure core of the transition algorithm (transition.go and the tree   *)
(* of definition.go): ancestors, domains, exit and entry sets, and the     *)
(* selection of transitions with parallel preemption.                      *)
(*                                                                         *)
(* A chart is given as data.  Nodes lists the state nodes in document      *)
(* order (the depth-first pre-order of schema.assignDocOrder), so a node's *)
(* place in it is its DocOrder.  Edges lists the transitions of the nodes, *)
(* in the document order of their sources and, within one, in the order in *)
(* which matchAtNode tries them (on, after, always, then invoke outcomes). *)
(* An `after` or invoke edge is an edge on the descriptor of its event.    *)
(***************************************************************************)
EXTENDS Naturals, Sequences, FiniteSets, SequencesExt

CONSTANTS
    Nodes,      \* the state nodes, in document order
    Kind,       \* node -> one of Kinds
    Parent,     \* node -> its parent, NoNode for the root
    Initial,    \* compound node -> its initial child, history node -> its
                \* default, if it has one
    Edges,      \* the transitions: source, event, target, guarded
    MaxTasks    \* bound: tasks of one entry; a chart whose defaults do not lead
                \* back to themselves needs only so many

NoNode == "none"
NoEdge == 0

Kinds == {"atomic", "compound", "parallel", "final", "shallow", "deep"}

\* Event descriptors: a host, timer or invoke event, the generated
\* done.state.<id>, the catch-all and the empty descriptor of `always`.
Ext(e)  == <<"ext", e>>
Done(n) == <<"done", n>>
Wild    == <<"*", "*">>
Always  == <<"always", "always">>

Node     == Range(Nodes)
Edge     == DOMAIN Edges
DocOrder == [n \in Node |-> CHOOSE i \in DOMAIN Nodes : Nodes[i] = n]

History == {n \in Node : Kind[n] \in {"shallow", "deep"}}
Root    == Nodes[1]

\* Its ancestors, from the parent to the root, and what lies below a node.
ProperAncestors ==
    LET above[n \in Node] ==
            IF Parent[n] = NoNode THEN {} ELSE {Parent[n]} \cup above[Parent[n]]
    IN  [n \in Node |-> above[n]]

Below == [n \in Node \cup {NoNode} |-> {d \in Node : n \in ProperAncestors[d]}]

WellFormedTree ==
    /\ Nodes \in Seq(Node) /\ Nodes # <<>> /\ IsInjective(Nodes)
    /\ NoNode \notin Node
    /\ Kind \in [Node -> Kinds]
    /\ Parent \in [Node -> Node \cup {NoNode}] /\ Parent[Root] = NoNode
    /\ Root \notin History
    /\ \A n \in Node \ {Root} :
          /\ Parent[n] \in Node /\ DocOrder[Parent[n]] < DocOrder[n]
          /\ Kind[Parent[n]] \in {"compound", "parallel"}
    /\ \A n \in Node : Kind[n] = "compound" =>
          n \in DOMAIN Initial /\ Parent[Initial[n]] = n
    /\ \A n \in DOMAIN Initial : n \in Node /\ Initial[n] \in Node
    \* Depth first: what stands between a node and its parent is below that.
    /\ \A n, m \in Node \ {Root} :
          DocOrder[Parent[n]] < DocOrder[m] /\ DocOrder[m] < DocOrder[n]
          => DocOrder[Parent[n]] <= DocOrder[Parent[m]]

WellFormedEdges ==
    /\ Edges \in Seq(Range(Edges))
    /\ \A t \in Edge : /\ Edges[t].source \in Node \ History
                       /\ Edges[t].target \in Node \cup {NoNode}
    /\ \A t, u \in Edge : t < u => DocOrder[Edges[t].source] <= DocOrder[Edges[u].source]

ASSUME ChartAssumption == WellFormedTree /\ WellFormedEdges
ASSUME TaskAssumption  == MaxTasks \in Nat

-----------------------------------------------------------------------------
(***************************************************************************)
(* The tree.                                                               *)
(***************************************************************************)
\* The first of S in document order.
First(S) == CHOOSE n \in S : \A m \in S : DocOrder[n] <= DocOrder[m]

\* Of nodes that lie above one another, the one furthest down.
Innermost(S) == CHOOSE n \in S : \A m \in S : DocOrder[m] <= DocOrder[n]

IsDescendant(n, anc) == n \in Below[anc]

Children(n) == {c \in Node : Parent[c] = n}

\* Leaves for selection and for the published ActiveStates.
IsAtomic(n) == Kind[n] \in {"atomic", "final"}
Atomic(cfg) == {n \in cfg : IsAtomic(n)}

-----------------------------------------------------------------------------
(***************************************************************************)
(* Domains and exit sets.                                                  *)
(***************************************************************************)
\* The ancestors that can be a domain: those of target that are compound or the
\* root.
Domains(ancestors, target) ==
    {a \in ancestors : /\ Kind[a] = "compound" \/ Parent[a] = NoNode
                       /\ IsDescendant(target, a)}

\* Wrong: the source is an ancestor of itself, so nothing of it is exited.
FindLCCAInternal(source, target) ==
    LET common == Domains({source} \cup ProperAncestors[source], target)
    IN  IF common = {} THEN NoNode ELSE Innermost(common)

\* The least common ancestor that is compound or the root; none for a
\* transition whose source is the root.
FindLCCA(source, target) ==
    LET common == Domains(ProperAncestors[source], target)
    IN  IF common = {} THEN NoNode ELSE Innermost(common)

Targetless(t) == Edges[t].target = NoNode
Targeted      == {t \in Edge : ~Targetless(t)}
Domain == [t \in Edge |-> IF Targetless(t) THEN NoNode
                          ELSE FindLCCA(Edges[t].source, Edges[t].target)]

\* Wrong: only what is below the source is exited.
ExitSetOfSource(cfg, t) ==
    IF Targetless(t) THEN {} ELSE cfg \cap Below[Edges[t].source]

\* What lies below its domain: all that a transition may exit.
Scope == [t \in Edge |-> IF Targetless(t) THEN {} ELSE Below[Domain[t]]]

\* The active states a single transition exits.
ExitSetOf(cfg, t) == cfg \cap Scope[t]

\* Charts whose targeted transitions neither leave nor target the root, so that
\* each has a domain; whose history states default to what is below their
\* parents; and whose history states have a default and one path to restore.
\* The loader does not ask for any of these.
RootUntouched  == \A t \in Targeted : Edges[t].source # Root /\ Edges[t].target # Root
DefaultsAtHome == \A h \in History \cap DOMAIN Initial : Initial[h] \in Below[Parent[h]]
OnePathHistory ==
    \A h \in History :
        /\ h \in DOMAIN Initial /\ Initial[h] \notin History
        /\ Kind[Parent[h]] = "compound"
        /\ Kind[h] = "deep" => \A n \in Below[Parent[h]] : Kind[n] # "parallel"

\* Nodes below different children of a compound state: never active together.
Exclusive(n, m) ==
    \E c, d \in Node \ {Root} :
        /\ c # d /\ Parent[c] = Parent[d] /\ Kind[Parent[c]] = "compound"
        /\ n \in {c} \cup Below[c] /\ m \in {d} \cup Below[d]

\* Charts whose transitions to a history state leave from below its parent, or
\* from where that is not active: none exits the parent it restores.
RecordsAreCurrent ==
    \A t \in Targeted : Edges[t].target \in History =>
        LET s == Parent[Edges[t].target] IN
        Edges[t].source \in Below[s] \/ Exclusive(Edges[t].source, s)

\* Charts of whose parallel states a region is never in a final state, or all the
\* regions are states whose final descendants are their own children.
FinalsAreOwn ==
    \A p \in Node : Kind[p] = "parallel" =>
        /\ \A r \in Children(p) : Kind[r] # "final"
        /\ \/ \E r \in Children(p) \ History : \A f \in Below[r] : Kind[f] # "final"
           \/ \A r \in Children(p) : /\ r \notin History
                 /\ \A f \in Below[r] : Kind[f] = "final" => Parent[f] = r

ComputeExitSet(cfg, T) == UNION {ExitSetOf(cfg, t) : t \in T}

Conflict(cfg, t, u) == ExitSetOf(cfg, t) \cap ExitSetOf(cfg, u) # {}

-----------------------------------------------------------------------------
(***************************************************************************)
(* Selection.  pass is the set of guarded transitions whose guards hold.   *)
(***************************************************************************)
Passes(t, pass) == Edges[t].guarded => t \in pass

\* The transitions of a node.
Transitions == [s \in Node |-> {t \in Edge : Edges[t].source = s}]

\* The first edge of s on this descriptor whose guard holds.
FirstOn(s, descriptor, pass) ==
    LET firing == {t \in Transitions[s] : Edges[t].event = descriptor /\ Passes(t, pass)}
    IN  IF firing = {} THEN NoEdge
        ELSE CHOOSE t \in firing : \A u \in firing : t <= u

\* An exact match before the catch-all; `always` edges are not looked at.
MatchAtNode(s, event, pass) ==
    LET exact == FirstOn(s, event, pass)
    IN  IF exact # NoEdge THEN exact ELSE FirstOn(s, Wild, pass)

\* The first match for an active leaf, from the leaf outwards.
FirstMatch(leaf, At(_)) ==
    LET matching == {n \in {leaf} \cup ProperAncestors[leaf] : At(n) # NoEdge}
    IN  IF matching = {} THEN NoEdge ELSE At(Innermost(matching))

EnabledBy(cfg, At(_)) == {FirstMatch(leaf, At) : leaf \in Atomic(cfg)} \ {NoEdge}

EnabledOn(cfg, event, pass) ==
    LET At(s) == MatchAtNode(s, event, pass) IN EnabledBy(cfg, At)

EnabledEventless(cfg, pass) ==
    LET At(s) == FirstOn(s, Always, pass) IN EnabledBy(cfg, At)

\* Wrong: the earlier transition wins, even over a deeper one.
ResolveEarlier(cfg, kept, t) ==
    IF \E u \in kept : Conflict(cfg, t, u) THEN kept ELSE kept \cup {t}

\* Keep t beside those already kept, in their place or not at all.
Resolve(cfg, kept, t) ==
    LET rivals == {u \in kept : Conflict(cfg, t, u)}
    IN  IF \A u \in rivals : IsDescendant(Edges[t].source, Edges[u].source)
        THEN (kept \ rivals) \cup {t}
        ELSE kept

\* What is kept of the enabled transitions up to each of them: edges are numbered
\* by their sources, then by their places within them.
Kept(cfg) ==
    [enabled \in SUBSET Edge |->
        LET with(t) == [kept \in SUBSET Edge |-> Resolve(cfg, kept, t)]
            upto[t \in 0 .. Len(Edges)] ==
                IF t = 0 THEN {}
                ELSE IF t \in enabled THEN with(t)[upto[t - 1]] ELSE upto[t - 1]
        IN  upto]

RemoveConflicting(cfg, enabled) == Kept(cfg)[enabled][Len(Edges)]

SelectTransitions(cfg, event, pass) ==
    RemoveConflicting(cfg, EnabledOn(cfg, event, pass))
SelectEventless(cfg, pass) ==
    RemoveConflicting(cfg, EnabledEventless(cfg, pass))

-----------------------------------------------------------------------------
(***************************************************************************)
(* Entry sets.  The mutually recursive addDescendantStatesToEnter and      *)
(* addAncestorStatesToEnter, with their loops over regions, recorded       *)
(* states and transitions, run as a stack of tasks over the set of states  *)
(* entered so far; a region is looked at when its turn comes.              *)
(***************************************************************************)
Down(n)       == [do |-> "down", node |-> n, stop |-> NoNode]
Up(n, stop)   == [do |-> "up", node |-> n, stop |-> stop]
Regions(S)    == [do |-> "regions", nodes |-> S, stop |-> NoNode]
Back(S, stop) == [do |-> "back", nodes |-> S, stop |-> stop]
Targets(T)    == [do |-> "targets", edges |-> T]

Task == [do : {"down", "up"}, node : Node, stop : Node \cup {NoNode}]
        \cup [do : {"regions", "back"}, nodes : SUBSET Node, stop : Node \cup {NoNode}]
        \cup [do : {"targets"}, edges : SUBSET Targeted]

DownThenUp(n, stop) == <<Down(n), Up(n, stop)>>

\* What a history pseudo-state stands for: what was recorded, or its default.
Restored(h, hist) ==
    IF hist[h] # {} THEN hist[h] ELSE {Initial[n] : n \in {h} \cap DOMAIN Initial}

\* Wrong: the arguments of IsDescendant are swapped.
HasAncestorIn(n, entered) == n \in entered \/ \E s \in entered : IsDescendant(n, s)

\* Whether n or a descendant of n has been entered.
HasDescendantIn(n, entered) == n \in entered \/ Below[n] \cap entered # {}

\* The tasks one task leads to; a loop does its first and leaves the others.
Subtasks(t, entered, hist) ==
    CASE t.do = "targets" ->
            IF t.edges = {} THEN <<>>
            ELSE LET e == CHOOSE e \in t.edges : \A u \in t.edges : e <= u
                 IN  DownThenUp(Edges[e].target, Domain[e]) \o <<Targets(t.edges \ {e})>>
      [] t.do = "regions" ->
            IF t.nodes = {} THEN <<>>
            ELSE LET r == First(t.nodes)
                 IN  (IF HasDescendantIn(r, entered) THEN <<>> ELSE <<Down(r)>>)
                     \o <<Regions(t.nodes \ {r})>>
      [] t.do = "back" ->
            IF t.nodes = {} THEN <<>>
            ELSE LET n == First(t.nodes)
                 IN  DownThenUp(n, t.stop) \o <<Back(t.nodes \ {n}, t.stop)>>
      [] t.do = "up" ->
            LET p == Parent[t.node]
            IN  IF p \in {NoNode, t.stop} THEN <<>>
                ELSE (IF Kind[p] = "parallel" THEN <<Regions(Children(p))>> ELSE <<>>)
                     \o <<Up(p, t.stop)>>
      [] t.do = "down" ->
            CASE t.node \in History ->
                    <<Back(Restored(t.node, hist), Parent[t.node])>>
              [] Kind[t.node] = "compound" -> DownThenUp(Initial[t.node], t.node)
              [] Kind[t.node] = "parallel" -> <<Regions(Children(t.node))>>
              [] OTHER                     -> <<>>

\* The state one task enters itself.
Entering(t) ==
    CASE t.do = "down" -> {t.node} \ History
      [] t.do = "up"   -> {Parent[t.node]} \ {NoNode, t.stop}
      [] OTHER         -> {}

\* The tasks that are left to do, and what has been entered so far.
Progress == [tasks : Seq(Task), entered : SUBSET Node]

\* One task is done; those it leads to come before the others.
Perform(hist) ==
    [w \in Progress |->
        IF w.tasks = <<>> THEN w
        ELSE LET t == Head(w.tasks)
                 entered == w.entered \cup Entering(t)
             IN  [tasks   |-> Subtasks(t, entered, hist) \o Tail(w.tasks),
                  entered |-> entered]]

Performed(tasks, hist) ==
    LET step == Perform(hist)
        after[k \in 0 .. MaxTasks] ==
            IF k = 0 THEN [tasks |-> tasks, entered |-> {}] ELSE step[after[k - 1]]
    IN  after

EntryClosure(tasks, hist) == Performed(tasks, hist)[MaxTasks]

\* The states that the transitions T enter, given the recorded history: those
\* entered when no task is left.
ComputeEntrySet(T, hist) ==
    EntryClosure(<<Targets(T \cap Targeted)>>, hist)

InitialEntry(hist) == EntryClosure(<<Down(Root)>>, hist)

\* An entry that ends; the code recurses on one that does not.
Ends(entry) == entry.tasks = <<>>
=============================================================================
