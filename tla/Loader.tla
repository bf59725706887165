------------------------------- MODULE Loader -------------------------------
(***************************************************************************)
(* The schema loader: which documents it accepts (gates 1 and 2 of         *)
(* docs/schema-subset.md) and the chart it makes of them, with document    *)
(* order, resolved targets and numbered callsites.                         *)
(*                                                                         *)
(* A document is the sequence of its state objects, a parent before its    *)
(* children and siblings in the order of their keys; the first is the      *)
(* machine.  A field that is not there is Absent, an empty string is "".   *)
(* JSON tokens, parameters and paths of error messages are left out: of an *)
(* object that the parser refuses, `extra` says why.                       *)
(***************************************************************************)
EXTENDS Naturals, Sequences, FiniteSets, SequencesExt

CONSTANT Pointer  \* what the nodes of a chart are known by: names that say
                  \* nothing of key or place, enough for every document

ASSUME PointerAssumption ==
    Pointer \in Seq(STRING) /\ IsInjective(Pointer) /\ "none" \notin Range(Pointer)

Absent == "absent"

\* The forms of a target: "#a.b", ".a.b" and "a"; none where it is absent or "".
NoTarget   == [form |-> "none", path |-> <<>>]
Abs(path)  == [form |-> "#", path |-> path]
Rel(path)  == [form |-> ".", path |-> path]
Sibling(k) == [form |-> "key", path |-> <<k>>]

\* A state object with nothing in it, and an edge of one.
Plain == [up |-> 0, key |-> "", extra |-> "none", id |-> Absent, type |-> Absent,
          initial |-> Absent, history |-> Absent, target |-> NoTarget,
          entry |-> <<>>, exit |-> <<>>, on |-> <<>>, after |-> <<>>,
          always |-> <<>>, invoke |-> <<>>]
Transition(desc, target, guard, acts) ==
    [desc |-> desc, target |-> target, guard |-> guard, acts |-> acts]
To(desc, target) == Transition(desc, target, Absent, <<>>)
Invoke(id, src, onDone, onError) ==
    [id |-> id, src |-> src, onDone |-> onDone, onError |-> onError]

\* What may be read of a file: anything that is a tree of such objects.
Targets      == {NoTarget} \cup [form : {"#", ".", "key"}, path : Seq(STRING)]
EdgeObject   == [desc : STRING, target : Targets, guard : STRING, acts : Seq(STRING)]
InvokeObject == [id : STRING, src : STRING,
                 onDone : Seq(EdgeObject), onError : Seq(EdgeObject)]
StateObject  == [up : Nat, key : STRING, extra : STRING, id : STRING, type : STRING,
                 initial : STRING, history : STRING, target : Targets,
                 entry : Seq(STRING), exit : Seq(STRING), on : Seq(EdgeObject),
                 after : Seq(EdgeObject), always : Seq(EdgeObject),
                 invoke : Seq(InvokeObject)]
IsDocument(doc) ==
    /\ doc \in Seq(StateObject) /\ Len(doc) \in 1..Len(Pointer)
    /\ doc[1].up = 0 /\ \A n \in 2..Len(doc) : doc[n].up \in 1..(n - 1)

-----------------------------------------------------------------------------
(***************************************************************************)
(* The tree.                                                               *)
(***************************************************************************)
Children(doc, n) ==
    FlattenSeq([c \in DOMAIN doc |-> IF doc[c].up = n THEN <<c>> ELSE <<>>])

Key(doc, n) == IF n = 1 THEN doc[1].id ELSE doc[n].key

\* The dotted id, as the keys it joins: nothing for the root.
Id(doc) == LET id[n \in DOMAIN doc] ==
                  IF n = 1 THEN <<>> ELSE Append(id[doc[n].up], doc[n].key)
           IN  id

KindOf(doc, n) ==
    CASE doc[n].type \in {"parallel", "final"} -> doc[n].type
      [] doc[n].type = "history" ->
            IF doc[n].history = Absent THEN "shallow" ELSE doc[n].history
      [] doc[n].type = Absent -> IF Children(doc, n) = <<>> THEN "atomic" ELSE "compound"
      [] OTHER                -> "unknown"

IsHistory(doc, n) == doc[n].type = "history"

\* Depth first: the order in which every later pass visits the nodes.
DocumentOrder(doc) ==
    LET walk[n \in DOMAIN doc] ==
            LET kids == Children(doc, n)
            IN  <<n>> \o FlattenSeq([i \in DOMAIN kids |-> walk[kids[i]]])
    IN  walk[1]

FirstOf(named) == IF named = {} THEN 0 ELSE Min(named)

\* Wrong: any state of that key will do.
FindAnywhere(doc, n, key) == FirstOf({c \in DOMAIN doc : doc[c].key = key})

\* The first child with that key, 0 if there is none.
FindChild(doc, n, key) ==
    FirstOf({c \in DOMAIN doc : doc[c].up = n /\ doc[c].key = key})

-----------------------------------------------------------------------------
(***************************************************************************)
(* Edges and targets.                                                      *)
(***************************************************************************)
\* An `on` key may be empty: its edge has no event then, as an `always` one.
Edge(n, via, event, e) ==
    [source |-> n, via |-> IF via = "on" /\ event = "" THEN "always" ELSE via,
     event |-> event, target |-> e.target, guard |-> e.guard, acts |-> e.acts]

\* The transitions of a node, in the fixed order.
Transitions(doc, n) ==
    LET edges(via, list) == [i \in DOMAIN list |-> Edge(n, via, list[i].desc, list[i])]
    IN  edges("on", doc[n].on) \o edges("after", doc[n].after)
                               \o edges("always", doc[n].always)

\* The edges of its invokes, onDone before onError.
InvokeEdges(doc, n) ==
    LET edges(iv, via, list) == [i \in DOMAIN list |-> Edge(n, via, iv.id, list[i])]
    IN  FlattenSeq([i \in DOMAIN doc[n].invoke |->
            LET iv == doc[n].invoke[i]
            IN  edges(iv, "done", iv.onDone) \o edges(iv, "error", iv.onError)])

NodeEdges(doc, n) == Transitions(doc, n) \o InvokeEdges(doc, n)

\* "#id": the one node with that key or that dotted id.
ResolveAbsolute(doc, path) ==
    LET named == {n \in DOMAIN doc : <<Key(doc, n)>> = path \/ Id(doc)[n] = path}
    IN  IF path # <<>> /\ Cardinality(named) = 1 THEN CHOOSE n \in named : TRUE ELSE 0

\* ".a.b": down from the source, child by child.
ResolveRelative(doc, src, path) ==
    LET at[i \in 0..Len(path)] ==
            IF i = 0 THEN src
            ELSE IF at[i - 1] = 0 THEN 0 ELSE FindChild(doc, at[i - 1], path[i])
    IN  IF path = <<>> THEN 0 ELSE at[Len(path)]

\* The node a target names, 0 if it names none or several.
ResolveTarget(doc, src, target) ==
    CASE target.form = "#"   -> ResolveAbsolute(doc, target.path)
      [] target.form = "."   -> ResolveRelative(doc, src, target.path)
      [] target.form = "key" -> IF src = 1 THEN 0
                                ELSE FindChild(doc, doc[src].up, target.path[1])

Resolves(doc, src, target) == target = NoTarget \/ ResolveTarget(doc, src, target) # 0

-----------------------------------------------------------------------------
(***************************************************************************)
(* What the two gates refuse, node by node.                                *)
(***************************************************************************)
\* Of another JSON type than the field takes.
Malformed(doc, n) == doc[n].extra = "malformed"

UnknownField(doc, n) == \/ doc[n].extra = "unknown"
                        \/ doc[n].extra = "rootOnly" /\ n # 1

BadId(doc, n) == IF n = 1 THEN doc[1].id \in {Absent, ""}
                 ELSE doc[n].id \notin {Absent, doc[n].key}

BadInitial(doc, n) == KindOf(doc, n) = "compound"
                      /\ FindChild(doc, n, doc[n].initial) = 0

BadHistory(doc, n) ==
    IF IsHistory(doc, n)
    THEN \/ n = 1 \/ KindOf(doc, doc[n].up) \notin {"compound", "parallel"}
         \/ KindOf(doc, n) \notin {"shallow", "deep"}
    ELSE doc[n].history # Absent

\* A namespace wildcard such as "error.*"; an empty or overflowing delay.
Wildcards == {"error.*"}
Overflows == {"99999999999999999999"}
BadDescriptor(doc, n) ==
    \/ \E i \in DOMAIN doc[n].on : doc[n].on[i].desc \in Wildcards
    \/ \E i \in DOMAIN doc[n].after : doc[n].after[i].desc \in {""} \cup Overflows

BadInvoke(doc, n) == \E i \in DOMAIN doc[n].invoke :
    doc[n].invoke[i].id \in {Absent, ""} \/ doc[n].invoke[i].src \in {Absent, ""}

BadAction(acts) == "" \in Range(acts)
BadBehavior(doc, n) ==
    \/ BadAction(doc[n].entry) \/ BadAction(doc[n].exit)
    \/ \E e \in Range(NodeEdges(doc, n)) : BadAction(e.acts) \/ e.guard = ""

BadTarget(doc, n) ==
    \/ \E e \in Range(NodeEdges(doc, n)) : ~Resolves(doc, n, e.target)
    \/ IsHistory(doc, n) /\ ~Resolves(doc, n, doc[n].target)

Accepts(doc) == \A n \in DOMAIN doc :
    /\ ~Malformed(doc, n) /\ ~UnknownField(doc, n)
    /\ ~BadId(doc, n) /\ KindOf(doc, n) # "unknown"
    /\ ~BadInitial(doc, n) /\ ~BadHistory(doc, n) /\ ~BadDescriptor(doc, n)
    /\ ~BadInvoke(doc, n) /\ ~BadBehavior(doc, n) /\ ~BadTarget(doc, n)

-----------------------------------------------------------------------------
(***************************************************************************)
(* The definition made of an accepted document.                            *)
(***************************************************************************)
\* Nodes are pointers.
PointerTo(n) == IF n = 0 THEN "none" ELSE Pointer[n]

\* As Statechart takes it.
Chart(doc) ==
    LET order    == DocumentOrder(doc)
        edges    == FlattenSeq([i \in DOMAIN order |-> NodeEdges(doc, order[i])])
        compound == {n \in DOMAIN doc : KindOf(doc, n) = "compound"}
        default  == {n \in DOMAIN doc : IsHistory(doc, n) /\ doc[n].target # NoTarget}
        goal(n)  == IF n \in compound THEN FindChild(doc, n, doc[n].initial)
                                      ELSE ResolveTarget(doc, n, doc[n].target)
        node(p)  == CHOOSE n \in DOMAIN doc : Pointer[n] = p
    IN  [nodes   |-> [i \in DOMAIN order |-> Pointer[order[i]]],
         kind    |-> [p \in {Pointer[n] : n \in DOMAIN doc} |-> KindOf(doc, node(p))],
         parent  |-> [p \in {Pointer[n] : n \in DOMAIN doc} |->
                         PointerTo(doc[node(p)].up)],
         initial |-> [p \in {Pointer[n] : n \in compound \cup default} |->
                         Pointer[goal(node(p))]],
         edges   |-> [i \in DOMAIN edges |->
                       [source |-> Pointer[edges[i].source],
                        event |-> <<edges[i].via, edges[i].event>>,
                        guarded |-> edges[i].guard # Absent,
                        target |-> IF edges[i].target = NoTarget THEN "none"
                                   ELSE Pointer[ResolveTarget(doc, edges[i].source,
                                                              edges[i].target)]]]]

\* A callsite: what is called, for which edge; for entry and exit there is none.
At(n, type)    == [type |-> type, source |-> n, via |-> "none", event |-> ""]
AtEdge(e, type) == [type |-> type, source |-> e.source, via |-> e.via, event |-> e.event]

Acts(edges) == FlattenSeq([i \in DOMAIN edges |->
                   [k \in DOMAIN edges[i].acts |-> AtEdge(edges[i], edges[i].acts[k])]])

\* assignCallsites: actions and guards by number, each counted for itself.
ActionCallsites(doc) ==
    LET order == DocumentOrder(doc)
        plain(n, list) == [i \in DOMAIN list |-> At(n, list[i])]
    IN  FlattenSeq([i \in DOMAIN order |->
            LET n == order[i]
            IN  plain(n, doc[n].entry) \o Acts(Transitions(doc, n))
                \o plain(n, doc[n].exit) \o Acts(InvokeEdges(doc, n))])

GuardCallsites(doc) ==
    LET order == DocumentOrder(doc)
        guards(edges) == FlattenSeq([i \in DOMAIN edges |->
                             IF edges[i].guard = Absent THEN <<>>
                             ELSE <<AtEdge(edges[i], edges[i].guard)>>])
    IN  FlattenSeq([i \in DOMAIN order |-> guards(NodeEdges(doc, order[i]))])
=============================================================================
