------------------------------ MODULE MCEngine ------------------------------
(***************************************************************************)
(* Charts on which TLC runs the engine.  Each is one the loader accepts.   *)
(***************************************************************************)
EXTENDS Engine

\* Tables are written by value: kind -> nodes, parent -> children.
Table(rows) == [n \in UNION {rows[k] : k \in DOMAIN rows} |->
                   CHOOSE k \in DOMAIN rows : n \in rows[k]]

T(source, event, target)  == [source |-> source, event |-> event, target |-> target,
                              guarded |-> FALSE]
G(source, event, target)  == [source |-> source, event |-> event, target |-> target,
                              guarded |-> TRUE]
E == Ext("E")
F == Ext("F")

(***************************************************************************)
(* A workflow with everything: a compound state with both kinds of history,*)
(* a parallel state with two regions, transitions within, across and out   *)
(* of the regions, a parallel state within a region of another with        *)
(* rival transitions at four depths, always, done.state, the catch-all, an *)
(* always cycle that its guards may keep turning, and a final state.       *)
(***************************************************************************)
WorkNodes == <<"root", "idle", "work", "a", "b", "b1", "b2", "hs", "hd",
               "p", "r1", "x1", "x2", "f1", "r2", "y1", "y2", "f2", "n",
               "n1", "q", "q1", "u1", "v1", "q2", "u2", "v2", "n2", "w",
               "z", "end">>
WorkKind == Table([compound |-> {"root", "work", "b", "r1", "r2", "n1",
                                 "q1", "q2", "n2"},
                   atomic |-> {"idle", "a", "b1", "b2", "x1", "x2", "y1",
                               "y2", "u1", "u2", "w", "z"},
                   shallow |-> {"hs"},
                   deep |-> {"hd"},
                   parallel |-> {"p", "n", "q"},
                   final |-> {"f1", "f2", "v1", "v2", "end"}])
WorkParent == Table([none |-> {"root"},
                     root |-> {"idle", "work", "p", "n", "end"},
                     work |-> {"a", "b", "hs", "hd"},
                     b |-> {"b1", "b2"},
                     p |-> {"r1", "r2"},
                     r1 |-> {"x1", "x2", "f1"},
                     r2 |-> {"y1", "y2", "f2"},
                     n |-> {"n1", "n2"},
                     n1 |-> {"q"},
                     q |-> {"q1", "q2"},
                     q1 |-> {"u1", "v1"},
                     q2 |-> {"u2", "v2"},
                     n2 |-> {"w", "z"}])
WorkInitial == [root |-> "idle", work |-> "a", b |-> "b1", hs |-> "a",
                hd |-> "a", r1 |-> "x1", r2 |-> "y1", n1 |-> "q",
                q1 |-> "u1", q2 |-> "u2", n2 |-> "w"]

WorkEdges == <<
    T("root", Ext("G"), NoNode),
    T("idle", E, "work"), T("idle", F, "p"), T("idle", Ext("H"), "n"),
    T("idle", Ext("G"), "end"),
    T("work", F, "p"), T("work", Ext("H"), "b2"),
    T("a", E, "b"), G("a", Always, "b2"),
    T("b1", E, "b2"), G("b1", Always, "b2"), T("b1", Wild, NoNode),
    G("b2", Always, "b1"),
    T("p", Ext("H"), "hs"), T("p", Ext("D"), "hd"), T("p", Done("p"), "idle"),
    T("r1", Done("r1"), NoNode),
    T("x1", E, "x2"), T("x1", F, "r1"), T("x1", Ext("G"), "y2"),
    T("x2", E, "f1"),
    G("r2", E, "idle"),
    T("y1", E, "y2"), T("y1", F, "idle"),
    T("y2", F, "f2"),
    T("n", F, "idle"),
    T("n1", E, "idle"), T("n1", F, "n1"),
    T("q", Done("q"), "work"), G("q", E, "q"),
    T("q1", E, "v2"),
    G("u1", E, "v1"), T("u1", F, "u2"),
    T("u2", E, "v2"),
    T("w", E, "z"), G("w", F, "idle") >>

(***************************************************************************)
(* A chart on which the engine departs from its documents.                 *)
(***************************************************************************)
\* A parallel root is the domain of its regions' own transitions.
RootParallelNodes == <<"root", "r1", "x1", "x2", "r2", "y1", "y2">>
RootParallelKind == Table([parallel |-> {"root"},
                           compound |-> {"r1", "r2"},
                           atomic |-> {"x1", "x2", "y1", "y2"}])
RootParallelParent == Table([none |-> {"root"},
                             root |-> {"r1", "r2"},
                             r1 |-> {"x1", "x2"},
                             r2 |-> {"y1", "y2"}])
RootParallelInitial == [r1 |-> "x1", r2 |-> "y1"]
RootParallelEdges == <<
    T("r1", F, "r1"), T("x1", E, "x2"), T("y1", E, "y2") >>

\* The charts are among those that EngineProofs speaks of.
ASSUME /\ RootUntouched /\ DefaultsAtHome /\ OnePathHistory
       /\ RecordsAreCurrent /\ FinalsAreOwn
=============================================================================
