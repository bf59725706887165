---------------------------- MODULE EngineProofs ----------------------------
(***************************************************************************)
(* What the engine keeps true on every chart, for any external events and  *)
(* any answers of the guards.                                              *)
(***************************************************************************)
EXTENDS Engine, EntryProofs, FiniteSetTheorems

\* What a history state has recorded of what was active below its parent.
RecordOf(h, active) ==
    IF Kind[h] = "deep" THEN Atomic(active) \cap Below[Parent[h]]
                        ELSE Children(Parent[h]) \cap active

\* The configuration and the guards that are looked at.
ConfigurationInv ==
    /\ cfg \in SUBSET (Node \ History)
    /\ status = "Starting" => cfg = {}
    /\ pass \in SUBSET Guards(cfg)

\* What is recorded for a history state is what was active below its parent when
\* that was last exited: neither more, nor what was active before or since.
HistoryRecords ==
    /\ hist \in [History -> SUBSET Node] /\ left \in [Remembered -> SUBSET Node]
    /\ \A h \in History : hist[h] = RecordOf(h, left[Parent[h]])

\* Eventless microsteps in a row are counted, up to the limit.
LoopInv ==
    /\ alwaysRun \in 0 .. AlwaysLimit
    /\ status \in {"Starting", "Running"} \cup Terminal

EngineInv == ConfigurationInv /\ HistoryRecords /\ LoopInv

-----------------------------------------------------------------------------
(***************************************************************************)
(* The microsteps.                                                         *)
(***************************************************************************)
\* What is selected: transitions at or above active nodes, no two in conflict.
Selected(T) ==
    /\ T \in SUBSET Edge
    /\ \A t, u \in T : t # u => ~Conflict(cfg, t, u)
    /\ \A t \in T : \E leaf \in cfg : leaf \in {Edges[t].source} \cup Below[Edges[t].source]

LEMMA SelectionFacts ==
    ASSUME cfg \in SUBSET Node, NEW event, NEW answers
    PROVE  /\ Selected(SelectTransitions(cfg, event, answers))
           /\ Selected(SelectEventless(cfg, answers))
           /\ JustChoice(EnabledOn(cfg, event, answers), SelectTransitions(cfg, event, answers))
           /\ JustChoice(EnabledEventless(cfg, answers), SelectEventless(cfg, answers))
  <1>1. ASSUME NEW E, Enabled(cfg, E)
        PROVE  Selected(RemoveConflicting(cfg, E)) /\ JustChoice(E, RemoveConflicting(cfg, E))
    <2> DEFINE kept == RemoveConflicting(cfg, E)
    <2>1. /\ kept \subseteq E
          /\ \A t, u \in kept : t # u => ~Conflict(cfg, t, u)
          /\ \A t \in E \ kept : \E u \in kept : Outdone(cfg, t, u)
      BY <1>1, KeptIsJust
    <2>2. /\ E \subseteq Edge
          /\ \A t \in E : \E leaf \in cfg : leaf \in {Edges[t].source} \cup Below[Edges[t].source]
      BY <1>1 DEF Enabled
    <2> HIDE DEF kept
    <2>3. JustChoice(E, kept)
      BY <2>1 DEF JustChoice, Outdone
    <2>4. Selected(kept)
      BY <2>1, <2>2 DEF Selected
    <2> QED  BY <2>3, <2>4 DEF kept
  <1> QED
    BY <1>1, EnabledOnFacts, EnabledEventlessFacts DEF SelectTransitions, SelectEventless

\* Restoring what has been recorded, or a default, keeps to the tree.
LEMMA RestoredFacts ==
    ASSUME EngineInv
    PROVE  /\ RestoresWithin(Node, hist)
           /\ DefaultsAtHome => \A B : RestoresWithin(B, hist)
  <1>1. ASSUME NEW h \in History PROVE hist[h] \subseteq Node /\ hist[h] \subseteq Below[Parent[h]]
    <2>1. h \in Node /\ Parent[h] \in Node /\ Parent[h] \in Remembered
      BY HistoryFacts DEF Remembered
    <2>2. hist[h] \in SUBSET Node /\ left[Parent[h]] \in SUBSET Node /\
          hist[h] = RecordOf(h, left[Parent[h]])
      BY <2>1 DEF EngineInv, HistoryRecords
    <2>3. Children(Parent[h]) \subseteq Below[Parent[h]]
      BY <2>1, ChildrenBelow
    <2> QED  BY <2>2, <2>3 DEF RecordOf
  <1>2. \A h \in History : Restored(h, hist) \subseteq Node
    BY <1>1, InitialFacts DEF Restored
  <1>3. ASSUME DefaultsAtHome, NEW h \in History PROVE Restored(h, hist) \subseteq Below[Parent[h]]
    BY <1>1, <1>3 DEF Restored, DefaultsAtHome
  <1> QED  BY <1>2, <1>3 DEF RestoresWithin

LEMMA EntryFacts ==
    ASSUME EngineInv
    PROVE  /\ InitialEntry(hist).entered \in SUBSET (Node \ History)
           /\ \A T \in SUBSET Edge :
                 ComputeEntrySet(T, hist).entered \in SUBSET (Node \ History)
  <1>1. RestoresWithin(Node, hist)
    BY RestoredFacts
  <1>2. InitialEntry(hist).entered \subseteq Node \ History
    BY <1>1, ClosedNode, RootWithin, EntryWithin DEF InitialEntry
  <1>3. \A T \in SUBSET Edge : ComputeEntrySet(T, hist).entered \subseteq Node \ History
    BY <1>1, ClosedNode, TargetsWithin, EntryWithin DEF ComputeEntrySet
  <1> QED  BY <1>2, <1>3

\* What a step can be: a microstep of the first entry or of some transitions, or
\* one that changes neither the configuration nor what is recorded.
Idle ==
    /\ UNCHANGED <<cfg, hist, last, left>>
    /\ pass' \in SUBSET Guards(cfg)
    /\ alwaysRun' = alwaysRun
    /\ status' = status \/ (status = "Running" /\ status' = "Error")

Moves(T, exited, entered) ==
    \E rest, run : run \in 0 .. AlwaysLimit /\ Commit(Apply(T, exited, entered), rest, run)

\* A microstep of the transitions T, whose entry ends.
Moved(T) ==
    /\ status = "Running" /\ Selected(T) /\ Ends(ComputeEntrySet(T, hist))
    /\ Moves(T, ComputeExitSet(cfg, T), ComputeEntrySet(T, hist).entered)

\* The first entry.
Starts ==
    /\ status = "Starting" /\ Ends(InitialEntry(hist))
    /\ Moves({}, {}, InitialEntry(hist).entered)

LEMMA StepCases ==
    ASSUME EngineInv, [Next]_vars
    PROVE  Idle \/ Starts \/ \E T \in SUBSET Edge : Moved(T)
  <1>a. AlwaysLimit \in Nat /\ 0 \in 0 .. AlwaysLimit /\ alwaysRun \in 0 .. AlwaysLimit
    BY LimitAssumption DEF EngineInv, LoopInv
  <1>b. cfg \in SUBSET Node /\ pass \in SUBSET Guards(cfg)
    BY DEF EngineInv, ConfigurationInv
  <1> DEFINE Took == \E T \in SUBSET Edge : Moved(T)
  <1>c. ASSUME status = "Running", NEW T, Selected(T), NEW rest, NEW run \in 0 .. AlwaysLimit, Take(T, rest, run)
        PROVE  Took
    <2>1. /\ Ends(ComputeEntrySet(T, hist))
          /\ Commit(Apply(T, ComputeExitSet(cfg, T), ComputeEntrySet(T, hist).entered), rest, run)
      BY <1>c, Zenon DEF Take
    <2>2. Moved(T)
      BY <1>c, <2>1, Zenon DEF Moves, Moved
    <2> QED  BY <1>c, <2>2, Zenon DEF Selected
  <1>1. CASE Start
    <2>1. /\ Commit(Apply({}, {}, InitialEntry(hist).entered), <<>>, 0)
          /\ Ends(InitialEntry(hist)) /\ status = "Starting"
      BY <1>1, Zenon DEF Start
    <2>2. Starts
      BY <2>1, <1>a, Zenon DEF Moves, Starts
    <2> QED  BY <2>2
  <1> HIDE DEF Took
  <1>2. CASE EventlessStep
    <2>1. /\ alwaysRun < AlwaysLimit /\ status = "Running"
          /\ Take(SelectEventless(cfg, pass), queue, alwaysRun + 1)
      BY <1>2, Zenon DEF EventlessStep
    <2>2. alwaysRun + 1 \in 0 .. AlwaysLimit
      BY <2>1, <1>a
    <2>3. Selected(SelectEventless(cfg, pass))
      BY <1>b, SelectionFacts
    <2>4. Took
      BY <2>1, <2>2, <2>3, <1>c, Zenon
    <2> QED  BY <2>4 DEF Took
  <1>3. CASE InternalStep
    <2>1. status = "Running" /\ Take(SelectTransitions(cfg, Head(queue), pass), Tail(queue), 0)
      BY <1>3, Zenon DEF InternalStep
    <2>2. Selected(SelectTransitions(cfg, Head(queue), pass))
      BY <1>b, SelectionFacts
    <2>3. Took
      BY <2>1, <2>2, <1>a, <1>c, Zenon
    <2> QED  BY <2>3 DEF Took
  <1>4. CASE ExternalStep
    <2>1. status = "Running" /\ Take(SelectTransitions(cfg, pending, pass), <<>>, 0)
      BY <1>4, Zenon DEF ExternalStep
    <2>2. Selected(SelectTransitions(cfg, pending, pass))
      BY <1>b, SelectionFacts
    <2>3. Took
      BY <2>1, <2>2, <1>a, <1>c, Zenon
    <2> QED  BY <2>3 DEF Took
  <1>5. CASE AlwaysLoopExceeded
    BY <1>5, <1>b DEF AlwaysLoopExceeded, Idle
  <1>6. CASE DiscardInternal
    BY <1>6, <1>b DEF DiscardInternal, Idle
  <1>7. CASE DropExternal
    BY <1>7, <1>b DEF DropExternal, Idle
  <1>8. ASSUME NEW e \in External, Offer(e) PROVE Idle
    <2>1. PICK answers \in SUBSET (Guards(cfg) \ Eventless) :
              pass' = (pass \cap Eventless) \cup answers
      BY <1>8 DEF Offer
    <2> QED  BY <1>8, <1>b, <2>1 DEF Offer, Idle
  <1>9. CASE UNCHANGED vars
    BY <1>9, <1>b DEF vars, Idle
  <1> QED
    BY <1>1, <1>2, <1>3, <1>4, <1>5, <1>6, <1>7, <1>8, <1>9 DEF Next, Macrostep, Ended

-----------------------------------------------------------------------------
(***************************************************************************)
(* The events that a microstep raises.                                     *)
(***************************************************************************)
DoneEvent == {Done(n) : n \in Node}

LEMMA DoneEventsType ==
    ASSUME NEW f \in Node, NEW active
    PROVE  DoneEvents(f, active) \in Seq(DoneEvent)
  <1> DEFINE p == Parent[f]
             outer == IF Parent[p] # NoNode /\ Kind[Parent[p]] = "parallel"
                            /\ AllRegionsFinal(Parent[p], active)
                      THEN <<Done(Parent[p])>> ELSE <<>>
  <1>1. CASE p = NoNode \/ p = Root
    BY <1>1, Zenon, EmptySeq DEF DoneEvents
  <1>2. CASE p # NoNode /\ p # Root
    <2>1. p \in Node /\ Parent[p] \in Node
      BY <1>2, ParentFacts
    <2>2. <<Done(p)>> \in Seq(DoneEvent) /\ <<Done(Parent[p])>> \in Seq(DoneEvent)
      BY <2>1 DEF DoneEvent
    <2>3. outer \in Seq(DoneEvent)
      BY <2>2
    <2>4. DoneEvents(f, active) = <<Done(p)>> \o outer
      BY <1>2, Zenon DEF DoneEvents
    <2> HIDE DEF outer, p
    <2> QED  BY <2>2, <2>3, <2>4
  <1> QED  BY <1>1, <1>2

\* What is raised are the events of the final states entered, and no others.
LEMMA RaisedFacts ==
    ASSUME NEW exited, NEW entered \in SUBSET Node
    PROVE  /\ Raised(exited, entered) \in Seq(DoneEvent)
           /\ Range(Raised(exited, entered)) =
                 UNION {Range(DoneEvents(f, Upto(f, exited, entered))) :
                            f \in {n \in entered : Kind[n] = "final"}}
  <1> DEFINE finals == {n \in entered : Kind[n] = "final"}
             events(n) == IF n \in entered /\ Kind[n] = "final"
                          THEN DoneEvents(n, Upto(n, exited, entered)) ELSE <<>>
             b    == Len(Nodes)
             from == CHOOSE from : from = [i \in 0 .. b |->
                        IF i = 0 THEN <<>> ELSE from[i - 1] \o events(Nodes[i])]
             step == [i \in 1 .. b |-> [s \in Seq(DoneEvent) |-> s \o events(Nodes[i])]]
  <1>1. Raised(exited, entered) = from[b]
    BY Zenon DEF Raised
  <1>2. /\ b \in Nat /\ Node = {Nodes[i] : i \in 1 .. b}
        /\ \A i \in 1 .. b : Nodes[i] \in Node
    <2>1. Nodes \in Seq(Node)
      BY ChartAssumption DEF WellFormedTree
    <2>2. b \in Nat /\ DOMAIN Nodes = 1 .. b
      BY <2>1
    <2> QED  BY <2>2 DEF Node, Range
  <1>3. \A n \in Node : events(n) \in Seq(DoneEvent)
    BY DoneEventsType, EmptySeq
  <1> HIDE DEF events
  <1>4. /\ step \in Steps(b, Seq(DoneEvent))
        /\ \A i \in 1 .. b : \A s \in Seq(DoneEvent) : step[i][s] = s \o events(Nodes[i])
    BY <1>2, <1>3 DEF Steps
  <1> HIDE DEF step, b
  <1>5. PICK f \in [0 .. b -> Seq(DoneEvent)] : Stepwise(f, b, <<>>, step)
    <2>1. <<>> \in Seq(DoneEvent)
      OBVIOUS
    <2> QED  BY <1>2, <1>4, <2>1, StepwiseExists, Zenon
  <1>6. /\ f[0] = <<>>
        /\ \A i \in 1 .. b : f[i - 1] \in Seq(DoneEvent) /\ f[i] = f[i - 1] \o events(Nodes[i])
    <2>1. \A i \in 1 .. b : i \in 0 .. b /\ i - 1 \in 0 .. b
      BY <1>2
    <2> QED  BY <1>4, <1>5, <2>1 DEF Stepwise
  <1>7. f = [i \in 0 .. b |-> IF i = 0 THEN <<>> ELSE f[i - 1] \o events(Nodes[i])]
    <2>1. ASSUME NEW i \in 0 .. b
          PROVE  f[i] = IF i = 0 THEN <<>> ELSE f[i - 1] \o events(Nodes[i])
      <3>1. i # 0 => i \in 1 .. b
        BY <1>2
      <3> QED  BY <1>6, <3>1, Zenon
    <2> QED  BY <1>5, <2>1
  <1>8. from = [i \in 0 .. b |-> IF i = 0 THEN <<>> ELSE from[i - 1] \o events(Nodes[i])]
    BY <1>7, Zenon
  <1> HIDE DEF from
  <1> DEFINE R(i) == UNION {Range(events(Nodes[k])) : k \in 1 .. i}
             S == {i \in 0 .. b : from[i] \in Seq(DoneEvent) /\ Range(from[i]) = R(i)}
  <1>9. 0 \in S
    <2>1. from[0] = <<>> /\ 0 \in 0 .. b
      BY <1>2, <1>8
    <2>2. R(0) = {}
      OBVIOUS
    <2>3. from[0] \in Seq(DoneEvent)
      BY <2>1
    <2> HIDE DEF R
    <2> QED  BY <2>1, <2>2, <2>3, RangeFacts, Zenon
  <1>10. ASSUME NEW i \in 0 .. b, i < b, i \in S PROVE i + 1 \in S
    <2> DEFINE e == events(Nodes[i + 1])
    <2>1. i + 1 \in 1 .. b /\ i + 1 \in 0 .. b /\ i + 1 # 0 /\ (i + 1) - 1 = i
      BY <1>2, <1>10
    <2>2. from[i + 1] = from[i] \o e /\ from[i] \in Seq(DoneEvent) /\ e \in Seq(DoneEvent)
      BY <1>2, <1>3, <1>8, <1>10, <2>1
    <2>3. Range(from[i + 1]) = Range(from[i]) \cup Range(e)
      BY <2>2, RangeConcat
    <2>4. R(i + 1) = R(i) \cup Range(e)
      <3>1. 1 .. (i + 1) = (1 .. i) \cup {i + 1}
        BY <1>10
      <3> QED  BY <3>1
    <2>5. from[i + 1] \in Seq(DoneEvent) /\ Range(from[i]) = R(i)
      BY <1>10, <2>2
    <2> HIDE DEF R, e
    <2> QED  BY <2>1, <2>3, <2>4, <2>5
  <1>11. from[b] \in Seq(DoneEvent) /\ Range(from[b]) = R(b)
    <2>1. b \in 0 .. b
      BY <1>2
    <2> HIDE DEF S
    <2>2. b \in S
      BY <1>2, <1>9, <1>10, <2>1, Induct, Zenon
    <2> QED  BY <2>2 DEF S
  <1>12. R(b) = UNION {Range(events(n)) : n \in Node}
    BY <1>2
  <1>13. \A n \in Node : Range(events(n)) = IF n \in finals
                            THEN Range(DoneEvents(n, Upto(n, exited, entered))) ELSE {}
    BY DEF events, Range
  <1> QED  BY <1>1, <1>11, <1>12, <1>13

-----------------------------------------------------------------------------
(***************************************************************************)
(* The invariant.                                                          *)
(***************************************************************************)
LEMMA MoveKeeps ==
    ASSUME EngineInv, NEW T, NEW exited, NEW entered \in SUBSET (Node \ History),
           Moves(T, exited, entered)
    PROVE  EngineInv'
  <1> DEFINE ms == Apply(T, exited, entered)
  <1>1. PICK rest, run : run \in 0 .. AlwaysLimit /\ Commit(ms, rest, run)
    BY DEF Moves
  <1>2. /\ ms.exited = exited /\ ms.entered = entered
        /\ ms.cfg = (cfg \ exited) \cup entered /\ ms.hist = RecordHistory(exited)
    BY DEF Apply
  <1> HIDE DEF ms
  <1>3. /\ cfg' = (cfg \ exited) \cup entered /\ hist' = RecordHistory(exited)
        /\ alwaysRun' = run /\ status' \in {"Done", "Running"}
        /\ pass' \in SUBSET Guards(cfg')
        /\ left' = [s \in Remembered |-> IF s \in exited THEN cfg \cap Below[s] ELSE left[s]]
    BY <1>1, <1>2 DEF Commit
  <1>4. ConfigurationInv'
    BY <1>3 DEF EngineInv, ConfigurationInv, Guards
  <1>5. LoopInv'
    BY <1>1, <1>3 DEF EngineInv, LoopInv, Terminal
  <1>6. HistoryRecords'
    <2>1. /\ cfg \subseteq Node /\ hist \in [History -> SUBSET Node]
          /\ left \in [Remembered -> SUBSET Node]
          /\ \A h \in History : hist[h] = RecordOf(h, left[Parent[h]])
      BY DEF EngineInv, ConfigurationInv, HistoryRecords
    <2>2. left' \in [Remembered -> SUBSET Node]
      BY <1>3, <2>1
    <2>3. hist' \in [History -> SUBSET Node]
      BY <1>3, <2>1 DEF RecordHistory, Recorded, Atomic
    <2>4. ASSUME NEW h \in History PROVE hist'[h] = RecordOf(h, left'[Parent[h]])
      <3>1. h \in Node /\ Parent[h] \in Node /\ Parent[h] \in Remembered
        BY HistoryFacts DEF Remembered
      <3>2. CASE Parent[h] \notin exited
        BY <1>3, <2>1, <3>1, <3>2 DEF RecordHistory
      <3>3. CASE Parent[h] \in exited
        <4>1. hist'[h] = Recorded(h) /\ left'[Parent[h]] = cfg \cap Below[Parent[h]]
          BY <1>3, <3>1, <3>3 DEF RecordHistory
        <4>2. Children(Parent[h]) \subseteq Below[Parent[h]]
          BY <3>1, ChildrenBelow
        <4> QED  BY <4>1, <4>2 DEF Recorded, RecordOf, Atomic
      <3> QED  BY <3>2, <3>3
    <2> QED  BY <2>2, <2>3, <2>4 DEF HistoryRecords, RecordOf, Atomic
  <1> QED  BY <1>4, <1>5, <1>6 DEF EngineInv

LEMMA EngineInvariance == Spec => []EngineInv
  <1>1. Init => EngineInv
    <2> SUFFICES ASSUME Init PROVE EngineInv  OBVIOUS
    <2>1. ConfigurationInv
      BY DEF Init, ConfigurationInv
    <2>2. LoopInv
      BY LimitAssumption DEF Init, LoopInv
    <2>3. HistoryRecords
      <3>1. \A h \in History : Parent[h] \in Remembered
        BY DEF Remembered
      <3> QED  BY <3>1 DEF Init, HistoryRecords, RecordOf, Atomic
    <2> QED  BY <2>1, <2>2, <2>3 DEF EngineInv
  <1>2. EngineInv /\ [Next]_vars => EngineInv'
    <2> SUFFICES ASSUME EngineInv, [Next]_vars PROVE EngineInv'  OBVIOUS
    <2>1. CASE Idle
      BY <2>1 DEF Idle, EngineInv, ConfigurationInv, HistoryRecords, RecordOf, Atomic,
                  LoopInv, Guards, Terminal
    <2>2. CASE Starts
      BY <2>2, EntryFacts, MoveKeeps DEF Starts
    <2>3. ASSUME NEW T \in SUBSET Edge, Moved(T) PROVE EngineInv'
      BY <2>3, EntryFacts, MoveKeeps DEF Moved
    <2> QED  BY <2>1, <2>2, <2>3, StepCases
  <1> QED  BY <1>1, <1>2, PTL DEF Spec

-----------------------------------------------------------------------------
(***************************************************************************)
(* The theorems.                                                           *)
(***************************************************************************)

\* Preemption is just in every configuration a chart can reach, on every event
\* and for `always`: what removeConflictingTransitions keeps can be taken
\* together, and what it drops is outdone by something it keeps, also when the
\* rival it first lost against is preempted later in the pass.
THEOREM PreemptionIsJust == Spec => []JustPreemption
  <1>1. EngineInv => JustPreemption
    <2> SUFFICES ASSUME EngineInv PROVE JustPreemption  OBVIOUS
    <2>1. cfg \in SUBSET Node
      BY DEF EngineInv, ConfigurationInv
    <2> QED  BY <2>1, SelectionFacts DEF JustPreemption
  <1> QED  BY <1>1, EngineInvariance, PTL

\* What recordHistoryInto has recorded for a history state is what was active
\* below its parent when that was last exited, whatever has been entered since.
THEOREM HistoryIsKept == Spec => []HistoryRecords
  BY EngineInvariance, PTL DEF EngineInv

\* The exit sets reach what they must: a transition that has a target exits its
\* source and all that is active below it, whichever other transitions are
\* taken with it.  On charts where none leaves or targets the root.
THEOREM TargetedTransitionsExit ==
    ASSUME RootUntouched PROVE Spec => TargetedExits
  <1>1. ASSUME EngineInv, [Next]_vars, last' # last, NEW t \in last'.taken, ~Targetless(t)
        PROVE  cfg \cap (Below[Edges[t].source] \cup {Edges[t].source}) \subseteq last'.exited
    <2>1. PICK T \in SUBSET Edge : /\ last'.taken = T
                                   /\ last'.exited = ComputeExitSet(cfg, T) \/ T = {}
      <3>1. CASE Idle
        BY <3>1, <1>1 DEF Idle
      <3>2. CASE Starts
        <4>1. last'.taken = {}
          BY <3>2 DEF Starts, Moves, Commit, Apply
        <4> QED  BY <4>1
      <3>3. ASSUME NEW T \in SUBSET Edge, Moved(T)
            PROVE  last'.taken = T /\ last'.exited = ComputeExitSet(cfg, T)
        BY <3>3 DEF Moved, Moves, Commit, Apply
      <3> QED  BY <3>1, <3>2, <3>3, <1>1, StepCases
    <2>2. t \in T /\ t \in Edge /\ t \in Targeted
      BY <1>1, <2>1 DEF Targeted
    <2>3. last'.exited = UNION {cfg \cap Scope[u] : u \in T}
      BY <2>1, <2>2 DEF ComputeExitSet, ExitSetOf
    <2>4. Domain[t] # NoNode /\ Domain[t] \in Node /\ Edges[t].source \in Below[Domain[t]]
      BY <1>1, <2>2, DomainFacts DEF RootUntouched
    <2>5. Edges[t].source \in Scope[t] /\ Below[Edges[t].source] \subseteq Scope[t]
      BY <1>1, <2>2, <2>4, ScopeFacts DEF Scope
    <2> QED  BY <2>2, <2>3, <2>5
  <1>2. EngineInv /\ [Next]_vars =>
            [last' # last => \A t \in last'.taken : ~Targetless(t) =>
                cfg \cap (Below[Edges[t].source] \cup {Edges[t].source})
                    \subseteq last'.exited]_vars
    BY <1>1
  <1> QED  BY <1>2, EngineInvariance, PTL DEF Spec, TargetedExits

\* What a microstep enters was not active or is exited by it, whatever its
\* history states restore.  On charts where no targeted transition leaves or
\* targets the root and history states default to what is below their parents.
THEOREM EntriesAndExitsPair ==
    ASSUME RootUntouched, DefaultsAtHome PROVE Spec => EntryExitPaired
  <1>1. ASSUME EngineInv, [Next]_vars, last' # last
        PROVE  last'.entered \cap (cfg \ last'.exited) = {}
    <2>1. CASE Idle
      BY <2>1, <1>1 DEF Idle
    <2>2. CASE Starts
      BY <2>2, <1>1 DEF EngineInv, ConfigurationInv, Starts
    <2>3. ASSUME NEW T \in SUBSET Edge, Moved(T)
          PROVE  last'.entered \cap (cfg \ last'.exited) = {}
      <3> DEFINE B == UNION {Scope[t] : t \in T}
      <3>1. /\ last'.entered = ComputeEntrySet(T, hist).entered
            /\ last'.exited = ComputeExitSet(cfg, T)
        BY <2>3 DEF Moved, Moves, Commit, Apply
      <3>2. \A t \in T \cap Targeted : Domain[t] # NoNode
        BY DomainFacts DEF RootUntouched, Targeted
      <3>3. Closed(B) /\ <<Targets(T \cap Targeted)>> \in Tasks(B)
        BY <3>2, ClosedScopes, TargetsWithin
      <3>4. RestoresWithin(B, hist)
        BY <1>1, RestoredFacts
      <3>5. ComputeEntrySet(T, hist).entered \subseteq B
        <4> HIDE DEF B
        <4> QED  BY <3>3, <3>4, EntryWithin DEF ComputeEntrySet
      <3>6. ComputeExitSet(cfg, T) = cfg \cap B
        BY DEF ComputeExitSet, ExitSetOf
      <3> QED  BY <3>1, <3>5, <3>6
    <2> QED  BY <2>1, <2>2, <2>3, <1>1, StepCases
  <1>2. EngineInv /\ [Next]_vars =>
            [last'.entered \cap (cfg \ last'.exited) = {} \/ last' = last]_vars
    BY <1>1
  <1> QED  BY <1>2, EngineInvariance, PTL DEF Spec, EntryExitPaired
-----------------------------------------------------------------------------
(***************************************************************************)
(* Legal configurations.                                                   *)
(***************************************************************************)
\* What is active is whole once the engine has started, and a history state has
\* recorded at most one state, none of them a history state.
LegalInv ==
    /\ status # "Starting" => Whole(cfg)
    /\ \A h \in History : hist[h] \cap History = {} /\ \A x, y \in hist[h] : x = y

\* The charts of which the engine keeps that: no transition leaves or targets the
\* root, the root is not parallel, and history states restore one path.
ChartKeepsWhole ==
    RootUntouched /\ DefaultsAtHome /\ OnePathHistory /\ Kind[Root] # "parallel"

\* Where nothing is parallel below a compound state, one leaf is active there.
LEMMA OneLeaf ==
    ASSUME NEW active, Whole(active), NEW s \in Node, Kind[s] = "compound",
           \A n \in Below[s] : Kind[n] # "parallel",
           NEW x \in Atomic(active) \cap Below[s], NEW y \in Atomic(active) \cap Below[s]
    PROVE  x = y
  <1> SUFFICES ASSUME x # y PROVE FALSE  OBVIOUS
  <1>1. /\ active \subseteq Node /\ \A n \in active : ProperAncestors[n] \subseteq active
        /\ Alone(active)
    BY UpwardClosed DEF Whole
  <1>2. /\ x \in Node /\ y \in Node /\ x \in active /\ y \in active
        /\ s \in ProperAncestors[x] /\ s \in ProperAncestors[y]
        /\ Kind[x] \in {"atomic", "final"} /\ Kind[y] \in {"atomic", "final"}
    BY <1>1, BelowFacts DEF Atomic, IsAtomic
  <1>3. x \notin ProperAncestors[y] /\ y \notin ProperAncestors[x]
    BY <1>2, AncestorsEarlier
  <1> DEFINE S == ProperAncestors[x] \cap ProperAncestors[y]
             a == Innermost(S)
  <1>4. S \in SUBSET Node /\ s \in S
    BY <1>2, AncestorFacts
  <1>5. a \in S /\ \A n \in S : DocOrder[n] <= DocOrder[a]
    BY <1>4, InnermostOf
  <1> HIDE DEF a
  <1>6. a \in Node /\ Kind[a] = "compound"
    <2>1. a \in Node /\ Kind[a] \in {"compound", "parallel"}
      BY <1>2, <1>5, AncestorsEarlier
    <2>2. a = s \/ a \in ProperAncestors[s] \/ s \in ProperAncestors[a]
      BY <1>2, <1>5, AncestorsInLine
    <2>3. a \notin ProperAncestors[s]
      BY <1>4, <1>5, AncestorsEarlier, NodeFacts
    <2>4. s \in ProperAncestors[a] => a \in Below[s]
      BY <2>1, BelowFacts
    <2> QED  BY <2>1, <2>2, <2>3, <2>4
  <1>7. PICK c \in {x} \cup ProperAncestors[x] : Parent[c] = a
    BY <1>2, <1>5, ChildToward
  <1>8. PICK d \in {y} \cup ProperAncestors[y] : Parent[d] = a
    BY <1>2, <1>5, ChildToward
  <1>9. c \in active /\ d \in active /\ c \in Node /\ d \in Node
    BY <1>1, <1>2, <1>7, <1>8
  <1>10. c = d
    BY <1>1, <1>6, <1>7, <1>8, <1>9 DEF Alone, Children
  <1>11. c \in S
    BY <1>3, <1>7, <1>8, <1>10
  <1>12. c # Root
    BY <1>6, <1>7, ParentFacts, NodeFacts
  <1>13. DocOrder[a] < DocOrder[c]
    BY <1>7, <1>9, <1>12, ParentFacts
  <1> QED  BY <1>5, <1>6, <1>9, <1>11, <1>13, NodeFacts

LEMMA LegalRestores ==
    ASSUME ChartKeepsWhole, EngineInv, LegalInv PROVE RestoresOnePath(hist)
  <1> SUFFICES ASSUME NEW h \in History
               PROVE  /\ Kind[Parent[h]] = "compound"
                      /\ \E n \in Below[Parent[h]] \ History : Restored(h, hist) = {n}
    BY DEF RestoresOnePath
  <1>1. /\ Kind[Parent[h]] = "compound" /\ h \in DOMAIN Initial /\ Initial[h] \notin History
        /\ Initial[h] \in Below[Parent[h]]
    BY DEF ChartKeepsWhole, OnePathHistory, DefaultsAtHome
  <1>2. Restored(h, hist) \subseteq Below[Parent[h]]
    BY RestoredFacts DEF ChartKeepsWhole, RestoresWithin
  <1>3. CASE hist[h] = {}
    <2>1. Restored(h, hist) = {Initial[h]}
      BY <1>1, <1>3 DEF Restored
    <2> QED  BY <1>1, <2>1
  <1>4. CASE hist[h] # {}
    <2>1. PICK n : n \in hist[h]
      BY <1>4
    <2>2. hist[h] = {n} /\ n \notin History
      BY <2>1 DEF LegalInv
    <2>3. Restored(h, hist) = {n}
      BY <1>4, <2>2 DEF Restored
    <2> QED  BY <1>1, <1>2, <2>2, <2>3
  <1> QED  BY <1>3, <1>4

\* What recordHistoryInto records of a legal configuration.
LEMMA RecordsOne ==
    ASSUME ChartKeepsWhole, EngineInv, LegalInv, status # "Starting", NEW h \in History
    PROVE  Recorded(h) \cap History = {} /\ \A x, y \in Recorded(h) : x = y
  <1>1. Whole(cfg) /\ cfg \subseteq Node \ History
    BY DEF LegalInv, Whole
  <1>2. h \in Node /\ Parent[h] \in Node /\ Kind[Parent[h]] = "compound"
    BY HistoryFacts DEF ChartKeepsWhole, OnePathHistory
  <1>3. Recorded(h) \subseteq cfg
    BY DEF Recorded, Atomic
  <1>4. CASE Kind[h] = "deep"
    <2>1. \A n \in Below[Parent[h]] : Kind[n] # "parallel"
      BY <1>4 DEF ChartKeepsWhole, OnePathHistory
    <2>2. Recorded(h) = Atomic(cfg) \cap Below[Parent[h]]
      BY <1>4 DEF Recorded
    <2> QED  BY <1>1, <1>2, <1>3, <2>1, <2>2, OneLeaf
  <1>5. CASE Kind[h] # "deep"
    BY <1>1, <1>2, <1>3, <1>5 DEF Recorded, Whole, Alone
  <1> QED  BY <1>4, <1>5

\* What is selected in a legal configuration can be taken together.
LEMMA SelectedTogether ==
    ASSUME RootUntouched, Whole(cfg), NEW T, Selected(T) PROVE Together(cfg, T)
  <1>1. \A n \in cfg : ProperAncestors[n] \subseteq cfg
    BY UpwardClosed DEF Whole
  <1>2. T \subseteq Edge /\ cfg \subseteq Node /\ \A t, u \in T : t # u => ~Conflict(cfg, t, u)
    BY DEF Selected, Whole
  <1>3. ASSUME NEW t \in T PROVE Edges[t].source \in cfg
    <2>1. PICK leaf \in cfg : leaf \in {Edges[t].source} \cup Below[Edges[t].source]
      BY DEF Selected
    <2>2. Edges[t].source \in Node
      BY <1>2, EdgeFacts
    <2> QED  BY <1>1, <1>2, <2>1, <2>2, BelowFacts
  <1>4. \A t \in T \cap Targeted : Domain[t] # NoNode
    BY DomainFacts DEF RootUntouched, Targeted
  <1> QED  BY <1>2, <1>3, <1>4 DEF Together

LEMMA MoveKeepsLegal ==
    ASSUME ChartKeepsWhole, EngineInv, LegalInv, NEW T, NEW exited, NEW entered,
           Moves(T, exited, entered), Whole((cfg \ exited) \cup entered),
           exited # {} => status # "Starting"
    PROVE  LegalInv'
  <1>1. cfg' = (cfg \ exited) \cup entered /\ hist' = RecordHistory(exited)
    BY DEF Moves, Commit, Apply
  <1>2. ASSUME NEW h \in History
        PROVE  hist'[h] \cap History = {} /\ \A x, y \in hist'[h] : x = y
    <2>1. CASE Parent[h] \in exited
      BY <1>1, <2>1, RecordsOne DEF RecordHistory
    <2>2. CASE Parent[h] \notin exited
      BY <1>1, <2>2 DEF RecordHistory, LegalInv
    <2> QED  BY <2>1, <2>2
  <1>3. Whole(cfg')
    BY <1>1
  <1> QED  BY <1>2, <1>3 DEF LegalInv, Whole, Alone

LEMMA LegalInvariance ==
    ASSUME ChartKeepsWhole PROVE Spec => []LegalInv
  <1>1. Init => LegalInv
    BY DEF Init, LegalInv
  <1>2. EngineInv /\ LegalInv /\ [Next]_vars => LegalInv'
    <2> SUFFICES ASSUME EngineInv, LegalInv, [Next]_vars PROVE LegalInv'  OBVIOUS
    <2>a. RestoresOnePath(hist)
      BY LegalRestores
    <2>1. CASE Idle
      BY <2>1 DEF Idle, LegalInv, Whole, Alone
    <2>2. CASE Starts
      <3>1. Sound({}, InitialEntry(hist))
        BY <2>a, RootSound, EntrySound DEF InitialEntry
      <3>2. Whole({} \cup InitialEntry(hist).entered)
        BY <3>1, <2>2, EndsWhole DEF Starts
      <3>3. (cfg \ {}) \cup InitialEntry(hist).entered = {} \cup InitialEntry(hist).entered
        BY <2>2 DEF Starts, EngineInv, ConfigurationInv
      <3>4. Whole((cfg \ {}) \cup InitialEntry(hist).entered)
        BY <3>2, <3>3
      <3> QED  BY <2>2, <3>4, MoveKeepsLegal DEF Starts
    <2>3. ASSUME NEW T \in SUBSET Edge, Moved(T) PROVE LegalInv'
      <3> DEFINE base == cfg \ ComputeExitSet(cfg, T)
                 entry == ComputeEntrySet(T, hist)
      <3>1. Whole(cfg) /\ Selected(T) /\ Ends(entry) /\ status # "Starting"
            /\ Moves(T, ComputeExitSet(cfg, T), entry.entered)
        BY <2>3 DEF Moved, LegalInv
      <3>2. Together(cfg, T)
        BY <3>1, SelectedTogether DEF ChartKeepsWhole
      <3>3. Sound(base, [tasks |-> <<Targets(T \cap Targeted)>>, entered |-> {}])
        BY <3>1, <3>2, TargetsSound DEF ChartKeepsWhole
      <3>4. Sound(base, entry)
        <4> HIDE DEF base
        <4> QED  BY <2>a, <3>3, EntrySound DEF ComputeEntrySet
      <3> HIDE DEF entry
      <3>5. Whole(base \cup entry.entered)
        BY <3>1, <3>4, EndsWhole
      <3> QED  BY <3>1, <3>5, MoveKeepsLegal
    <2> QED  BY <2>1, <2>2, <2>3, StepCases
  <1> QED  BY <1>1, <1>2, EngineInvariance, PTL DEF Spec

\* The configuration is one the chart allows, after every microstep and whatever
\* has been exited, restored and entered: an active state's ancestors are active,
\* a compound state has exactly one active child and a parallel one all of its
\* regions.  On charts where no transition leaves or targets the root, the root
\* is not parallel, and history states restore one path.
THEOREM ConfigurationsAreLegal ==
    ASSUME ChartKeepsWhole PROVE Spec => []LegalConfiguration
  <1>1. EngineInv /\ LegalInv => LegalConfiguration
    <2> SUFFICES ASSUME EngineInv, LegalInv, status # "Starting"
                 PROVE  /\ Root \in cfg
                        /\ \A n \in cfg \ {Root} : Parent[n] \in cfg
                        /\ \A n \in cfg :
                              /\ Kind[n] = "compound" => Cardinality(Children(n) \cap cfg) = 1
                              /\ Kind[n] = "parallel" => Children(n) \ History \subseteq cfg
      BY DEF LegalConfiguration
    <2>1. Whole(cfg)
      BY DEF LegalInv
    <2>2. ASSUME NEW n \in cfg, Kind[n] = "compound" PROVE Cardinality(Children(n) \cap cfg) = 1
      <3>1. PICK c : c \in Children(n) \cap cfg
        BY <2>1, <2>2 DEF Whole
      <3>2. Children(n) \cap cfg = {c}
        BY <2>1, <2>2, <3>1 DEF Whole, Alone
      <3> QED  BY <3>2, FS_Singleton
    <2> QED  BY <2>1, <2>2 DEF Whole
  <1> QED  BY <1>1, EngineInvariance, LegalInvariance, PTL
-----------------------------------------------------------------------------
(***************************************************************************)
(* What a history state restores.                                          *)
(***************************************************************************)
\* What a state was last exited with was whole.
LeftInv ==
    \A s \in Remembered : left[s] # {} =>
        \E active : Whole(active) /\ s \in active /\ left[s] = active \cap Below[s]

LEMMA LeftInvariance ==
    ASSUME ChartKeepsWhole PROVE Spec => []LeftInv
  <1>1. Init => LeftInv
    BY DEF Init, LeftInv
  <1>2. EngineInv /\ LegalInv /\ LeftInv /\ [Next]_vars => LeftInv'
    <2> SUFFICES ASSUME EngineInv, LegalInv, LeftInv, [Next]_vars,
                        NEW s \in Remembered, left'[s] # {}
                 PROVE  \E active : Whole(active) /\ s \in active
                                    /\ left'[s] = active \cap Below[s]
      BY DEF LeftInv
    <2>1. CASE Idle
      BY <2>1 DEF Idle, LeftInv
    <2>2. CASE Starts
      <3>1. left'[s] = left[s]
        BY <2>2 DEF Starts, Moves, Commit, Apply
      <3> QED  BY <3>1 DEF LeftInv
    <2>3. ASSUME NEW T \in SUBSET Edge, Moved(T)
          PROVE  \E active : Whole(active) /\ s \in active
                             /\ left'[s] = active \cap Below[s]
      <3>1. left'[s] = IF s \in ComputeExitSet(cfg, T) THEN cfg \cap Below[s] ELSE left[s]
        BY <2>3 DEF Moved, Moves, Commit, Apply
      <3>2. Whole(cfg) /\ ComputeExitSet(cfg, T) \subseteq cfg
        BY <2>3 DEF Moved, LegalInv, ComputeExitSet, ExitSetOf
      <3> QED  BY <3>1, <3>2 DEF LeftInv
    <2> QED  BY <2>1, <2>2, <2>3, StepCases
  <1> QED  BY <1>1, <1>2, EngineInvariance, LegalInvariance, PTL DEF Spec

\* Where nothing is parallel below an active compound state, a leaf is active.
LEMMA SomeLeaf ==
    ASSUME NEW active, Whole(active), NEW s \in active, Kind[s] = "compound",
           \A n \in Below[s] : Kind[n] # "parallel"
    PROVE  Atomic(active) \cap Below[s] # {}
  <1> DEFINE S == active \cap Below[s]
             n == Innermost(S)
  <1>1. active \subseteq Node \ History /\ Children(s) \cap active # {}
    BY DEF Whole
  <1>2. S \in SUBSET Node /\ S # {}
    BY <1>1, ChildrenBelow
  <1>3. n \in S /\ \A m \in S : DocOrder[m] <= DocOrder[n]
    BY <1>2, InnermostOf
  <1> HIDE DEF n
  <1>4. Kind[n] # "compound"
    <2> SUFFICES ASSUME Kind[n] = "compound" PROVE FALSE  OBVIOUS
    <2>1. PICK c : c \in Children(n) \cap active
      BY <1>3 DEF Whole
    <2>2. c \in Node /\ n \in Node /\ Parent[c] = n /\ c \in Below[n]
      BY <1>1, <1>3, <2>1, ChildrenBelow DEF Children
    <2>3. c \in S
      BY <1>1, <1>3, <2>1, <2>2, SubtreeFacts DEF Subtree
    <2>4. DocOrder[n] < DocOrder[c]
      BY <2>2, ParentFacts, NodeFacts
    <2> QED  BY <1>3, <2>2, <2>3, <2>4, NodeFacts
  <1>5. Kind[n] \in {"atomic", "final"}
    <2>1. Kind[n] \in Kinds /\ n \notin History /\ n \in Node
      BY <1>1, <1>3, ParentFacts
    <2> QED  BY <2>1, <1>3, <1>4 DEF Kinds, History
  <1> QED  BY <1>3, <1>5 DEF Atomic, IsAtomic

\* The parent of a history state that is a target is not exited.
LEMMA ParentStays ==
    ASSUME ChartKeepsWhole, RecordsAreCurrent, Whole(cfg), NEW T, Selected(T),
           NEW t \in T, ~Targetless(t), Edges[t].target \in History
    PROVE  Parent[Edges[t].target] \notin ComputeExitSet(cfg, T)
  <1> DEFINE h == Edges[t].target
             s == Parent[h]
             src == Edges[t].source
  <1>1. Together(cfg, T)
    BY SelectedTogether DEF ChartKeepsWhole
  <1>2. /\ t \in T \cap Targeted /\ t \in Edge /\ src \in cfg /\ src \in Node
        /\ h \in Node /\ s \in Node /\ h # Root /\ Kind[s] = "compound"
        /\ cfg \subseteq Node
    BY <1>1, EdgeFacts, HistoryFacts, NodeFacts, ParentFacts
       DEF Together, Targeted, ChartKeepsWhole, OnePathHistory, Whole
  <1>3. ComputeExitSet(cfg, T) \subseteq cfg
    BY DEF ComputeExitSet, ExitSetOf
  <1>4. CASE src \in Below[s]
    <2> DEFINE common == Domains(ProperAncestors[src], h)
    <2>1. s \in common
      <3>1. s \in ProperAncestors[src] /\ h \in Below[s]
        BY <1>2, <1>4, BelowFacts, SubtreeFacts
      <3> QED  BY <1>2, <3>1 DEF Domains, IsDescendant
    <2>2. common \in SUBSET Node /\ \A a \in common : a \in ProperAncestors[h]
      <3>1. ProperAncestors[src] \in SUBSET Node
        BY <1>2, AncestorFacts
      <3>2. \A a \in common : a \in ProperAncestors[src] /\ h \in Below[a]
        BY DEF Domains, IsDescendant
      <3> QED  BY <3>1, <3>2, <1>2, BelowFacts
    <2>3. Domain[t] = Innermost(common)
      BY <1>2, <2>1 DEF Domain, FindLCCA
    <2>4. Innermost(common) \in common /\ DocOrder[s] <= DocOrder[Innermost(common)]
      BY <2>1, <2>2, InnermostOf
    <2>5. Domain[t] \in Node /\ Domain[t] \in ProperAncestors[h] /\ DocOrder[s] <= DocOrder[Domain[t]]
      BY <2>2, <2>3, <2>4
    <2>6. ProperAncestors[h] = {s} \cup ProperAncestors[s]
      BY <1>2, AncestorFacts
    <2>7. Domain[t] = s
      BY <2>5, <2>6, <1>2, AncestorsEarlier, NodeFacts
    <2>8. Domain[t] \in cfg \ ComputeExitSet(cfg, T)
      BY <1>1, <1>2, ScopesApart DEF ChartKeepsWhole
    <2> QED  BY <2>7, <2>8
  <1>5. CASE Exclusive(src, s)
    <2>1. PICK c, d \in Node \ {Root} :
              /\ c # d /\ Parent[c] = Parent[d] /\ Kind[Parent[c]] = "compound"
              /\ src \in {c} \cup Below[c] /\ s \in {d} \cup Below[d]
      BY <1>5 DEF Exclusive
    <2>2. \A n \in cfg : ProperAncestors[n] \subseteq cfg
      BY UpwardClosed DEF Whole
    <2>3. c \in cfg
      BY <1>2, <2>1, <2>2, BelowFacts
    <2>4. s \in cfg => d \in cfg
      BY <1>2, <2>1, <2>2, BelowFacts
    <2>5. ~(c \in cfg /\ d \in cfg)
      <3>1. Parent[c] \in Node /\ c \in Children(Parent[c]) /\ d \in Children(Parent[c])
        BY <2>1, ParentFacts DEF Children
      <3> QED  BY <2>1, <3>1 DEF Whole, Alone
    <2> QED  BY <1>3, <2>3, <2>4, <2>5
  <1> QED  BY <1>2, <1>4, <1>5 DEF RecordsAreCurrent

\* A transition to a history state restores its parent as that was last exited:
\* the same child for shallow, the same leaf for deep history, whatever else the
\* microstep enters.  On charts whose configurations stay legal and whose
\* transitions to a history state do not exit its parent.
THEOREM HistoriesRestore ==
    ASSUME ChartKeepsWhole, RecordsAreCurrent PROVE Spec => HistoryRestores
  <1> DEFINE Restores(h) ==
                 left'[Parent[h]] # {} =>
                    IF Kind[h] = "deep"
                    THEN Atomic(cfg' \cap Below[Parent[h]]) = Atomic(left'[Parent[h]])
                    ELSE Children(Parent[h]) \cap cfg' = Children(Parent[h]) \cap left'[Parent[h]]
  <1>1. ASSUME EngineInv, LegalInv, LeftInv, NEW T \in SUBSET Edge, Moved(T), Whole(cfg'),
               NEW t \in T, Edges[t].target \in History
        PROVE  Restores(Edges[t].target)
    <2> DEFINE h == Edges[t].target
               s == Parent[h]
               entry == ComputeEntrySet(T, hist)
               base == cfg \ ComputeExitSet(cfg, T)
    <2> SUFFICES ASSUME left'[s] # {}
                 PROVE  IF Kind[h] = "deep"
                        THEN Atomic(cfg' \cap Below[s]) = Atomic(left'[s])
                        ELSE Children(s) \cap cfg' = Children(s) \cap left'[s]
      OBVIOUS
    <2>1. /\ h \in History /\ h \in Node /\ s \in Node /\ s \in Remembered /\ Kind[s] = "compound"
          /\ Kind[h] = "deep" => \A n \in Below[s] : Kind[n] # "parallel"
      BY <1>1, HistoryFacts DEF Remembered, ChartKeepsWhole, OnePathHistory
    <2>2. t \in T \cap Targeted /\ ~Targetless(t)
      BY <1>1, <2>1, NodeFacts DEF Targeted, Targetless
    <2>3. Whole(cfg) /\ Selected(T) /\ Ends(entry)
      BY <1>1 DEF Moved, LegalInv
    <2>4. /\ cfg' = base \cup entry.entered
          /\ left'[s] = IF s \in ComputeExitSet(cfg, T) THEN cfg \cap Below[s] ELSE left[s]
      BY <1>1, <2>1 DEF Moved, Moves, Commit, Apply
    <2>5. left'[s] = left[s]
      BY <2>1, <2>2, <2>3, <2>4, ParentStays
    <2>6. PICK active : Whole(active) /\ s \in active /\ left[s] = active \cap Below[s]
      BY <1>1, <2>1, <2>5 DEF LeftInv
    <2>7. hist[h] = RecordOf(h, left[s])
      BY <1>1, <2>1 DEF EngineInv, HistoryRecords
    <2>8. Children(s) \subseteq Below[s]
      BY <2>1, ChildrenBelow
    <2>9. hist[h] # {}
      <3>1. CASE Kind[h] = "deep"
        <4>1. Atomic(active) \cap Below[s] # {}
          BY <2>1, <2>6, <3>1, SomeLeaf
        <4> QED  BY <4>1, <2>6, <2>7, <3>1 DEF RecordOf, Atomic
      <3>2. CASE Kind[h] # "deep"
        <4>1. Children(s) \cap active # {}
          BY <2>1, <2>6 DEF Whole
        <4> QED  BY <4>1, <2>6, <2>7, <2>8, <3>2 DEF RecordOf
      <3> QED  BY <3>1, <3>2
    <2>10. PICK n : hist[h] = {n} /\ n \notin History
      BY <1>1, <2>1, <2>9 DEF LegalInv
    <2>11. Restored(h, hist) = {n}
      BY <2>10 DEF Restored
    <2>12. n \in entry.entered
      <3> DEFINE tasks == <<Targets(T \cap Targeted)>>
      <3>1. Sound(base, [tasks |-> tasks, entered |-> {}])
        BY <2>3, SelectedTogether, TargetsSound DEF ChartKeepsWhole
      <3>2. \E u \in Range(tasks) : Leads(u, h, n)
        <4>1. Leads(Targets(T \cap Targeted), h, n)
          BY <2>2 DEF Leads, Targets
        <4>2. Range(tasks) = {Targets(T \cap Targeted)}
          BY RangeFacts
        <4> QED  BY <4>1, <4>2
      <3>3. RestoresOnePath(hist)
        BY <1>1, LegalRestores
      <3>4. entry = EntryClosure(tasks, hist)
        BY DEF ComputeEntrySet
      <3> HIDE DEF tasks, base, entry, h
      <3> QED  BY <2>1, <2>3, <2>10, <2>11, <3>1, <3>2, <3>3, <3>4, RestoredIsEntered
    <2>13. n \in cfg'
      BY <2>4, <2>12
    <2>14. CASE Kind[h] = "deep"
      <3>1. n \in Atomic(active \cap Below[s]) /\ n \in Below[s]
        BY <2>6, <2>7, <2>10, <2>14 DEF RecordOf
      <3>2. Atomic(left'[s]) = {n}
        <4>1. Atomic(left[s]) \cap Below[s] = {n}
          BY <2>7, <2>10, <2>14 DEF RecordOf
        <4> QED  BY <4>1, <2>5, <2>6 DEF Atomic
      <3>3. n \in Atomic(cfg') \cap Below[s]
        BY <2>13, <3>1 DEF Atomic
      <3>4. \A x \in Atomic(cfg') \cap Below[s] : x = n
        BY <1>1, <2>1, <2>14, <3>3, OneLeaf
      <3>5. Atomic(cfg' \cap Below[s]) = {n}
        BY <3>3, <3>4 DEF Atomic
      <3> QED  BY <2>14, <3>2, <3>5
    <2>15. CASE Kind[h] # "deep"
      <3>1. Children(s) \cap left'[s] = {n}
        BY <2>5, <2>7, <2>10, <2>15 DEF RecordOf
      <3>2. Children(s) \cap cfg' = {n}
        BY <1>1, <2>1, <2>13, <3>1 DEF Whole, Alone
      <3> QED  BY <2>15, <3>1, <3>2
    <2> QED  BY <2>14, <2>15
  <1>2. ASSUME EngineInv, LegalInv, LeftInv, LegalInv', [Next]_vars, last' # last,
               NEW t \in last'.taken, Edges[t].target \in History
        PROVE  Restores(Edges[t].target)
    <2> HIDE DEF Restores
    <2>1. CASE Idle
      BY <2>1, <1>2 DEF Idle
    <2>2. CASE Starts
      <3>1. last'.taken = {}
        BY <2>2 DEF Starts, Moves, Commit, Apply
      <3> QED  BY <3>1, <1>2
    <2>3. ASSUME NEW T \in SUBSET Edge, Moved(T) PROVE Restores(Edges[t].target)
      <3>1. last'.taken = T /\ status' # "Starting"
        BY <2>3 DEF Moved, Moves, Commit, Apply
      <3>2. Whole(cfg')
        BY <1>2, <3>1 DEF LegalInv, Whole, Alone
      <3> QED  BY <1>1, <1>2, <2>3, <3>1, <3>2
    <2> QED  BY <2>1, <2>2, <2>3, <1>2, StepCases
  <1>3. EngineInv /\ LegalInv /\ LeftInv /\ LegalInv' /\ [Next]_vars =>
            [last' # last => \A t \in last'.taken : Edges[t].target \in History =>
                LET h == Edges[t].target
                    s == Parent[h]
                IN  left'[s] # {} =>
                      IF Kind[h] = "deep"
                      THEN Atomic(cfg' \cap Below[s]) = Atomic(left'[s])
                      ELSE Children(s) \cap cfg' = Children(s) \cap left'[s]]_vars
    BY <1>2
  <1> QED  BY <1>3, EngineInvariance, LegalInvariance, LeftInvariance, PTL DEF Spec, HistoryRestores
-----------------------------------------------------------------------------
(***************************************************************************)
(* done.state of parallel states.                                          *)
(***************************************************************************)
\* What entering a final state f raises of a parallel state.
LEMMA DoneEventsOf ==
    ASSUME FinalsAreOwn, NEW f \in Node, Kind[f] = "final", NEW active,
           NEW p \in Node \ {Root}, Kind[p] = "parallel"
    PROVE  Done(p) \in Range(DoneEvents(f, active)) <=>
              /\ Parent[f] # NoNode /\ Parent[Parent[f]] = p
              /\ AllRegionsFinal(p, active)
  <1> DEFINE q == Parent[f]
             outer == IF Parent[q] # NoNode /\ Kind[Parent[q]] = "parallel"
                            /\ AllRegionsFinal(Parent[q], active)
                      THEN <<Done(Parent[q])>> ELSE <<>>
  <1>1. CASE q = NoNode \/ q = Root
    <2>1. DoneEvents(f, active) = <<>>
      BY <1>1, Zenon DEF DoneEvents
    <2>2. q = Root => Parent[q] = NoNode /\ p # NoNode
      BY ParentFacts, NodeFacts
    <2> QED  BY <1>1, <2>1, <2>2, RangeFacts
  <1>2. CASE q # NoNode /\ q # Root
    <2>1. q \in Node /\ Parent[q] \in Node /\ Parent[q] # NoNode
      BY <1>2, ParentFacts, NodeFacts
    <2>2. DoneEvents(f, active) = <<Done(q)>> \o outer
      BY <1>2, Zenon DEF DoneEvents
    <2>3. Range(DoneEvents(f, active)) = {Done(q)} \cup Range(outer)
      <3>1. <<Done(q)>> \in Seq(DoneEvent) /\ outer \in Seq(DoneEvent)
        <4>1. <<Done(q)>> \in Seq(DoneEvent) /\ <<Done(Parent[q])>> \in Seq(DoneEvent)
          BY <2>1 DEF DoneEvent
        <4> HIDE DEF q
        <4> QED  BY <4>1, EmptySeq
      <3> HIDE DEF outer, q
      <3>2. Range(<<Done(q)>>) = {Done(q)}
        BY RangeFacts, Zenon
      <3>3. Range(<<Done(q)>> \o outer) = Range(<<Done(q)>>) \cup Range(outer)
        BY <3>1, RangeConcat
      <3> QED  BY <2>2, <3>2, <3>3, Zenon
    <2>4. Range(outer) = IF Kind[Parent[q]] = "parallel" /\ AllRegionsFinal(Parent[q], active)
                         THEN {Done(Parent[q])} ELSE {}
      BY <2>1, RangeFacts, Zenon
    <2>5. q # p
      BY <1>2, <2>1 DEF FinalsAreOwn, Children
    <2>6. \A m, n : Done(m) = Done(n) => m = n
      BY DEF Done
    <2> HIDE DEF outer
    <2> QED  BY <1>2, <2>1, <2>3, <2>4, <2>5, <2>6
  <1> QED  BY <1>1, <1>2

\* A region in a final state, and a region of which some descendant is in one.
LEMMA RegionFacts ==
    ASSUME FinalsAreOwn, NEW active \in SUBSET Node, NEW p \in Node, Kind[p] = "parallel"
    PROVE  AllRegionsFinal(p, active) <=> \A r \in Children(p) \ History : RegionFinal(r, active)
  <1>1. \A r \in Children(p) : r \in Node /\ Kind[r] # "final"
    BY DEF FinalsAreOwn, Children
  <1>2. \A r \in Children(p) : \A n \in active :
            /\ IsDescendant(n, r) <=> n \in Below[r]
            /\ Kind[n] = "final" /\ n = r => FALSE
            /\ Parent[n] = r => n \in Below[r]
    BY <1>1, ChildrenBelow DEF IsDescendant, Children
  <1>3. CASE \E r \in Children(p) \ History : \A f \in Below[r] : Kind[f] # "final"
    BY <1>2, <1>3 DEF AllRegionsFinal, RegionFinal
  <1>4. CASE \A r \in Children(p) : /\ r \notin History
                 /\ \A f \in Below[r] : Kind[f] = "final" => Parent[f] = r
    BY <1>2, <1>4 DEF AllRegionsFinal, RegionFinal
  <1> QED  BY <1>3, <1>4 DEF FinalsAreOwn

LEMMA MoveRaises ==
    ASSUME FinalsAreOwn, EngineInv, NEW T, NEW exited, NEW entered \in SUBSET (Node \ History),
           Moves(T, exited, entered), NEW p \in Node \ {Root}, Kind[p] = "parallel"
    PROVE  (\E i \in DOMAIN last'.raised : last'.raised[i] = Done(p)) <=>
             /\ \A r \in Children(p) \ History : RegionFinal(r, cfg')
             /\ \E n \in last'.entered : /\ Kind[n] = "final" /\ Parent[n] # NoNode
                                         /\ Parent[Parent[n]] = p
  <1> DEFINE enders == {f \in entered : Kind[f] = "final" /\ Parent[f] # NoNode
                                        /\ Parent[Parent[f]] = p}
             seen(f) == Upto(f, exited, entered)
  <1>1. /\ last'.raised = Raised(exited, entered) /\ last'.entered = entered
        /\ cfg' = (cfg \ exited) \cup entered
    BY DEF Moves, Commit, Apply
  <1>2. cfg \in SUBSET Node /\ entered \in SUBSET Node
    BY DEF EngineInv, ConfigurationInv
  <1>3. (\E i \in DOMAIN last'.raised : last'.raised[i] = Done(p)) <=>
            \E f \in enders : AllRegionsFinal(p, seen(f))
    <2>1. (\E i \in DOMAIN last'.raised : last'.raised[i] = Done(p)) <=>
              Done(p) \in Range(Raised(exited, entered))
      BY <1>1 DEF Range
    <2>2. Done(p) \in Range(Raised(exited, entered)) <=>
              \E f \in {n \in entered : Kind[n] = "final"} : Done(p) \in Range(DoneEvents(f, seen(f)))
      BY <1>2, RaisedFacts
    <2>3. \A f \in {n \in entered : Kind[n] = "final"} :
              Done(p) \in Range(DoneEvents(f, seen(f))) <=>
                 /\ Parent[f] # NoNode /\ Parent[Parent[f]] = p
                 /\ AllRegionsFinal(p, seen(f))
      BY <1>2, DoneEventsOf
    <2> QED  BY <2>1, <2>2, <2>3
  <1>4. \A f : seen(f) \in SUBSET Node /\ seen(f) \subseteq cfg'
    BY <1>1, <1>2 DEF Upto
  <1>5. \A f \in enders : AllRegionsFinal(p, seen(f)) =>
            \A r \in Children(p) \ History : RegionFinal(r, cfg')
    <2> SUFFICES ASSUME NEW f \in enders, AllRegionsFinal(p, seen(f)),
                        NEW r \in Children(p) \ History
                 PROVE  RegionFinal(r, cfg')
      OBVIOUS
    <2>1. RegionFinal(r, seen(f))
      BY <1>4, RegionFacts
    <2> QED  BY <2>1, <1>4 DEF RegionFinal
  <1>6. ASSUME \A r \in Children(p) \ History : RegionFinal(r, cfg'), enders # {}
        PROVE  \E f \in enders : AllRegionsFinal(p, seen(f))
    <2>1. PICK f \in enders : \A g \in enders : DocOrder[g] <= DocOrder[f]
      <3>1. enders \in SUBSET Node
        BY <1>2
      <3> HIDE DEF enders
      <3> QED  BY <1>6, <3>1, InnermostOf
    <2>2. ASSUME NEW r \in Children(p) \ History PROVE RegionFinal(r, seen(f))
      <3>1. PICK n \in cfg' : Kind[n] = "final" /\ (n = r \/ Parent[n] = r)
        BY <1>6, <2>2 DEF RegionFinal
      <3>2. Parent[n] = r
        BY <2>2, <3>1 DEF FinalsAreOwn
      <3>3. CASE n \in cfg \ exited
        BY <3>1, <3>3 DEF Upto, RegionFinal
      <3>4. CASE n \in entered
        <4>1. r # NoNode /\ Parent[r] = p
          BY <2>2, NodeFacts DEF Children
        <4>2. DocOrder[n] <= DocOrder[f]
          BY <2>1, <3>1, <3>2, <3>4, <4>1
        <4> QED  BY <3>1, <3>4, <4>2 DEF Upto, RegionFinal
      <3> QED  BY <1>1, <3>1, <3>3, <3>4
    <2> QED  BY <2>1, <2>2, <1>4, RegionFacts
  <1> QED  BY <1>1, <1>3, <1>5, <1>6

\* done.state of a parallel state is raised by the microstep in which the last of
\* its regions reaches a final state, once all have, in whatever order they were
\* entered, and by no other microstep.
THEOREM ParallelsAreDone ==
    ASSUME FinalsAreOwn PROVE Spec => ParallelDone
  <1> DEFINE Tells(p) == (\E i \in DOMAIN last'.raised : last'.raised[i] = Done(p)) <=>
             /\ \A r \in Children(p) \ History : RegionFinal(r, cfg')
             /\ \E n \in last'.entered : /\ Kind[n] = "final" /\ Parent[n] # NoNode
                                         /\ Parent[Parent[n]] = p
  <1>1. ASSUME EngineInv, [Next]_vars, last' # last,
               NEW p \in Node \ {Root}, Kind[p] = "parallel"
        PROVE  Tells(p)
    <2>1. ~Idle
      BY <1>1 DEF Idle
    <2>2. CASE Starts
      BY <1>1, <2>2, EntryFacts, MoveRaises DEF Starts
    <2>3. ASSUME NEW T \in SUBSET Edge, Moved(T) PROVE Tells(p)
      BY <1>1, <2>3, EntryFacts, MoveRaises DEF Moved
    <2> HIDE DEF Tells
    <2> QED  BY <1>1, <2>1, <2>2, <2>3, StepCases
  <1>2. EngineInv /\ [Next]_vars =>
            [last' # last => \A p \in Node \ {Root} : Kind[p] = "parallel" => Tells(p)]_vars
    <2> HIDE DEF Tells
    <2> QED  BY <1>1
  <1> QED  BY <1>2, EngineInvariance, PTL DEF Spec, ParallelDone
-----------------------------------------------------------------------------
(***************************************************************************)
(* Types.                                                                  *)
(***************************************************************************)
QueueInv ==
    /\ queue \in Seq(DoneEvent)
    /\ pending \in {Ext(e) : e \in External} \cup {NoEvent}
    /\ last \in Microstep

\* A microstep is well typed, and so is the queue that its events join.
LEMMA CommitTyped ==
    ASSUME EngineInv, NEW T \in SUBSET Edge, NEW exited \in SUBSET Node,
           NEW entered \in SUBSET (Node \ History), NEW rest \in Seq(DoneEvent), NEW run,
           Commit(Apply(T, exited, entered), rest, run)
    PROVE  queue' \in Seq(DoneEvent) /\ last' \in Microstep
  <1> DEFINE ms == Apply(T, exited, entered)
  <1>1. cfg \in SUBSET Node /\ hist \in [History -> SUBSET Node]
    BY DEF EngineInv, ConfigurationInv, HistoryRecords
  <1>2. Raised(exited, entered) \in Seq(DoneEvent)
    BY RaisedFacts
  <1>3. RecordHistory(exited) \in [History -> SUBSET Node]
    BY <1>1 DEF RecordHistory, Recorded, Children, Atomic
  <1>4. ms \in Microstep /\ ms.raised = Raised(exited, entered)
    <2>1. (cfg \ exited) \cup entered \in SUBSET Node /\ entered \in SUBSET Node
      BY <1>1
    <2> QED  BY <1>2, <1>3, <2>1 DEF Apply, Microstep, DoneEvent
  <1>5. queue' = rest \o ms.raised /\ last' = ms
    BY Zenon DEF Commit
  <1> HIDE DEF ms
  <1> QED  BY <1>2, <1>4, <1>5

LEMMA TakeTyped ==
    ASSUME EngineInv, NEW T \in SUBSET Edge, NEW rest \in Seq(DoneEvent), NEW run,
           Take(T, rest, run)
    PROVE  queue' \in Seq(DoneEvent) /\ last' \in Microstep
  <1>1. Commit(Apply(T, ComputeExitSet(cfg, T), ComputeEntrySet(T, hist).entered), rest, run)
    BY Zenon DEF Take
  <1>2. ComputeExitSet(cfg, T) \in SUBSET Node
    BY DEF ComputeExitSet, ExitSetOf, EngineInv, ConfigurationInv
  <1>3. ComputeEntrySet(T, hist).entered \in SUBSET (Node \ History)
    BY EntryFacts
  <1> QED  BY <1>1, <1>2, <1>3, CommitTyped

\* Every variable has its type: only nodes are active, only done.state events of
\* the chart's own states are ever queued, and the counter of eventless microsteps
\* never passes the limit.
THEOREM TypeCorrect == Spec => []TypeOK
  <1>1. Init => QueueInv
    <2> SUFFICES ASSUME Init PROVE QueueInv  OBVIOUS
    <2>1. queue \in Seq(DoneEvent)
      BY DEF Init
    <2>2. last \in Microstep
      BY DEF Init, Microstep
    <2> QED  BY <2>1, <2>2 DEF Init, QueueInv
  <1>2. EngineInv /\ QueueInv /\ [Next]_vars => QueueInv'
    <2> SUFFICES ASSUME EngineInv, QueueInv, [Next]_vars PROVE QueueInv'  OBVIOUS
    <2>1. /\ queue \in Seq(DoneEvent) /\ last \in Microstep
          /\ pending \in {Ext(e) : e \in External} \cup {NoEvent}
      BY DEF QueueInv
    <2>2. queue # <<>> => Tail(queue) \in Seq(DoneEvent)
      BY <2>1
    <2>3. <<>> \in Seq(DoneEvent) /\ {} \in SUBSET Node /\ {} \in SUBSET Edge
      OBVIOUS
    <2>4. \A event : /\ SelectTransitions(cfg, event, pass) \in SUBSET Edge
                     /\ SelectEventless(cfg, pass) \in SUBSET Edge
      BY SelectionFacts DEF EngineInv, ConfigurationInv, Selected
    <2>5. CASE Start
      <3>1. Commit(Apply({}, {}, InitialEntry(hist).entered), <<>>, 0) /\ UNCHANGED pending
        BY <2>5, Zenon DEF Start
      <3> QED  BY <2>1, <2>3, <3>1, EntryFacts, CommitTyped DEF QueueInv
    <2>6. CASE EventlessStep
      <3>1. Take(SelectEventless(cfg, pass), queue, alwaysRun + 1) /\ UNCHANGED pending
        BY <2>6, Zenon DEF EventlessStep
      <3> QED  BY <2>1, <2>4, <3>1, TakeTyped DEF QueueInv
    <2>7. CASE InternalStep
      <3>1. /\ Take(SelectTransitions(cfg, Head(queue), pass), Tail(queue), 0)
            /\ queue # <<>> /\ UNCHANGED pending
        BY <2>7, Zenon DEF InternalStep
      <3> QED  BY <2>1, <2>2, <2>4, <3>1, TakeTyped DEF QueueInv
    <2>8. CASE ExternalStep
      <3>1. Take(SelectTransitions(cfg, pending, pass), <<>>, 0) /\ pending' = NoEvent
        BY <2>8, Zenon DEF ExternalStep
      <3> QED  BY <2>3, <2>4, <3>1, TakeTyped DEF QueueInv
    <2>9. CASE AlwaysLoopExceeded
      BY <2>1, <2>9 DEF AlwaysLoopExceeded, QueueInv
    <2>10. CASE DiscardInternal
      BY <2>1, <2>2, <2>10 DEF DiscardInternal, QueueInv
    <2>11. CASE DropExternal
      BY <2>1, <2>11 DEF DropExternal, QueueInv
    <2>12. ASSUME NEW e \in External, Offer(e) PROVE QueueInv'
      BY <2>1, <2>12 DEF Offer, QueueInv
    <2>13. CASE UNCHANGED vars
      BY <2>1, <2>13 DEF vars, QueueInv
    <2> QED  BY <2>5, <2>6, <2>7, <2>8, <2>9, <2>10, <2>11, <2>12, <2>13
             DEF Next, Macrostep, Ended
  <1>3. EngineInv /\ QueueInv => TypeOK
    BY DEF EngineInv, ConfigurationInv, HistoryRecords, LoopInv, QueueInv, TypeOK, DoneEvent
  <1> QED  BY <1>1, <1>2, <1>3, EngineInvariance, PTL DEF Spec
=============================================================================
