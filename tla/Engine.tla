------------------------------- MODULE Engine -------------------------------
(***************************************************************************)
(* The statechart engine of microstep.go: macrosteps of microsteps over    *)
(* the configuration, the recorded history, the internal queue and the one *)
(* pending external event.  Each action is one call of start, offer or     *)
(* step together with the commit that follows it, as runMacrostep makes    *)
(* them (an observer abort ends the actor before commit: see ActorLoop).   *)
(* Actions, effects and the context are left out, but for what the guards  *)
(* say of the context: pass.                                               *)
(***************************************************************************)
EXTENDS Statechart

CONSTANTS
    External,       \* the descriptors of external events
    AlwaysLimit     \* WithAlwaysLimit

ASSUME LimitAssumption == AlwaysLimit \in Nat \ {0}

VARIABLES
    cfg,        \* the active state nodes
    hist,       \* history node -> the states recorded for it, {} for none
    queue,      \* internalQueue: done.state.* descriptors
    pending,    \* pendingExternal
    alwaysRun,  \* eventless microsteps since the last triggered one
    status,
    pass,       \* the guarded transitions of active states whose guards hold
    last,       \* history: the last microstep
    left        \* history: what was active below a state when last exited

vars == <<cfg, hist, queue, pending, alwaysRun, status, pass, last, left>>

NoEvent   == <<"none", "none">>
\* The guards that are looked at in configuration c.
Guards(c) == {t \in Edge : Edges[t].guarded /\ Edges[t].source \in c}
Eventless == {t \in Edge : Edges[t].event = Always}
Terminal  == {"Done", "Error"}

\* A staged microstep: what it takes, exits and enters, the internal events it
\* raises, and the configuration and history that commit swaps in.
Microstep == [taken : SUBSET Edge, exited : SUBSET Node, entered : SUBSET Node,
              raised : Seq({Done(n) : n \in Node}),
              cfg : SUBSET Node, hist : [History -> SUBSET Node]]

\* The states with a history child.
Remembered == {Parent[h] : h \in History}

Init ==
    /\ cfg = {}
    /\ hist = [h \in History |-> {}]
    /\ queue = <<>>
    /\ pending = NoEvent
    /\ alwaysRun = 0
    /\ status = "Starting"
    /\ pass = {}
    /\ last = [taken |-> {}, exited |-> {}, entered |-> {}, raised |-> <<>>,
               cfg |-> cfg, hist |-> hist]
    /\ left = [s \in Remembered |-> {}]

-----------------------------------------------------------------------------
(***************************************************************************)
(* apply and commit.                                                       *)
(***************************************************************************)
\* recordHistoryInto: read before the state leaves the configuration.
Recorded(h) ==
    IF Kind[h] = "deep"
    THEN Atomic(cfg) \cap Below[Parent[h]]
    ELSE Children(Parent[h]) \cap cfg

\* Wrong: read when the states have left the configuration.
RecordTooLate(exited) ==
    [h \in History |-> IF Parent[h] \in exited THEN Recorded(h) \ exited ELSE hist[h]]

RecordHistory(exited) ==
    [h \in History |-> IF Parent[h] \in exited THEN Recorded(h) ELSE hist[h]]

\* Wrong: one region is enough.
AnyRegionFinal(p, active) ==
    \E r \in Children(p) :
        \E n \in active : Kind[n] = "final" /\ (n = r \/ IsDescendant(n, r))

\* Every child of p (a history child too) is or has an active final state.
AllRegionsFinal(p, active) ==
    \A r \in Children(p) :
        \E n \in active : Kind[n] = "final" /\ (n = r \/ IsDescendant(n, r))

\* The configuration once f, and what precedes it, has been entered.
Upto(f, exited, entered) ==
    (cfg \ exited) \cup {n \in entered : DocOrder[n] <= DocOrder[f]}

\* The done.state events of entering the final state f.
DoneEvents(f, active) ==
    LET p == Parent[f] IN
    IF p = NoNode \/ p = Root THEN <<>>
    ELSE <<Done(p)>> \o
         (IF Parent[p] # NoNode /\ Kind[Parent[p]] = "parallel"
                /\ AllRegionsFinal(Parent[p], active)
          THEN <<Done(Parent[p])>> ELSE <<>>)

\* The events of the final states entered, in document order.
Raised(exited, entered) ==
    LET events(n) == IF n \in entered /\ Kind[n] = "final"
                     THEN DoneEvents(n, Upto(n, exited, entered)) ELSE <<>>
        from[i \in 0 .. Len(Nodes)] ==
            IF i = 0 THEN <<>> ELSE from[i - 1] \o events(Nodes[i])
    IN  from[Len(Nodes)]

ReachedFinal(entered) ==
    \E n \in entered : Kind[n] = "final" /\ Parent[n] \in {NoNode, Root}

\* apply: stage the microstep of the transitions T (none for the entry).
Apply(T, exited, entered) ==
    [taken |-> T, exited |-> exited, entered |-> entered,
     raised |-> Raised(exited, entered),
     cfg |-> (cfg \ exited) \cup entered, hist |-> RecordHistory(exited)]

\* Its internal events join what is left of the queue; run counts the
\* eventless microsteps.  The actions may change what the guards say.
Commit(ms, rest, run) ==
    /\ cfg' = ms.cfg
    /\ hist' = ms.hist
    /\ queue' = rest \o ms.raised
    /\ alwaysRun' = run
    /\ status' = IF ReachedFinal(ms.entered) THEN "Done" ELSE "Running"
    /\ pass' \in SUBSET Guards(ms.cfg)
    /\ last' = ms
    /\ left' = [s \in Remembered |->
                  IF s \in ms.exited THEN cfg \cap Below[s] ELSE left[s]]

\* microstepFor: the entry set is computed from the history before the exits.
Take(T, rest, run) ==
    \E entry \in {ComputeEntrySet(T, hist)} :
        /\ Ends(entry)
        /\ \E ms \in {Apply(T, ComputeExitSet(cfg, T), entry.entered)} :
              Commit(ms, rest, run)

-----------------------------------------------------------------------------
(***************************************************************************)
(* start, offer and step: eventless before internal before external.       *)
(***************************************************************************)
Start ==
    /\ status = "Starting"
    /\ \E entry \in {InitialEntry(hist)} :
          /\ Ends(entry)
          /\ \E ms \in {Apply({}, {}, entry.entered)} : Commit(ms, <<>>, 0)
    /\ UNCHANGED pending

NoEventless == SelectEventless(cfg, pass) = {}

Quiescent ==
    status = "Running" /\ NoEventless /\ queue = <<>> /\ pending = NoEvent

\* Guards of event transitions may look at the event, so what they say is
\* chosen anew with it; those of eventless ones see the context alone.
Offer(e) ==
    /\ Quiescent
    /\ pending' = Ext(e)
    /\ \E answers \in SUBSET (Guards(cfg) \ Eventless) :
          pass' = (pass \cap Eventless) \cup answers
    /\ UNCHANGED <<cfg, hist, queue, alwaysRun, status, last, left>>

\* Wrong: eventless microsteps are not counted.
EventlessStepUncounted ==
    /\ status = "Running" /\ alwaysRun < AlwaysLimit
    /\ \E T \in {SelectEventless(cfg, pass)} :
          T # {} /\ Take(T, queue, 0)
    /\ UNCHANGED pending

EventlessStep ==
    /\ status = "Running" /\ alwaysRun < AlwaysLimit
    /\ \E T \in {SelectEventless(cfg, pass)} :
          T # {} /\ Take(T, queue, alwaysRun + 1)
    /\ UNCHANGED pending

\* ErrAlwaysLoopExceeded.
AlwaysLoopExceeded ==
    /\ status = "Running" /\ ~NoEventless
    /\ alwaysRun >= AlwaysLimit
    /\ status' = "Error"
    /\ UNCHANGED <<cfg, hist, queue, pending, alwaysRun, pass, last, left>>

InternalStep ==
    /\ status = "Running" /\ NoEventless
    /\ queue # <<>>
    /\ \E T \in {SelectTransitions(cfg, Head(queue), pass)} :
          T # {} /\ Take(T, Tail(queue), 0)
    /\ UNCHANGED pending

DiscardInternal ==
    /\ status = "Running" /\ NoEventless
    /\ queue # <<>>
    /\ SelectTransitions(cfg, Head(queue), pass) = {}
    /\ queue' = Tail(queue)
    /\ UNCHANGED <<cfg, hist, pending, alwaysRun, status, pass, last, left>>

ExternalStep ==
    /\ status = "Running" /\ NoEventless
    /\ queue = <<>> /\ pending # NoEvent
    /\ \E T \in {SelectTransitions(cfg, pending, pass)} :
          T # {} /\ Take(T, <<>>, 0)
    /\ pending' = NoEvent

DropExternal ==
    /\ status = "Running" /\ NoEventless
    /\ queue = <<>> /\ pending # NoEvent
    /\ SelectTransitions(cfg, pending, pass) = {}
    /\ pending' = NoEvent
    /\ UNCHANGED <<cfg, hist, queue, alwaysRun, status, pass, last, left>>

Macrostep ==
    \/ Start \/ EventlessStep \/ AlwaysLoopExceeded
    \/ InternalStep \/ DiscardInternal
    \/ ExternalStep \/ DropExternal

\* The engine of a terminal actor is not called again.
Ended == status \in Terminal /\ UNCHANGED vars

Next == Macrostep \/ (\E e \in External : Offer(e)) \/ Ended

Spec == Init /\ [][Next]_vars

\* runMacrostep calls step until it reports quiescence; nobody need Send.
FairSpec == Spec /\ WF_vars(Macrostep)

-----------------------------------------------------------------------------
TypeOK ==
    /\ cfg \in SUBSET (Node \ History)
    /\ hist \in [History -> SUBSET Node]
    /\ queue \in Seq({Done(n) : n \in Node})
    /\ pending \in {Ext(e) : e \in External} \cup {NoEvent}
    /\ alwaysRun \in 0 .. AlwaysLimit
    /\ status \in {"Starting", "Running"} \cup Terminal
    /\ pass \in SUBSET Guards(cfg)
    /\ last \in Microstep
    /\ left \in [Remembered -> SUBSET Node]

-----------------------------------------------------------------------------
(***************************************************************************)
(* Safety.                                                                 *)
(***************************************************************************)
\* The configuration is one the chart allows (transition.go: "atomic leaves
\* plus every ancestor up to the root, and all regions of active parallels"):
\* whatever was exited, restored or entered, an active state's ancestors are
\* active, a compound state has exactly one active child, a parallel one all
\* of its regions.
LegalConfiguration ==
    status # "Starting" =>
        /\ Root \in cfg
        /\ \A n \in cfg \ {Root} : Parent[n] \in cfg
        /\ \A n \in cfg :
              /\ Kind[n] = "compound" => Cardinality(Children(n) \cap cfg) = 1
              /\ Kind[n] = "parallel" => Children(n) \ History \subseteq cfg

\* The preemption that chose kept among enabled is just: what is kept can be
\* taken together, and a transition was dropped only for one it conflicts
\* with that is deeper or, if neither is deeper, earlier.
JustChoice(enabled, kept) ==
    /\ kept \subseteq enabled
    /\ \A t, u \in kept : t # u => ~Conflict(cfg, t, u)
    /\ \A t \in enabled \ kept : \E u \in kept :
          /\ Conflict(cfg, t, u)
          /\ \/ IsDescendant(Edges[u].source, Edges[t].source)
             \/ u < t /\ ~IsDescendant(Edges[t].source, Edges[u].source)

\* removeConflictingTransitions resolves every choice justly: in every
\* reachable configuration, for every event and for `always`, no region is
\* starved by a rival that is itself preempted later in the pass.
JustPreemption ==
    /\ JustChoice(EnabledEventless(cfg, pass), SelectEventless(cfg, pass))
    /\ \A event \in {Edges[t].event : t \in Edge} \ {Always} :
          JustChoice(EnabledOn(cfg, event, pass), SelectTransitions(cfg, event, pass))

\* Every state is exited before it is entered again: what a microstep enters
\* was not active or is exited by it, so entry and exit actions, timers and
\* invokes pair up.
EntryExitPaired == [][last'.entered \cap (cfg \ last'.exited) = {} \/ last' = last]_vars

\* A targeted transition is external: its source and everything active
\* below it is exited when it is taken.
TargetedExits ==
    [][last' # last => \A t \in last'.taken : ~Targetless(t) =>
          cfg \cap (Below[Edges[t].source] \cup {Edges[t].source}) \subseteq last'.exited]_vars

\* A transition to a history state restores its parent as the parent was last
\* exited, be it by that very transition: the same children for shallow, the
\* very same leaves for deep history.
HistoryRestores ==
    [][last' # last => \A t \in last'.taken : Edges[t].target \in History =>
          LET h == Edges[t].target
              s == Parent[h]
          IN  left'[s] # {} =>
                IF Kind[h] = "deep"
                THEN Atomic(cfg' \cap Below[s]) = Atomic(left'[s])
                ELSE Children(s) \cap cfg' = Children(s) \cap left'[s]]_vars

\* A region is in a final state when one of its children that is final is
\* active (or it is itself a final state).
RegionFinal(r, active) ==
    \E n \in active : Kind[n] = "final" /\ (n = r \/ Parent[n] = r)

\* done.state of a parallel state is raised by the microstep in which the last
\* of its regions reaches a final state, and by no other.
ParallelDone ==
    [][last' # last => \A p \in Node \ {Root} : Kind[p] = "parallel" =>
          ((\E i \in DOMAIN last'.raised : last'.raised[i] = Done(p)) <=>
             /\ \A r \in Children(p) \ History : RegionFinal(r, cfg')
             /\ \E n \in last'.entered : /\ Kind[n] = "final" /\ Parent[n] # NoNode
                                         /\ Parent[Parent[n]] = p)]_vars

(***************************************************************************)
(* Liveness.                                                               *)
(***************************************************************************)
\* The run-to-completion step ends: the engine is never busy for ever, so the
\* actor returns to its mailbox (or is terminal).
MacrostepEnds == []<>(Quiescent \/ status \in Terminal)
=============================================================================
