------------------------------- MODULE Watch -------------------------------
(***************************************************************************)
(* statesman diagram --watch: the machine.json is polled by its mtime and  *)
(* drawn again when that has changed, on the terminal or into the mermaid  *)
(* output.                                                                 *)
(***************************************************************************)
EXTENDS MachineFile

VARIABLES
    watch,    \* where pollLoop is: start, poll, load or ended
    lastMod,  \* the mtime it saw last, once it has looked
    shown     \* what is to be seen: a document, and whether an error is

watchVars == <<watch, lastMod, shown>>

\* Of the documents it reads, and of their being read at all.
Frame(good, error) == [good |-> good, error |-> error]

WatchInit == watch = "start" /\ lastMod = <<>> /\ shown = Frame(0, FALSE)

\* watchFrame and its mermaid counterpart: an error leaves the last good
\* diagram where it is.
WatchFrame(new) == IF new # 0 THEN Frame(new, FALSE) ELSE Frame(shown.good, TRUE)

\* The path is resolved once before the loop.
Resolve ==
    /\ watch = "start"
    /\ watch' = IF file = Missing THEN "ended" ELSE "poll"
    /\ UNCHANGED <<lastMod, shown, fileVars>>

Poll ==
    /\ watch = "poll" /\ lastMod # <<mtime>>
    /\ lastMod' = <<mtime>> /\ watch' = "load"
    /\ UNCHANGED <<shown, fileVars>>

\* Wrong: the mtime is taken after the file was read, when there may have been
\* another save.
ReloadThenStat ==
    /\ watch = "load" /\ watch' = "poll" /\ shown' = WatchFrame(Loaded(file))
    /\ lastMod' \in {<<mtime>>, <<mtime + 1>>} /\ UNCHANGED fileVars

Reload ==
    /\ watch = "load" /\ watch' = "poll"
    /\ shown' = WatchFrame(Loaded(file))
    /\ UNCHANGED <<lastMod, fileVars>>

Interrupt ==
    /\ watch = "poll" /\ watch' = "ended"
    /\ UNCHANGED <<lastMod, shown, fileVars>>

Edit == UNCHANGED watchVars /\ \E d \in DOMAIN Docs : Save(d)
EditRest == UNCHANGED watchVars /\ \E d \in DOMAIN Docs : SaveRest(d)

PollLoop  == Resolve \/ Poll \/ Reload
WatchNext == PollLoop \/ Interrupt \/ Edit \/ EditRest
WatchSpec == FileInit /\ WatchInit /\ [][WatchNext]_<<fileVars, watchVars>>
-----------------------------------------------------------------------------
(***************************************************************************)
(* Properties.                                                             *)
(***************************************************************************)
\* The chart that is drawn.
Drawn   == Chart(Docs[shown.good])
Diagram == INSTANCE Statechart WITH
    Nodes <- Drawn.nodes, Kind <- Drawn.kind, Parent <- Drawn.parent,
    Initial <- Drawn.initial, Edges <- Drawn.edges, MaxTasks <- 0

\* What gate 2 lets through although the engine does not expect it: children of
\* a final or history state, and edges of a history state.
Gap(d) == \E n \in DOMAIN d :
    \/ d[n].type \in {"final", "history"} /\ Children(d, n) # <<>>
    \/ IsHistory(d, n) /\ NodeEdges(d, n) # <<>>

\* Every chart that is drawn is one the engine is built for: its tree and its
\* edges meet the assumptions Statechart makes of a definition, but for the gaps.
LoadsChart == shown.good # 0 =>
    \/ Diagram!WellFormedTree /\ Diagram!WellFormedEdges
    \/ Gap(Docs[shown.good])

UpToDate == shown = Frame(IF Loaded(file) # 0 THEN file ELSE shown.good,
                          Loaded(file) = 0)

\* When the editor has come to rest the diagram shows the file, or the error it
\* has, for good: no save is missed between a look at the mtime and the reading.
CatchesUp == <>[](watch \in {"start", "ended"} \/ UpToDate)
=============================================================================
