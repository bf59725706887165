# Statesman, in TLA+

Formal models of `statesman`, a Go library that loads a statechart from JSON,
generates typed Go for it, and runs each machine as an actor: one goroutine, one
bounded mailbox, one published snapshot. The models cover the parts where the
program can go wrong in ways a test would hardly reach: the actor goroutine
among its callers and subscribers, the statechart engine it drives, the
children and timers it starts and stops, the loader and the tools that read and
write a package while somebody edits it, the test harness on virtual time, and
the larger of the two examples.

All paths below are relative to `src/` unless they name a `.tla` or `.cfg` file.

## 1. The system

| part | state it keeps | operations | how it meets the others |
|---|---|---|---|
| **Actor goroutine** `machine.go`, `ids.go`, `snapshot.go`, `errors.go`, `observer.go` | snapshot (atomic pointer), started flag, loop context, `done`, mailbox, registered subscribers | `Start`, `Send`, `TrySend`, `Close`, `CloseAfterDrain`, `Settle`, `Snapshot`; `loop`, `drainAndClose`, `runMacrostep`, `execMicrostep`, `notifySubs`, `shutdown` | one `select` over mailbox, subscribe, unsubscribe, cancellation |
| **Subscribers** `machine.go:607-666`, `subscribe.go` | a bounded channel and a delivery goroutine each | `Subscribe` (before or after `Start`), cancel, deliver, remove | the actor blocks while a buffer is full; removal goes through an unbuffered channel |
| **Engine** `microstep.go`, `transition.go`, `definition.go` | configuration, recorded history, internal queue, pending external event, always-run counter | `start`, `offer`, `step` (stage), `commit` | called by `runMacrostep` only; guards and actions are user callbacks |
| **Invokes, timers, outbox** `actors.go`, `time.go`, `machine.go:461-582` | running invokes, armed timers, buffered sends | `reconcileInvokes`, five adapters, arm and cancel, `drainOutbox` | outcomes and `after` events come back through the mailbox |
| **Stall observer** `stall.go` | a watchdog per observed microstep | arm, fire, cancel | wraps an observer, on the timer service |
| **Virtual time, scenarios** `statesmantest/` | the manual clock and its timers, fake actors' attempts | `Advance`, `Schedule`, `Cancel`, `Sync`, the steps of a scenario | drives a machine through `Send` and `Settle` |
| **Schema loader** `schema/` | none | parse, build, document order, target resolution, callsites | its `Definition` is the engine's input |
| **Code generation** `internal/codegen/` | none | resolve, name, emit, stub, lint | reads the definition and the package's declarations |
| **Command line** `cmd/statesman/` | the package's files; `pollLoop`'s last mtime and frame | `init`, `stub`, `generate`, `diagram`, `diagram --watch` | reads and rewrites files that an editor writes as well |
| **Diagrams** `diagram/` | latest-wins channel in `live.go` | render, live paint | a subscriber |
| **Issue workflow** `examples/issues/` | the context (attempt, outputs), the comments on GitHub | collect, classify, investigate, fix, summarise, sync; `issuesctl` | a user of the library with promises and child machines |
| **Quickstart** `examples/simple/` | a counter | a loop of two timed states | a user of the library |
| **Persistence contract** `docs/persistence-contract.md` | none | none | a document without code |

What is hard here:

* *many goroutines, few channels*: sends and closes of subscriber channels,
  cancellation racing a full mailbox, callers that must be released whatever
  stopped the actor, the question "is it idle?" asked through the mailbox;
* *ordering inside one microstep*: what is read before the exits and used after
  them (history), what depends on the order in which regions are entered or
  rivals compared;
* *run to completion*: eventless transitions that enable each other;
* *outcomes that come too late*: timers and promises of states already left, a
  post that lands after its retry has looked for it;
* *files two parties write*: a read between an editor's truncation and its write,
  a command killed between its own, a change between a look and a read;
* *time that is moved by hand*: timers marked before they are fired, beside a
  goroutine that cancels and arms them.

What makes each part correct:

* actor: every accepted event is handled once, in its sender's order; a drained
  backlog is handled before the stop; a caller is never left behind; terminal is
  terminal, and the reason it stopped for is never overwritten;
* subscribers: no version lost, repeated or reordered; the terminal snapshot is
  given to all who stayed; no send on a closed channel;
* engine: legal configurations only, just preemption, entries and exits paired,
  targeted transitions external, history faithful, `done.state` raised exactly
  when a parallel state completes, macrosteps that end;
* invokes and timers: one running child for every active invoking state at
  quiescence, one armed timer for every active `after`; no attempt reports twice,
  and nothing outlives the actor or keeps it waiting;
* loader: what it accepts is a chart the engine is built for;
* tools: no declaration lost or repeated, a facade that calls what exists, a
  diagram that catches up with its file;
* virtual time: a scenario has one result; only real stalls are reported;
* workflow: a budget that bounds the calls, a comment that is not repeated, an
  exit code that means what it says, an end.

## 2. The modules

```
Lifecycle  <--implements--  ActorLoop  <-- MCActorLoop
                                ^------- ActorLoopProofs
Statechart <-- Engine <-- MCEngine
        ^          ^----------------+
        +--- StatechartProofs <-- EntryProofs <-- EngineProofs
Attempts   <--implements--  Invocation  <-- MCInvocation
                                ^------- InvocationProofs
Workflow   <-- WorkflowProofs
VirtualTime <-- Scenario <-- MCVirtualTime
      ^-------- VirtualTimeProofs
Loader <-- MachineFile <-- Watch (uses Statechart's assumptions) <--+
                     ^---- Toolchain <------------------------------+-- MCTools
                               ^------- ToolchainProofs --> Watch   |
           Live <---------------------------------------------------+
```

The modules named `...Proofs` hold the theorems of section 5, those named `MC...`
the instances of section 3.

### Lifecycle: what a caller may rely on

The published status and whether the actor's end can be waited for. A status
goes `Starting`, `Running`, one of the terminal ones, and stays there; waiters
are released (`Release`) only when it is terminal. `Publish` is the snapshot
store of `execMicrostep`, `shutdown` and the error paths.

### ActorLoop: the goroutines of machine.go

`pc` is where the actor goroutine stands; every blocking point of the loop is a
value of it, and what happens between two of them is one action:

| `pc` | code | actions |
|---|---|---|
| `off`, `starting` | `Start`, and the window in it between the started flag and the channels | `Start`, `MakeChannels` |
| `stage` | `engine.step` in `runMacrostep` | `Stage`, `Quiescent`, `AlwaysLoop` |
| `observe` | observers look at the staged snapshot | `ObserversApprove`, `ObserversAbort` |
| `notify` | `notifySubs`, one send to one subscriber at a time, blocking on a full buffer | `Notify(s)`, `Notified` |
| `select` | the five-way `select` of `loop` | `LoopEvent`, `LoopPing`, `LoopDrainClose`, `LoopSubscribe(s)`, `LoopUnsubscribe(s)`, `LoopCancelled` |
| `drain` | `drainAndClose`, a non-blocking receive until the mailbox is empty | `DrainEvent`, `DrainPing`, `DrainSentinel`, `DrainEmpty` |
| `stop`, `close`, `exit` | `shutdown`: the Stopped snapshot, its notification, the channels, `done` | `Shutdown`, `Notify(s)` again, `CloseChannels` |

`spc[s]` is the subscriber's side: both goroutines that `Subscribe` starts, from
the registration offer through delivery and `fn` to the removal request and the
flush to the close. `cpc[c]` is a client inside one of the blocking calls, with
the alternatives of its `select` as separate actions. `seen`, `handled`, `owed`
and `hard` are history variables: the last version delivered, the events the
engine was given, what was ahead of a drain or settle, and whether anyone asked
for the kind of stop that drops the mailbox.

The engine is here what the loop sees of it: each `step` stages a microstep, is
quiescent, or trips the limit. That is an over-approximation of Engine.

Modelling decisions:

* Closing the subscriber channels and closing `done` are one step. Nobody can
  tell them apart but by `done`, which is the later of the two.
* `Subscribe` and `Close` are not called in the window inside `Start`; `Send`,
  `TrySend`, `Settle` and `CloseAfterDrain` are, by the clients in `Hasty`,
  because that is where they read channels that are not made yet.
* A client of `Impatient` has a context that may expire at any time, and never
  has to.
* Observers are user code: any staged snapshot may be approved or aborted.

### Statechart: transition.go

The pure algorithm as operators over a chart given by the constants `Nodes` (in
document order), `Kind`, `Parent`, `Initial` and `Edges`. `WellFormedTree` and
`WellFormedEdges` say what the loader has to guarantee; they are assumed of the
constants (`ChartAssumption`), and `LoadsChart` states them of the Loader. The
document order is the depth-first one, so what lies below a node follows it
without a gap: `Innermost` and `First` can go by it, and so does the preemption.

Selection goes leaf by leaf (`FirstMatch`); preemption compares each candidate
with those already kept (`Resolve`), one after another (`Kept`). The mutually
recursive pair `addDescendantStatesToEnter` / `addAncestorStatesToEnter` is a
stack of tasks over the set entered so far (`Perform`, one task; `EntryClosure`,
up to `MaxTasks` of them), because the code reads that set while it fills it: a
region is entered by default only if nothing in it has been entered *by then*.
A call of the code is a task, and so is each of its loops.

`Ends` says that an entry has come to its end within `MaxTasks`; Engine commits no
other, as the code commits nothing before its recursion returns.

`RootUntouched`, `DefaultsAtHome`, `OnePathHistory`, `RecordsAreCurrent` and
`FinalsAreOwn` name five things the loader does not ask of a chart and some of the
theorems need; the module of the runs' charts assumes them, so that TLC evaluates them there.

### Engine: microstep.go

One action per outcome of `step`, each with the `commit` that follows it, in the
order the code tries them: eventless, internal queue, pending external event.
`Apply` stages a microstep from the history as it was before it, as
`microstepFor` does. `pass` is what the guards say: the set of guarded
transitions whose guards hold now. It is chosen anew by every commit (the
actions may have changed the context) and, for event transitions, with every
offered event. Actions, effects and the context are otherwise left out. `last`
and `left` are history variables: the last microstep, and what was active below
a state with a history child when it was last exited.

### Attempts: what a chart may rely on of one invoke

Attempts are begun one at a time and none reports its outcome twice. An outcome
of an attempt that was stopped may still arrive: the library says no more.

### Invocation: actors.go, time.go and their callers

The actor goroutine once more, with another part of `execMicrostep` in view. The
chart is abstracted to the states that own invokes and timers; a microstep leaves
and enters any of them, which over-approximates Engine (`EntryExitPaired` there
is the guard of `Microstep` here).

| `pc` | code | actions |
|---|---|---|
| `step` | a microstep is committed, its timers cancelled and armed; or the actor fails; or the macrostep is over and what was left is stopped | `Microstep`, `Fail`, `Quiescent` |
| `deliver` | `drainOutbox`, which may block in a child's `deliver` | `Deliver`, `DropCommand`, `Delivered` |
| `spawn` | the second half of `reconcileInvokes`, in any order of its map | `Spawn(i)`, `Reconciled` |
| `select`, `drain` | the loop, the drain (which does not reconcile) | as in ActorLoop |
| `shutdown`, `close`, `exit` | children and timers first, `done` last | `Shutdown`, `CloseDone` |

`spawned[i]` holds every child ever started for invoke `i`, each a goroutine with
its phase: running, emitting, returned, posting its outcome, ended; `children`
is the code's map of those it keeps. `timers` and `armed` are the same for the
`after` transitions. `visit`, a child's `visit`, `posted` and `emitted` are
history.

* A promise, a callback, a backoff timer and a child machine differ in what stops
  them, what they take and what they post; an observable is a callback that takes
  nothing.
* The context is looked at (`Discard` or `Report`) and the outcome posted
  (`PostOutcome`) in two steps, as in the code: a cancellation between them comes
  too late. A machine has no such check: its terminal snapshot and the
  cancellation of its subscription race.
* `emit` waits for room in the mailbox or for `done`; so does a fired timer.
* A callback may have no event for its outcome, and a machine none for its end.
* `Close` of a child machine returns at once. That it may not is a matter of
  ActorLoop (`ActorLoopQuitStalls`).

### Loader: schema/

A document is the sequence of its state objects; what the parser refuses in an
object is one field of it (`extra`). `IsDocument` says what may be read at all: any
tree of such objects, a parent before its children, with strings for names. The nodes
of the chart are pointers in the code, and members of the constant `Pointer` here, so
that nothing can be told of a node by its name. `Accepts` is the conjunction of what gates 1
and 2 refuse, node by node; `Chart` is the definition of an accepted document, in
the form Statechart takes; `ActionCallsites` and `GuardCallsites` are the
numbering of `assignCallsites`, which code generation and dispatch share. All
are operators: the loader has no state.

### MachineFile and Watch: a file, its editor and diagram --watch

The editor renames a new file over the old one or rewrites it in place, where a
reader may find it `Torn`; every write has a new mtime. `Watch` is `pollLoop`
with the read of the mtime (`Poll`) and that of the file (`Reload`) apart, and
`watchFrame`, which keeps the last good diagram when the file does not load.

### Toolchain: init, stub and generate

Go source is reduced to declarations: kind and name per file, a name being the
sequence of its words, so that names which normalise alike are equal. A command
loads the definition, resolves what it refers to (`Owed`, `Unresolved`), and
either writes the facade (`Generate`, with the methods, the dispatch and the
event types of `Emit`) or appends stubs file by file (`Rewrite` reads and
truncates, `AppendToFile` writes back). It may be killed between any two steps;
the developer saves another document meanwhile, declares things by hand and
changes a stub's signature between commands.

### Live: the latest-wins channel

The machine is what ActorLoop says of one subscriber; `Push` and `DiscardOldest`
are the two ways round the loop of `latestWins`, and `Live` paints what it finds.

### VirtualTime: statesmantest and stall.go

Three goroutines: the test that runs a scenario's steps through `Sync`, the actor
(take, watchdog, observer, disarm and arm, reconcile, a fake actor's emission),
and another one that advances the clock. `Advance` is taken apart where the code
unlocks: begin under the lock, unlock, mark timer by timer in the order of the list,
fire one by one, the one that is `Sooner` than all others first. The machine is a
chart of leaves with timed edges. `Scenario` adds the abstract specification,
`Meaning`: the steps of the script on a machine that does nothing meanwhile. It is
recursive, and so has a module of its own.

### Workflow: examples/issues

The coordinator's chart edge by edge (`Edges`, in document order), its guards
and actions as far as they count (`attempt`, which outputs are saved), the call
of the active leaf with its progress, the outcomes and timers of earlier leaves
that may still be handled (`late`, `mailbox`), GitHub's comments with the issue's
marker, those of them on the first page (`onFirst`; `CommentExists` may miss the
others) and the posts on their way there, and `issuesctl` with its deadline and exit code.

## 3. What is checked

Every property is stated in its module with the behaviour it is about.

| run | instance | question |
|---|---|---|
| `ActorLoopDelivery` | 2 subscribers (one may cancel), 1 sender, 1 closer, mailbox of 1, 2 microsteps | what do subscribers get, does the loop implement `Lifecycle`, does `Close` return |
| `ActorLoopClients` | 1 sender of 2 events, 2 drainers, 1 settler, expiring contexts, mailbox of 2 | what do `Send`, `CloseAfterDrain` and `Settle` promise, is any call left waiting |
| `EngineWork` | 31 states, 36 transitions, 5 events, limit 2 | is every microstep a legal one, and does every macrostep end |
| `InvocationRetry` | 1 promise and 1 timer of one state, mailbox of 1, 3 microsteps, 2 events | which child and timer run, what may a cancelled attempt do, does all of it end |
| `InvocationAdapters` | 1 machine, 1 callback, 1 backoff of one state, mailbox of 1, queues of 1, 2 microsteps of up to 2 commands, 1 event and 1 emission | is any child forgotten, which one can keep the actor from its mailbox, does a cancellation end all of it |
| `WorkflowRun` | budget of 2 retries and 2 fixes, mailbox of 1, with and without an earlier comment, on the first page or a later one, dry or not | what do retries cost, when is a comment posted that was not needed, what does the exit code mean, does the command exit |
| `ToolSessions` | 36 documents of up to 7 states (11 accepted), 2 saves, the second of a watched file one of 3 documents or a torn one, 1 declaration or change by hand; 4 versions and a buffer of 2 for `Live` | does the loader make legal charts, do the tools keep and fit the code, do the diagrams catch up and end |
| `VirtualTime` | 3 leaves, 4 timed edges, 10 scenarios of 3 or 4 steps, a fake actor, a second advance, mailbox of 2 | does a scenario have one result, is only a stall reported, does a scenario end |

The other runs each end in a violation: see section 6.

**ActorLoop.** `TypeOK`; `RegisteredOpen` (no send on, or second close of, a
closed channel); `NothingMissed` and `DeliveredInOrder` (consecutive versions up
to the terminal one); `LifeSpec` (implements `Lifecycle`, with its
liveness); `HandledInOrder` (each sender's accepted events, once and in order);
`DrainedBacklog` and `SettledBacklog` (what was in the mailbox ahead of a drain
or settle that succeeded has been handled); `NothingDropped`; `StopReleases`,
`CloseReturns`, `SettleReturns` (nobody is left waiting).

**Engine.** `LegalConfiguration`; `JustPreemption`, evaluated in every reachable
configuration for every descriptor, not just the event at hand;
`EntryExitPaired`; `TargetedExits`; `HistoryRestores`; `ParallelDone`;
`MacrostepEnds`.

**Invocation.** `InvokesMatch` (deferred invokes: back at the mailbox,
the children kept are those of the active states); `NoneForgotten` (a child no
longer kept has been told); `TimersMatch` (armed timers and `PendingAfter`);
`NothingOutlives` (bottom-up shutdown); `SeparateAttempts` (implements Attempts);
`BackToMailbox` (the actor comes back to its mailbox, unless a child that does not
read holds it for good in a `deliver` to its full queue; the run reaches that);
`Stops`, `AllReleased` (nobody is left waiting: the host after a cancellation, one
that meets the actor in such a `deliver` among them, a child or timer after the
end).

**Workflow.** `SharedBudget` (one budget bounds the calls of `CollectIssue` and
`SyncIssue` together); `NoNeedlessPost` (while `CommentExists` sees every marker,
nothing is posted to an issue that has one, and a post after the first needs one
that was cancelled on its way; where it may miss the marker, a call still posts at
most once); `SuccessIsSynced`; `Exits`.

**Tools.** `LoadsChart` (what the loader accepts meets Statechart's assumptions,
but for the named gaps); `NoRedeclaration` and `KeepsCode` (stubs beside no
declaration of the same name, and nothing that was there is gone); `DispatchFits`
(dispatch calls methods of `Implementations` with their signature, and asserts
event types that are declared); `CatchesUp` (after the last save the diagram
shows the file, or its error); `LiveReturns`. A name counts with the kind it is
declared as: that a stub's name may be taken by a declaration of another kind is
in section 6.

**Virtual time.** `Deterministic` (after every step the machine, its timers and
its fakes are what the script means); `OnlyStalls`; `ScenarioEnds`.

The `TypeOK` of `Invocation`, `Engine` and `VirtualTime` are theorems and are
checked by no run.

### Bounds, and why they are enough

* *Microsteps* (`MaxVersion`), *events per sender* (`MaxSend`): caps in the guards
  of staging and of the call. Two published microsteps and the terminal snapshot
  are enough for a subscriber to be registered, removed or cancelled between any
  two publications; two events are enough for one sender's order.
* *Capacities*: a mailbox of one makes every second send block; a mailbox of two
  lets events, pings and two sentinels queue in every order. Subscriber buffers
  are one, so that publication blocks, except a quitter's, which holds all
  versions in `ActorLoopDelivery`: with a small one the actor can stall for ever
  (section 6), which would hide everything behind it.
* *The chart of `EngineWork`*: it has each feature once with its rivals: shallow
  and deep history over a compound state, a parallel state inside a region of
  another, edges across regions, out of regions and on the region itself at four
  depths, final states in all regions, a cycle of `always` edges, the
  catch-all. Guards answer in every possible way. A limit of two is passed,
  met and exceeded.
* *Tasks of one entry* (`MaxTasks`): 60, where 40 are enough for any entry of the
  runs' charts. An entry that does not end within it is never committed: the
  engine would be stuck before it, and TLC would report a deadlock.

* *Attempts* (`MaxStep`): three microsteps are enough to enter a state, leave it
  and enter it again, within one macrostep or across three; two are enough for
  each adapter to be started, sent a command and cancelled or left to itself.
  `MaxEmit` and `MaxEvent` cap what a child and the host send. With a mailbox of
  one, any two of them meet at a full one.
* *Commands* (`RecvCap`, `MaxCommand`): a queue of one in place of the code's 16,
  and up to two commands of one microstep, so that the actor meets a full queue: of a
  child that will read, of a callback that has stopped or has returned, and of one
  that itself waits for room in the actor's mailbox. In the last three it waits in
  `deliver` until it is cancelled; `BackToMailbox` allows them by name (`Held`), and
  TLC refutes it without that disjunct.

* *Workflow*: two retries are spent by one state, by the other, or one by each;
  a mailbox of one puts every late outcome against every timer. With at most one
  earlier comment (`MaxComment`) the issue has none, one the lookup sees or one it may
  miss; those of the run itself are bounded by its calls.
* *Documents*: each accepted one has a feature the others have not (target forms,
  wildcards, parallel and history states, keys used twice, names that normalise
  alike), each refused one a different fault. Two saves let a command or the
  watcher meet a first version, a torn one and a second. The watcher tells
  documents apart only by being accepted or refused, so every document is its
  first but only three are its second.
* *Live*: four versions and a buffer of two, so that frames are dropped before
  the terminal one arrives.
* *Scenarios*: three steps after the first let a timer be fired, cancelled by the
  event of another one, and armed again; `Threshold` lies between the advances.

### Fairness

`ActorLoop!FairSpec` has weak fairness of the steps that a goroutine takes by
itself: the actor, the delivery goroutines (callbacks return), and the rest of a
call that has begun. The Go scheduler runs every goroutine that can run, and a
channel operation that stays possible is eventually performed. Fairness is given
to each goroutine as a whole and never to one case of a `select`: which of
several ready cases it takes is Go's choice, every time. Nobody has to call,
cancel or expire. `Engine!FairSpec` has weak fairness of `Macrostep` alone: `runMacrostep`
calls `step` in a loop until it is quiescent. Nobody has to offer an event.
`Invocation!FairSpec`: the actor runs, time passes, a goroutine finishes its post
when it can, and a function whose context was cancelled returns (the contract of
`context`). A child need not otherwise return, nor read its commands.
`Workflow!FairSpec`: programs and GitHub answer in the end, timers fire, the
actor and `main` are scheduled; the run's deadline need not pass.
`MCTools!FairSpec`: the watcher, the painter and the goroutine that feeds it are
scheduled, and an editor that has truncated a file writes it. Nobody has to
save, publish or interrupt, and the commands need not go on: they may be killed.
`VirtualTime!FairSpec`: the three goroutines run and observers return.

Deadlock is checked in the passing runs, where a finished system stutters
explicitly, except in `ToolSessions`: a session ends when nobody saves any more.

## 4. What has a counterpart in the code, and where

The correspondence is kept definition by definition beside this file in
`PROJECT.json` (`map`): each definition, the file, the lines and the function.
Definitions marked `Wrong:` in the modules are the plausible bug that the
property next to them must catch; nothing refers to them.

## 5. What is proved

### The actor loop

`ActorLoopProofs` holds TLAPS proofs for every number of clients and
subscribers, every capacity and every bound, from three assumptions on the
constants (`ClientAssumption`, `SubAssumption`, `BoundAssumption`):

| theorem | says |
|---|---|
| `TypeCorrect` | `[]TypeOK` |
| `ChannelSafety` | `[]RegisteredOpen`: no send on, no second close of, a closed channel |
| `CompleteDelivery` | `[]NothingMissed`: a subscriber that stayed ends with the terminal snapshot |
| `OrderedDelivery` | `DeliveredInOrder`: versions come consecutively |
| `KeepsPromise` | `LifeSafety`: the loop implements the safety of `Lifecycle` |

`RegisteredOpen` and `NothingMissed` are not inductive by themselves. The
invariant is `TypeOK /\ DeliveryInv`, the latter of four parts:

* `PhaseInv` ties the place of the actor goroutine to the snapshot (a terminal
  one is published before the channels are closed; `todo` is empty outside
  `notify`);
* `RegistryInv` ties registration to the subscriber's place and its channel;
* `FeedInv` counts: for a registered subscriber, the version seen, plus what
  its buffer holds, plus one if `notifySubs` has yet to serve it, is the
  published version, and the buffer holds the versions in between in order;
* `NothingMissed` itself.

Each group of actions has its lemma (`Type...`, `Delivery...`), each a step per
action. `DeliveredInOrder` follows from `FeedInv`: the head of a buffer is the
next version. The refinement maps the status to `snap.status` and the release to
`done`; every step is a `Publish`, a `Release` or a stutter. `LifeSafety` is
the safety half of `LifeSpec`, which the run checks.

### The callers of the actor

The same module goes on to the callers, from the same assumptions:

| theorem | says |
|---|---|
| `SenderOrder` | `[]HandledInOrder`: each sender's accepted events, once and in order |
| `DrainPromise` | `[]DrainedBacklog`: what was ahead of a drain that succeeded was handled |
| `SettlePromise` | `[]SettledBacklog`: the same of a settle that was told "idle" |
| `EventsKept` | `NothingDropped`: an event leaves the mailbox only to be handled |

The properties speak of events that were handled and calls that have returned;
what makes them true lies in the mailbox meanwhile. `ClientInv` adds to the
actor's invariant

* `OrderInv`: all events in the mailbox are behind those handled and in their
  senders' order among themselves, and none is younger than its sender's count;
* `BacklogInv`: for a ping or sentinel in the mailbox, what its caller is owed
  has been handled or lies ahead of it;
* `AckInv`: an acknowledged call is owed nothing that was not handled;
* `OverInv`: a drain that came to its end, with nobody asking for the kind of
  stop that drops the mailbox, has emptied it.

### The engine

`StatechartProofs` has the lemmas about the tree, the domains, the selection and
the bounds of the entry sets; `EntryProofs` what an entry set does enter;
`EngineProofs` the theorems, for every chart that meets `ChartAssumption`, every set
of events, every limit, and guards that answer as they like:

| theorem | says | of charts with |
|---|---|---|
| `PreemptionIsJust` | `[]JustPreemption` | |
| `HistoryIsKept` | what is recorded for a history state is what was active below its parent when that was last exited | |
| `TargetedTransitionsExit` | `TargetedExits` | `RootUntouched` |
| `EntriesAndExitsPair` | `EntryExitPaired` | `RootUntouched`, `DefaultsAtHome` |
| `ConfigurationsAreLegal` | `[]LegalConfiguration` | `ChartKeepsWhole` |
| `HistoriesRestore` | `HistoryRestores` | `ChartKeepsWhole`, `RecordsAreCurrent` |
| `ParallelsAreDone` | `ParallelDone` | `FinalsAreOwn` |
| `TypeCorrect` | `[]TypeOK` | |

`ChartKeepsWhole` asks for a root that is not parallel and that no transition leaves
or targets, and for history states of compound parents, with a default below
these, of which none is deep over a parallel state. These are the shapes of section 6
by which the engine loses a legal configuration; that the parents of history states
are compound, and their defaults no history states, keeps what is restored to one path.

*Preemption.* `removeConflictingTransitions` compares a transition only with those
kept so far, and may later drop the one it lost against. That what is dropped is
outdone by something kept *in the end* rests on the pre-order. If `u` lost against
`w` and `x` then preempts `w`, the source of `x` lies below that of `w`. Either `w`
lay below `u`, and then `x` does too and shares a leaf with it; or `w` merely came
first, and then the source of `u` comes between those of `w` and `x`, hence below
`w`, which the loss excludes. `Outdone` is the relation, `OutdoneAgain` this step,
and `KeptIsJust` the induction over the edges, over a number that fits in a set
(`Induct`) and so within reach.

*Entries and exits.* Everything a task enters lies within the scopes of the
transitions taken: a set that is `Closed` contains what lies below its members,
so a task within it leads to tasks within it (`SubtasksWithin`, case by case, and
`EntryWithin` for the whole run), and a climb stops at the domain it was given.
The exits are what is active in those same scopes. Hence the two hypotheses: a
transition of the root has no domain, and a history state whose default lies
elsewhere leads out of its scope. Both are findings (section 6), and the
loader accepts both. The recorded states a history state restores stay at home by
`HistoryRecords`, which is why that is part of the invariant.

*Legal configurations.* The entry set is filled by a stack of tasks, each of which
reads what those before it have entered, so that nothing short of the whole run is
legal. `Sound` is the invariant of that run: what is active and not exited, what has
been entered, and what the remaining tasks still owe is together a `Whole`
configuration. A task owes states (`Owes`), tends to states that lack something
below them for now (`Tends`), and may open a region if nothing in it has been entered
by then (`Opens`); an earlier task enters nothing where a later one counts on finding
nothing (`Apart`). Each kind of task hands on what it was there for to its
subtasks (`...PassOn`), which is `PerformSound`; at the end nothing is owed
(`EndsWhole`). The run starts `Sound` from the root (`RootSound`) and from what a set
of transitions has left active (`TargetsSound`), since the scopes of transitions
that are taken together are disjoint (`ScopesApart`), which is where preemption
comes in. `LegalInv` adds that a history state has recorded at most one state, and
no history state: a compound state without parallel ones below it has one leaf
(`OneLeaf`).

*History.* The recorded state is what was active when the parent was last exited
(`LeftInv`). If the parent is not exited now, the record is current; the target's own
task then enters the recorded state, whatever the other tasks do (`Leads`,
`RestoredIsEntered`), and in a legal configuration no other child, or leaf, stands
beside it. `RecordsAreCurrent` gives the first: transitions to a history state leave
from below its parent, and then their domain is that parent, or from a state that is
never active together with it.

*done.state.* A microstep raises what its final states raise one by one, each by what
is active when its turn comes (`RaisedFacts`: the queue's additions hold the events of
the finals entered, and no others). One that is entered early may see a region that is
not final yet; the last of them in document order, among those of the regions of one
parallel state, sees all (`MoveRaises`), and none sees a region final that will not be.
`FinalsAreOwn` makes a region the code takes for final one that is (`RegionFacts`).

`EngineInv` has three parts: `ConfigurationInv` (active states are nodes and no
history states, none before the start; guards are those of active states),
`HistoryRecords`, and `LoopInv` (`alwaysRun <= AlwaysLimit`). `StepCases` reduces
the eight actions to two kinds: a microstep of some set of transitions, or a step
that leaves configuration and history alone.

### The invokes and timers

`InvocationProofs` holds for every chart of states with invokes and timers, every
mix of adapters and every bound:

| theorem | says |
|---|---|
| `TypeCorrect` | `[]TypeOK` |
| `ChildrenMatch` | `[]InvokesMatch` |
| `ChildrenTold` | `[]NoneForgotten` |
| `TimersFollow` | `[]TimersMatch` |
| `BottomUp` | `[]NothingOutlives` |
| `Refinement` | `SeparateAttempts`: the children of each invoke are `Attempts` |

`InvokesMatch` holds at the mailbox only, and is made true in two halves around
the outbox. The invariant says what is known in between: `OwnersInv`, which
children are kept by `pc` (after the first half only ones of active states, after
the second all of them); `ContextInv`, whose context is cancelled: of the children
no longer kept every one, of those kept all or none, as the actor's own context
is; `KeptInv`, `StopInv` and `ArmedInv` tie the map to the list of children, the
end to the emptiness of both, and a timer to its last arming. `Refinement` maps
an attempt to a child that was started, and its report to the post of its
outcome; the proof goes action by action, and a step is the begin of one attempt,
the report of one, or a stutter.

### The tools

`ToolchainProofs` is about two specifications. `PkgSpec`: a package, the three
commands, a developer who saves any document, declares and changes anything, and
kills that come at any step. `WatchSpec`: `diagram --watch` beside its editor.
`MCTools`'s sessions are some of their behaviours. Both are for every set of
documents: the assumptions are that these are trees of state objects
(`FileAssumption`) and that there are pointers enough for them (`PointerAssumption`).

| theorem | says | of documents with |
|---|---|---|
| `StubsAreNew` | `[]NoRedeclaration` | |
| `CodeIsKept` | `[]KeepsCode` | |
| `FacadeResolves` | the names a generated facade takes from the package stay declared, whatever follows, unless a rewriting was cut short or is under way | |
| `DrawnIsWellFormed` | `[]LoadsChart` | |
| `DispatchCompiles` | `[]DispatchFits` | `MethodsAgree` |

*Stubs.*

A stub command holds the file it rewrites, so what is `Present` is what is
declared and what is held. `FreshInv`: a stub still to be written has no like,
neither present nor in what is left to do for another file. Its exception is the
one of section 6.

*The chart.* What the loader makes of a document is computed by recursion, but its
recursive functions are defined over the numbers of the nodes, and an induction over
a set of numbers is within reach (`Least`, and from it `Upward` and `Downward`).
First the recursions are shown to end. `FlattenSeq` lays its parts one behind the
other (`FlattenLays`, from `PrefixesExist`); a walk needs only those of later nodes
(`WalksExist`); a relative path is an iteration (`Iterated`). Then what a walk
visits, each by induction from the last node to the first: itself and behind it the
walks of its children (`WalkBlocks`), with a node all that is below it
(`WalkVisits`), nothing twice (`WalkOnce`, since walks of siblings have nothing in
common: two walks that meet are one within the other, `WalksNest`), and between a
node and its parent nothing that is not below that parent (`WalkNests`). Together
(`DocumentOrderFacts`): the document order numbers all nodes, depth first. The gates
leave a `Sound` document (`AcceptedIsSound`): known kinds, children of compound and
parallel states only, goals and targets that are nodes. The rest is the translation
of both into the chart (`DrawnTree`, `DrawnEdges`).

*The dispatch.* `DispatchInv`: a facade has all that its dispatch calls, and what
these take is an event of its own or one its document refers to (`ArgsOwed`: a
callsite with an event belongs to an edge of the document, `Callsites`). The latter
stays declared by `FacadeResolves`. That no method is left out is `CallsKept`: of
those with one name the first is kept, and the others are the same method. This is
where `MethodsAgree` comes in, which the generator does not check (section 6); the
module of the run's documents assumes it, so that TLC evaluates it there.

### The issue workflow

`WorkflowProofs` holds proofs for every budget, mailbox and number of earlier
comments, from `WorkflowAssumption`:

| theorem | says |
|---|---|
| `Budget` | `[]SharedBudget` |
| `Comments` | `[]NoNeedlessPost` |
| `Success` | `[]SuccessIsSynced` |

None of the three is inductive. The budget needs that `reads + syncs` counts the
attempt and the backoff leaf it is in: a call is begun only from a backoff leaf,
which is entered only while `attempt < MaxRetries`, or by the one pass through
each of the two states. The comments need a count (`Count`) of all that may still
be there: a post is begun only where the lookup has seen none, so where it sees
every marker the comments, the posts on their way and the one being sent are no more
than one and the posts that were cut, and none is on its way to an issue that had a
comment. A call that has not posted yet stands for one comment more, which bounds
all of them by the calls of `SyncIssue`. Success needs
that an outcome `full` of `sync` means a comment or a dry run wherever it may
be: in the call, in `late`, in the mailbox, and in the `finished` leaf.

### Virtual time and the stall observer

`VirtualTimeProofs` is about every machine of leaves with timed edges, every set of
scenarios that fit it and every threshold, from `VirtualTimeAssumption` and
`MachineAssumption`:

| theorem | says |
|---|---|
| `TypeCorrect` | `[]TypeOK` |
| `OnlyStallsReported` | `[]OnlyStalls` |

`TypeOK` is more than types: what is in the mailbox or on a timer names an edge that
exists, so that the actor finds it, and a fake actor does not run out of outcomes.
`OnlyStalls` speaks of reports, which come long after what makes them right: a timer
is marked under its own lock, the clock has moved before that, and the actor may have
cancelled it, committed and armed the next one before the callback runs. `StallInv`
follows a watchdog through this: while its observer is held it is armed to the
threshold, or was fired no sooner than that (`OverNow`); afterwards it is not armed
any more, and if it was fired the hold had lasted (`OverPast`). An `Advance` has only
timers to mark that are due by a clock that never goes back, and only marked ones to
fire.

### Only model-checked

* Liveness (`CloseReturns`, `StopReleases`, `SettleReturns`, `MacrostepEnds`,
  `BackToMailbox`, `Stops`, `AllReleased`, `Exits`, `CatchesUp`, `LiveReturns`,
  `ScenarioEnds`, the liveness half of `LifeSpec`): fairness is out of the
  prover's reach.
* `Deterministic`, whose abstract meaning of a script is recursive.

What is assumed of charts and documents beyond what the code checks is in the last
columns of the tables. What it excludes is in section 6; the instance of each passing
run meets it, as TLC evaluates.

## 6. Where the code and its words part

Runs that end in a violation, each of a sentence the repository says:

* `ActorLoopQuitStalls`: a cancelled subscriber stops reading before the actor
  has removed it; with its buffer full the actor waits for room and it waits for
  the actor. `Close` never returns.
* `ActorLoopTwoSettlers`: a ping finds the mailbox non-empty because of another
  caller's ping; two callers of `Settle` can keep each other waiting.
* `EngineRootParallel`: with a parallel root, a region re-entering itself takes
  the other regions with it and does not bring them back.
* `InvocationReentry`: a state left and entered again within one macrostep keeps
  the child it had, running or finished, where the documents count on a restart.

Met while modelling, without a run of their own. In the library:

* A `Send` between `Start`'s flag and its channels (`machine.go:157`) waits on nil
  channels and is not released when the actor stops, against `machine.go:191`:
  `StopReleases` fails where a client is in `Hasty`.
* A targeted transition of the root has no domain (`transition.go:55`): it exits
  nothing and enters its target beside what was active.
* Deep history over a parallel state (`transition.go:274`) restores leaf by leaf:
  the first leaf's ancestors enter the other region by default, and then that
  region's recorded leaf is entered as well.
* After `Close`, the `select` may still take any number of events, which
  `statesman-architecture.md:844` says are dropped.
* A transition that leaves a state for that state's own history restores the
  record before last (`microstep.go:176`: the entry set is computed from the
  history as it was before the exits). `RecordsAreCurrent` excludes it.
* `allRegionsFinal` takes a final state at any depth for a final region, so a
  nested one completes the parallel state too early; and a history child of a
  parallel state, never active, keeps it from completing at all. `FinalsAreOwn`
  excludes both.
* A history state without a record and without a default enters nothing.
* A cycle of `always` and `done.state` steps resets the counter of the limit each
  time round, so it is never tripped and the macrostep does not end.

In the loader and the tools:

* A history state may be its parent's initial state and default to that parent
  (`build.go:140-147` and `resolve.go:40` let it pass): without a record,
  `addDescendantStatesToEnter` then calls itself without end. A default anywhere
  outside the parent enters states beside what stays active.
* An event called `Impl`, `Event` or `ContextFields` is stubbed beside the type of
  the same name that the tool makes itself (`stub.go:31-43`, `stub.go:72`).
* Gate 2 lets through states with children or edges where the engine expects
  none (`final` and `history` states); `LoadsChart` excepts them by name.
* The catch-all `*` loads, but is no Go name: `generate` and `stub` refuse it.
* Input mappers are part of `Implementations` but `stub` writes them only once
  the actors they belong to exist, and it does nothing at all when every name
  resolves: methods of a chart that has grown are then missing (`stub.go:57`).
* `CheckCollisions` (`naming.go:109`) is never called: `SAVE_DRAFT` and
  `SaveDraft` are stubbed twice under one name.
* `implMethods` keeps the first of the methods of one name (`emit.go:391`) and does
  not look at their signatures: an action on the entry of a state and on an event
  called like that state, or an action and a guard of one name on one edge, get one
  method, and the dispatch of the other does not compile. `MethodsAgree` excludes it.
* An observable is never registered (`emit.go:505`), and an invoke without an
  `onDone` or `onError` edge gets a facade that constructs an event type nobody
  declares (`emit.go:506-527`), where `lint.go` only warns.
* An `on` key that is empty becomes an eventless edge.
* A command killed between truncation and write (`main.go:152`) loses the file;
  a developer's save between its read and its write is lost as well.
* `Live` on a machine that is terminal already paints once and waits for its
  context; its first frame may be newer than the one painted next.

On virtual time:

* A fake actor's outcome posted among the `after` events of one `Advance` is
  ordered by the scheduler (`fake.go:14` promises determinism); with a full
  mailbox it blocks the actor for ever. `Deterministic` and `ScenarioEnds` except
  the two by name (`raced`, `Jammed`).
* Timers that were fired or cancelled stay in `ManualTimerService.timers`.
* The remaining times of a snapshot are taken from the clock before its observers
  run, the timers are armed from the clock after them.

In the workflow:

* A timed-out post that lands is to short-circuit the retry
  (`issues.actors.go:129-132`). It does only if it lands before the retry's lookup:
  one that was cut off and lands later is repeated. `NoNeedlessPost` allows as many
  repeats as posts were cut.
* `CommentExists` looks at 50 pages and no further, and takes an empty cursor for the
  end: it may miss the marker on a long thread, and each retry, or another run of the
  command, posts again. `Lookup` misses any marker that is not on the first page.
* One `Attempt` counts for collecting and syncing and is never reset; a timer or
  outcome of an earlier attempt that is handled late is counted as well.
* A child machine that ends in its `failed` state is reported as done.
* `fixing` has no timeout.

The chart of `EngineWork` has none of these shapes, so that its properties hold
for the reasons they should.

## 7. Not modelled, and the plan

Not yet, in the order planned:

1. A child machine as an ActorLoop of its own under `Invocation` (its `Close`
   waits, its mailbox fills), and the restart counts of a snapshot.
2. The composition of `Engine` with the loop's view of it: `Engine` implements the
   stage, quiescent or trip choice of `ActorLoop`.
3. The investigate machine of the workflow, step by step.

Theorems planned:

* The engine as what `ActorLoop` sees of it, once that composition is modelled.

Not modelled, and why:

* rendering (`diagram/text.go`, `mermaid.go`, `render.go`): layout, one pure
  function of a definition, compared with golden files by its tests;
* the text of the generated facade, its imports and `SendTo` variants, and
  `lint.go`, which prints warnings and changes nothing;
* JSON tokens, flags, file headers, the one-shot diagram command;
* `FakeCallback` and its recorder, the `expect` steps and the txtar format;
* the agents' prompts and command lines (`examples/issues/agent`), and the
  GraphQL client (`examples/issues/github`), of which `generated.go` is generated
  from GitHub's schema: the workflow sees an answer or an error;
* the quickstart, a loop of two timed states that has no mechanism of its own;
* the persistence contract, a document for a package that is not in the
  repository.

## 8. Running it

```
tlc -config ActorLoopDelivery.cfg MCActorLoop
tlc -config ActorLoopClients.cfg  MCActorLoop
tlc -config EngineWork.cfg        MCEngine
tlc -config InvocationRetry.cfg   MCInvocation
tlc -config InvocationAdapters.cfg MCInvocation
tlc -config WorkflowRun.cfg       Workflow
tlc -config ToolSessions.cfg      MCTools
tlc -config VirtualTime.cfg       MCVirtualTime
tlapm ActorLoopProofs.tla
tlapm StatechartProofs.tla
tlapm EntryProofs.tla
tlapm EngineProofs.tla
tlapm InvocationProofs.tla
tlapm ToolchainProofs.tla
tlapm WorkflowProofs.tla
tlapm VirtualTimeProofs.tla
```

Each takes up to two or three minutes.
