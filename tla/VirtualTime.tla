----------------------------- MODULE VirtualTime -----------------------------
(***************************************************************************)
(* statesmantest and the stall observer: a scenario that drives a machine  *)
(* on virtual time, step by step, with fake actors in place of its invokes *)
(* and a watchdog around its observer.  The machine is reduced to a chart  *)
(* of leaves with timed edges; its actor goroutine, the goroutine of the   *)
(* test and another one that advances the clock run concurrently.          *)
(***************************************************************************)
EXTENDS Naturals, Sequences

CONSTANTS
    Leaf,        \* the states
    Home,        \* the initial one
    After,       \* leaf -> its after edges in document order: [delay, to]
    On,          \* event -> its edges: a function from leaves to leaves
    Outcomes,    \* leaf -> the outcomes of its FakeActor, or None
    None,        \* the leaf has no invoke
    Scripts,     \* the scenarios: sequences of Send(e) and Forward(d)
    Threshold,   \* of the stall observer
    MailboxCap,  \* WithMailboxCap
    MaxTicks     \* bound: how often the other goroutine advances the clock

Send(e)    == [verb |-> "send", arg |-> e]
Forward(d) == [verb |-> "advance", arg |-> d]

ASSUME VirtualTimeAssumption ==
    /\ Home \in Leaf /\ Threshold \in Nat /\ MailboxCap \in Nat \ {0}
    /\ MaxTicks \in Nat

\* What there is in a machine and in the scenarios for it.
ASSUME MachineAssumption ==
    /\ None \notin Leaf
    /\ After \in [Leaf -> Seq([delay : Nat, to : Leaf])]
    /\ \A e \in DOMAIN On : \A l \in DOMAIN On[e] : l \in Leaf /\ On[e][l] \in Leaf
    /\ \A l \in Leaf : Outcomes[l] # None => Outcomes[l] \in Seq(DOMAIN On)
    /\ \A s \in Scripts : \A i \in 1 .. Len(s) :
          \/ s[i].verb = "send" /\ s[i].arg \in DOMAIN On
          \/ s[i].verb = "advance" /\ s[i].arg \in Nat

VARIABLES
    now,       \* the ManualClock
    timers,    \* the timers of the ManualTimerService, in the order scheduled
    advance,   \* goroutine -> the Advance it is in
    script,    \* the scenario
    step,      \* how many of its steps have begun
    harness,   \* where the test is: settle, ack, ready or advance
    ack,       \* the answer to its ping
    mailbox,   \* the mailbox channel
    pc,        \* where the actor goroutine is
    leaf,      \* the active leaf
    goal,      \* the target of the microstep it is in
    version,   \* Snapshot.Version
    since,     \* the time it has read from the clock
    toArm,     \* the after edges it has still to arm
    running,   \* the leaf whose fake actor is running
    attempts,  \* leaf -> how often its fake actor has had an outcome
    reports,   \* the versions OnStall was called for
    ticks,     \* how often the other goroutine has advanced the clock
    held,      \* history: version -> how long its observer was held
    raced      \* history: a fake actor emitted while timers were still to fire

clockVars == <<now, timers, advance>>
testVars  == <<script, step, harness>>
actorVars == <<pc, leaf, goal, version, since, toArm, running, attempts, held>>
vars == <<clockVars, testVars, ack, mailbox, actorVars, reports, ticks, raced>>

Goroutine == {"test", "other"}
Off == [pc |-> "off", todo |-> {}, due |-> {}]

Init ==
    /\ now = 0 /\ timers = <<>> /\ advance = [g \in Goroutine |-> Off]
    /\ script \in Scripts /\ step = 0 /\ harness = "settle" /\ ack = "none"
    /\ mailbox = <<>>
    /\ pc = "watch" /\ leaf = None /\ goal = Home /\ version = 0 /\ since = 0
    /\ toArm = <<>> /\ running = None /\ attempts = [l \in Leaf |-> 0]
    /\ reports = {} /\ ticks = 0 /\ held = <<>> /\ raced = FALSE

Ping       == [kind |-> "ping", of |-> None, n |-> 0]
Event(e)   == [kind |-> "event", of |-> e, n |-> 0]
Post(item) == Len(mailbox) < MailboxCap /\ mailbox' = Append(mailbox, item)

-----------------------------------------------------------------------------
(***************************************************************************)
(* ManualTimerService.                                                     *)
(***************************************************************************)
\* Wrong: Advance keeps the service locked while it fires.
UnlockedAfter == \A g \in Goroutine : advance[g].pc = "off"

Unlocked == \A g \in Goroutine : advance[g].pc # "locked"

\* A timer of an after edge of leaf `of` with delay n, or of the watchdog over
\* version n.
Timer(kind, of, n, deadline) ==
    [kind |-> kind, of |-> of, n |-> n, deadline |-> deadline, phase |-> "armed"]

Schedule(t) == Unlocked /\ timers' = Append(timers, t)

\* Cancel of all the timers that meet P: those marked as fired stay so.
Cancel(those) ==
    timers' = [i \in DOMAIN timers |->
                  IF i \in those /\ timers[i].phase = "armed"
                  THEN [timers[i] EXCEPT !.phase = "cancelled"] ELSE timers[i]]

\* Wrong: they are fired in the order they were scheduled.
ScheduledSooner(i, j) == i < j

\* The stable order by deadline.
Sooner(i, j) ==
    \/ timers[i].deadline < timers[j].deadline
    \/ timers[i].deadline = timers[j].deadline /\ i < j

\* Advance: the clock is set and the timers copied under the lock.
Begin(g, d) ==
    /\ Unlocked /\ advance[g].pc = "off" /\ now' = now + d
    /\ advance' = [advance EXCEPT ![g] =
           [pc |-> "locked", due |-> {},
            todo |-> {i \in DOMAIN timers : timers[i].deadline <= now'
                                            /\ timers[i].phase = "armed"}]]
    /\ UNCHANGED timers

Unlock(g) ==
    /\ advance[g].pc = "locked" /\ advance' = [advance EXCEPT ![g].pc = "mark"]
    /\ UNCHANGED <<now, timers, testVars, ack, mailbox, actorVars, reports, ticks, raced>>

\* markFiredIfDue, timer by timer, before the first of them is fired.
Mark(g) ==
    /\ advance[g].pc = "mark"
    /\ \E i \in advance[g].todo :
          LET marked == timers[i].phase = "armed"
          IN  /\ \A j \in advance[g].todo : i <= j
              /\ advance' = [advance EXCEPT ![g].todo = @ \ {i},
                                            ![g].due = IF marked THEN @ \cup {i} ELSE @]
              /\ timers' = IF marked THEN [timers EXCEPT ![i].phase = "fired"] ELSE timers
    /\ UNCHANGED <<now, testVars, ack, mailbox, actorVars, reports, ticks, raced>>

Marked(g) ==
    /\ advance[g].pc = "mark" /\ advance[g].todo = {}
    /\ advance' = [advance EXCEPT ![g].pc = "fire"]
    /\ UNCHANGED <<now, timers, testVars, ack, mailbox, actorVars, reports, ticks, raced>>

\* One callback: the event of an after edge, or OnStall.
Fire(g) ==
    /\ advance[g].pc = "fire"
    /\ \E i \in advance[g].due :
          LET t == timers[i]
          IN  /\ \A j \in advance[g].due \ {i} : Sooner(i, j)
              /\ advance' = [advance EXCEPT ![g].due = @ \ {i}]
              /\ IF t.kind = "after"
                 THEN Post([kind |-> "after", of |-> t.of, n |-> t.n]) /\ UNCHANGED reports
                 ELSE reports' = reports \cup {t.n} /\ UNCHANGED mailbox
    /\ UNCHANGED <<now, timers, testVars, ack, actorVars, ticks, raced>>

-----------------------------------------------------------------------------
(***************************************************************************)
(* Sync and the scenario.                                                  *)
(***************************************************************************)
\* Settle: a ping behind what is in the mailbox, as long as the actor says
\* that more has come after it.
Settle ==
    /\ harness = "settle" /\ harness' = "ack" /\ Post(Ping)
    /\ UNCHANGED <<clockVars, script, step, ack, actorVars, reports, ticks, raced>>

Settled ==
    /\ harness = "ack" /\ ack # "none" /\ ack' = "none"
    /\ harness' = IF ack = "idle" THEN "ready" ELSE "settle"
    /\ UNCHANGED <<clockVars, script, step, mailbox, actorVars, reports, ticks, raced>>

Next1 == script[step + 1]
StepTo(where) ==
    /\ harness = "ready" /\ step < Len(script)
    /\ step' = step + 1 /\ harness' = where
    /\ UNCHANGED <<script, ack, actorVars, reports, ticks, raced>>

SendStep == StepTo("settle") /\ Next1.verb = "send" /\ Post(Event(Next1.arg))
            /\ UNCHANGED clockVars

AdvanceStep == StepTo("advance") /\ Next1.verb = "advance"
               /\ Begin("test", Next1.arg) /\ UNCHANGED mailbox

Advanced ==
    /\ harness = "advance" /\ advance["test"].pc = "fire"
    /\ advance["test"].due = {}
    /\ harness' = "settle" /\ advance' = [advance EXCEPT !["test"] = Off]
    /\ UNCHANGED <<now, timers, script, step, ack, mailbox, actorVars, reports,
                   ticks, raced>>

\* The other goroutine.
Tick ==
    /\ ticks < MaxTicks /\ ticks' = ticks + 1
    /\ Begin("other", Threshold)
    /\ UNCHANGED <<testVars, ack, mailbox, actorVars, reports, raced>>

Ticked ==
    /\ advance["other"].pc = "fire" /\ advance["other"].due = {}
    /\ advance' = [advance EXCEPT !["other"] = Off]
    /\ UNCHANGED <<now, timers, testVars, ack, mailbox, actorVars, reports, ticks, raced>>

-----------------------------------------------------------------------------
(***************************************************************************)
(* The actor goroutine, with one observer: a StallObserver.                *)
(***************************************************************************)
ActorOnly == UNCHANGED <<now, advance, testVars, ticks, reports>>

\* Where an event leads from leaf l, None if it is ignored there.  An after
\* event is known by its leaf and its delay, not by its timer.
EdgeOf(l, item) ==
    CASE item.kind = "event" ->
            IF l \in DOMAIN On[item.of] THEN On[item.of][l] ELSE None
      [] item.kind = "after" ->
            IF item.of # l THEN None
            ELSE After[l][CHOOSE i \in DOMAIN After[l] : After[l][i].delay = item.n].to
      [] OTHER -> None

Take ==
    /\ ActorOnly /\ pc = "idle" /\ mailbox # <<>> /\ mailbox' = Tail(mailbox)
    /\ LET item == Head(mailbox)
       IN  /\ ack' = IF item # Ping THEN ack
                     ELSE IF mailbox' = <<>> THEN "idle" ELSE "busy"
           /\ IF EdgeOf(leaf, item) = None THEN UNCHANGED <<pc, goal>>
              ELSE pc' = "watch" /\ goal' = EdgeOf(leaf, item)
    /\ UNCHANGED <<timers, leaf, version, since, toArm, running, attempts, held, raced>>

\* OnTransition reads the clock, and then schedules the watchdog.
Watch ==
    /\ ActorOnly /\ pc = "watch" /\ pc' = "guard" /\ since' = now
    /\ UNCHANGED <<timers, ack, mailbox, leaf, goal, version, toArm, running,
                   attempts, held, raced>>

Guard ==
    /\ ActorOnly /\ pc = "guard" /\ pc' = "observe"
    /\ Schedule(Timer("stall", None, version + 1, since + Threshold))
    /\ UNCHANGED <<ack, mailbox, leaf, goal, version, since, toArm, running,
                   attempts, held, raced>>

Stalls == {i \in DOMAIN timers : timers[i].kind = "stall"}
Afters == {i \in DOMAIN timers : timers[i].kind = "after"}

Commit ==
    /\ ActorOnly /\ pc = "observe" /\ pc' = "disarm"
    /\ held' = Append(held, now - since) /\ version' = version + 1
    /\ leaf' = goal /\ toArm' = After[goal]
    /\ UNCHANGED <<ack, mailbox, goal, since, running, attempts, raced>>

\* Wrong: the watchdog goes on.
ObservedOnly == Commit /\ UNCHANGED timers

\* The inner observer returns and the watchdog is cancelled; the microstep is
\* committed and published.
Observed == Commit /\ Cancel(Stalls)

\* cancelAfterTimers, and the time from which the new ones count.
Disarm ==
    /\ ActorOnly /\ pc = "disarm" /\ pc' = "arm" /\ since' = now
    /\ Cancel(Afters)
    /\ UNCHANGED <<ack, mailbox, leaf, goal, version, toArm, running, attempts,
                   held, raced>>

Arm ==
    /\ ActorOnly /\ pc = "arm" /\ toArm # <<>> /\ toArm' = Tail(toArm)
    /\ Schedule(Timer("after", leaf, Head(toArm).delay, since + Head(toArm).delay))
    /\ UNCHANGED <<pc, ack, mailbox, leaf, goal, version, since, running, attempts,
                   held, raced>>

\* reconcileInvokes: an invoke that ran before the microstep goes on.
Reconcile ==
    /\ ActorOnly /\ pc = "arm" /\ toArm = <<>>
    /\ running' = IF Outcomes[leaf] = None THEN None ELSE leaf
    /\ pc' = IF running' \notin {None, running} /\ attempts[leaf] < Len(Outcomes[leaf])
             THEN "emit" ELSE "idle"
    /\ UNCHANGED <<timers, ack, mailbox, leaf, goal, version, since, toArm,
                   attempts, held, raced>>

\* FakeActor: the outcome of this attempt, from the actor goroutine itself.
Emit ==
    /\ ActorOnly /\ pc = "emit" /\ pc' = "idle"
    /\ attempts' = [attempts EXCEPT ![leaf] = @ + 1]
    /\ Post(Event(Outcomes[leaf][attempts'[leaf]]))
    /\ raced' = (raced \/ advance["test"].due # {})
    /\ UNCHANGED <<timers, ack, leaf, goal, version, since, toArm, running, held>>

Actor == \/ Take \/ Watch \/ Guard \/ Observed \/ Disarm \/ Arm \/ Reconcile \/ Emit
Test  == \/ Settle \/ Settled \/ SendStep \/ AdvanceStep \/ Advanced
         \/ Unlock("test") \/ Mark("test") \/ Marked("test") \/ Fire("test")
Other == Unlock("other") \/ Mark("other") \/ Marked("other") \/ Fire("other") \/ Ticked

Over == harness = "ready" /\ step = Len(script)

\* The actor is stuck: it posts to its own mailbox, which is full.
Jammed == pc = "emit" /\ Len(mailbox) = MailboxCap

Rest == (Over \/ Jammed) /\ UNCHANGED vars

Next == Actor \/ Test \/ Other \/ Tick \/ Rest
Spec == Init /\ [][Next]_vars

\* Goroutines are scheduled and the inner observer returns.
FairSpec == Spec /\ WF_vars(Actor) /\ WF_vars(Test) /\ WF_vars(Other)
-----------------------------------------------------------------------------
(***************************************************************************)
(* Properties.                                                             *)
(***************************************************************************)
Place == {"idle", "watch", "guard", "observe", "disarm", "arm", "emit"}
Delays(l) == {After[l][i].delay : i \in DOMAIN After[l]}

\* What may name an edge: an event, or a leaf and one of its delays.
Names(x) ==
    CASE x.kind = "event" -> x.of \in DOMAIN On
      [] x.kind = "after" -> x.of \in Leaf /\ x.n \in Delays(x.of)
      [] OTHER -> x.of = None

Item == [kind : {"ping", "event", "after"}, of : Leaf \cup {None} \cup DOMAIN On, n : Nat]
TimerOK == [kind : {"stall", "after"}, of : Leaf \cup {None}, n : Nat, deadline : Nat,
            phase : {"armed", "cancelled", "fired"}]

ClockOK ==
    /\ now \in Nat
    /\ timers \in Seq(TimerOK) /\ \A i \in DOMAIN timers : Names(timers[i])
    /\ advance \in [Goroutine -> [pc : {"off", "locked", "mark", "fire"},
                                  todo : SUBSET Nat, due : SUBSET Nat]]
    /\ \A g \in Goroutine : advance[g].todo \cup advance[g].due \subseteq DOMAIN timers

TestOK ==
    /\ script \in Scripts /\ step \in Nat /\ ticks \in Nat
    /\ harness \in {"settle", "ack", "ready", "advance"} /\ ack \in {"none", "idle", "busy"}
    /\ raced \in BOOLEAN /\ reports \subseteq Nat

MailOK == mailbox \in Seq(Item) /\ \A i \in DOMAIN mailbox : Names(mailbox[i])

ActorOK ==
    /\ pc \in Place /\ goal \in Leaf /\ leaf \in Leaf \cup {None} /\ running \in Leaf \cup {None}
    /\ leaf = None => pc \in {"watch", "guard", "observe"}
    /\ version \in Nat /\ since \in Nat /\ since <= now
    /\ toArm \in Seq([delay : Nat, to : Leaf])
    /\ pc \in {"disarm", "arm"} => \A i \in DOMAIN toArm : toArm[i].delay \in Delays(leaf)
    /\ pc = "emit" => Outcomes[leaf] # None /\ attempts[leaf] < Len(Outcomes[leaf])
    /\ attempts \in [Leaf -> Nat] /\ held \in Seq(Nat) /\ Len(held) = version

\* The type invariant: among other things, what is in the mailbox or on a timer
\* names an edge of the machine, and the after edges to arm are of the active leaf.
TypeOK == ClockOK /\ TestOK /\ MailOK /\ ActorOK

\* OnStall is called for no observer that was held for less than the threshold.
OnlyStalls == \A v \in reports : v <= Len(held) => held[v] >= Threshold

\* A scenario comes to its end, if the mailbox has room for its fake actors.
ScenarioEnds == <>(Over \/ Jammed)
=============================================================================
