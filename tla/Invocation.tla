----------------------------- MODULE Invocation -----------------------------
(***************************************************************************)
(* Invoked actors, after timers and the outbox (actors.go, time.go and the *)
(* parts of machine.go that call them): the actor goroutine starts and     *)
(* stops children and timers as states are left and entered, while the     *)
(* goroutines of the children and of fired timers post to its mailbox.     *)
(*                                                                         *)
(* The chart is abstracted to the states that own invokes or timers; a     *)
(* microstep leaves and enters any of them (Engine says which).  The       *)
(* adapters are "promise", "callback" (an observable is one that is sent   *)
(* nothing), "backoff" and "machine".                                      *)
(***************************************************************************)
EXTENDS Naturals, Sequences, FiniteSets

CONSTANTS
    State,        \* the states with an invoke or an after transition
    Invoke,       \* invoke ids
    After,        \* after transitions
    Owner,        \* invoke id or after transition -> its state
    Adapter,      \* invoke id -> its adapter
    MailboxCap,   \* WithMailboxCap
    RecvCap,      \* the capacity of a child's command queue
    MaxStep,      \* bound: microsteps
    MaxCommand,   \* bound: commands of one microstep
    MaxEvent,     \* bound: events from the host
    MaxEmit       \* bound: intermediate events of each child

Adapters == {"promise", "callback", "backoff", "machine"}
Sendable == {i \in Invoke : Adapter[i] \in {"callback", "machine"}}

ASSUME InvocationAssumption ==
    /\ Invoke \cap After = {}
    /\ Owner \in [Invoke \cup After -> State]
    /\ Adapter \in [Invoke -> Adapters]
    /\ MailboxCap \in Nat \ {0} /\ RecvCap \in Nat \ {0}
    /\ MaxStep \in Nat /\ MaxCommand \in Nat /\ MaxEvent \in Nat /\ MaxEmit \in Nat

VARIABLES
    pc,         \* where the actor goroutine stands
    draining,   \* it is inside drainAndClose
    ended,      \* the engine is terminal
    active,     \* the active states
    visit,      \* history: how often each state was entered
    steps,      \* history: microsteps
    cancelled,  \* loopCtx is cancelled
    done,       \* the done channel is closed
    mailbox,    \* the mailbox channel
    outbox,     \* the SendTo commands of the microstep still to be delivered
    children,   \* invoke id -> the number of its running child, 0 for none
    spawned,    \* invoke id -> the children started for it, in order
    armed,      \* after transition -> the number of its timer, 0 for none
    timers,     \* after transition -> the timers scheduled for it, in order
    pending,    \* PendingAfter of the published snapshot
    events      \* how many events the host has sent

actorVars == <<pc, draining, ended, active, visit, steps, cancelled, done,
               outbox, children, armed, pending>>
vars == <<actorVars, mailbox, spawned, timers, events>>

Child == [phase : {"run", "emit", "returned", "post", "end"},
          cancelled : BOOLEAN,  \* its context is
          visit : Nat,          \* history: the visit it was started in
          backlog : Nat,        \* commands in its queue
          emitted : Nat,        \* history: intermediate events
          posted : BOOLEAN]     \* history: it posted its outcome

Timer == [phase : {"armed", "fired", "posted", "stopped", "released"},
          visit : Nat]

Item(kind, of, n) == [kind |-> kind, of |-> of, n |-> n]
Host  == "host"
Items == [kind : {"event", "drainClose", "emit", "outcome", "after"},
          of : Invoke \cup After \cup {Host}, n : Nat]

Room == Len(mailbox) < MailboxCap
Post(item) == Room /\ mailbox' = Append(mailbox, item)

Init ==
    /\ pc = "step" /\ draining = FALSE /\ ended = FALSE
    /\ active = {} /\ visit = [s \in State |-> 0] /\ steps = 0
    /\ cancelled = FALSE /\ done = FALSE
    /\ mailbox = <<>> /\ outbox = <<>>
    /\ children = [i \in Invoke |-> 0] /\ spawned = [i \in Invoke |-> <<>>]
    /\ armed = [a \in After |-> 0] /\ timers = [a \in After |-> <<>>]
    /\ pending = {} /\ events = 0

-----------------------------------------------------------------------------
(***************************************************************************)
(* execMicrostep: commit, publish, cancel and arm timers.                  *)
(***************************************************************************)
\* Wrong: the timers of the states left are forgotten but not cancelled.
DisarmOnly(a) == timers[a]

\* Timer.Cancel, for the after transition a: a timer that fired goes on.
CancelTimer(a) ==
    [n \in DOMAIN timers[a] |->
        IF n = armed[a] /\ timers[a][n].phase = "armed"
        THEN [timers[a][n] EXCEPT !.phase = "stopped"] ELSE timers[a][n]]

\* plannedPending: what stays armed and what the entries will arm.
PlannedPending(exited, entered) ==
    {a \in After : armed[a] # 0 /\ Owner[a] \notin exited}
        \cup {a \in After : Owner[a] \in entered}

\* cancelAfterTimers and then armAfterTimers.
Rearm(exited, entered) ==
    LET kept == [a \in After |->
                    IF Owner[a] \in exited THEN CancelTimer(a) ELSE timers[a]]
    IN  /\ timers' = [a \in After |->
               IF Owner[a] \in entered
               THEN Append(kept[a], [phase |-> "armed", visit |-> visit'[Owner[a]]])
               ELSE kept[a]]
        /\ armed' = [a \in After |->
               CASE Owner[a] \in entered -> Len(timers[a]) + 1
                 [] Owner[a] \in exited \ entered -> 0
                 [] OTHER -> armed[a]]

Microstep(exited, entered) ==
    /\ pc = "step" /\ steps < MaxStep
    /\ exited \subseteq active /\ entered \cap (active \ exited) = {}
    /\ steps' = steps + 1
    /\ active' = (active \ exited) \cup entered
    /\ visit' = [s \in State |-> IF s \in entered THEN visit[s] + 1 ELSE visit[s]]
    /\ pending' = PlannedPending(exited, entered)
    /\ Rearm(exited, entered)
    /\ ended' \in BOOLEAN
    /\ \E k \in 0 .. MaxCommand : outbox' \in [1 .. k -> Invoke]
    /\ pc' = "deliver"
    /\ UNCHANGED <<draining, cancelled, done, mailbox, children, spawned, events>>

\* An observer aborts, or the always-loop guard trips: nothing is committed.
Fail ==
    /\ pc = "step" /\ ended' = TRUE
    /\ pc' = "shutdown"
    /\ UNCHANGED <<draining, active, visit, steps, cancelled, done, mailbox,
                   outbox, children, spawned, armed, timers, pending, events>>

(***************************************************************************)
(* drainOutbox: deliver may block until the child takes the command or its *)
(* context is cancelled.                                                   *)
(***************************************************************************)
Running(i) == spawned[i][children[i]]

Deliver ==
    /\ pc = "deliver" /\ outbox # <<>>
    /\ LET i == Head(outbox) IN
          /\ i \in Sendable /\ children[i] # 0
          /\ Running(i).backlog < RecvCap
          /\ spawned' = [spawned EXCEPT ![i][children[i]].backlog = @ + 1]
    /\ outbox' = Tail(outbox)
    /\ UNCHANGED <<pc, draining, ended, active, visit, steps, cancelled, done,
                   mailbox, children, armed, timers, pending, events>>

\* Wrong: every child is taken to have a deliver function.
UndeliverableToNone(i) == children[i] = 0

\* No live child, none that takes commands, or one that was cancelled.
Undeliverable(i) ==
    i \in Sendable /\ children[i] # 0 =>
        \/ Running(i).cancelled
        \/ Adapter[i] = "machine" /\ Running(i).phase # "run"

DropCommand ==
    /\ pc = "deliver" /\ outbox # <<>> /\ Undeliverable(Head(outbox))
    /\ outbox' = Tail(outbox)
    /\ UNCHANGED <<pc, draining, ended, active, visit, steps, cancelled, done,
                   mailbox, children, spawned, armed, timers, pending, events>>

Delivered ==
    /\ pc = "deliver" /\ outbox = <<>>
    /\ pc' = IF ended THEN "shutdown" ELSE "step"
    /\ UNCHANGED <<draining, ended, active, visit, steps, cancelled, done,
                   mailbox, outbox, children, spawned, armed, timers, pending,
                   events>>

-----------------------------------------------------------------------------
(***************************************************************************)
(* reconcileInvokes, at the end of every macrostep but those of a drain.   *)
(***************************************************************************)
\* stop: its context and, for a backoff timer or a machine, the child itself.
Halt(i, c) ==
    [c EXCEPT !.cancelled = TRUE,
              !.phase = IF @ = "run" /\ Adapter[i] \in {"backoff", "machine"}
                        THEN "end" ELSE @]

\* Wrong: the children of states left are forgotten but not stopped.
Forget(ids) == spawned

\* The children of ids are stopped.
HaltAll(ids) ==
    [i \in Invoke |-> IF i \in ids /\ children[i] # 0
                      THEN [spawned[i] EXCEPT ![children[i]] = Halt(i, @)]
                      ELSE spawned[i]]

Desired == {i \in Invoke : Owner[i] \in active}

Quiescent ==
    /\ pc = "step" /\ steps > 0
    /\ IF draining
       THEN pc' = "drain" /\ UNCHANGED <<children, spawned>>
       ELSE /\ pc' = "spawn"
            /\ spawned' = HaltAll(Invoke \ Desired)
            /\ children' = [i \in Invoke |-> IF i \in Desired THEN children[i] ELSE 0]
    /\ UNCHANGED <<draining, ended, active, visit, steps, cancelled, done,
                   mailbox, outbox, armed, timers, pending, events>>

\* Wrong: what was started once is taken to be running.
ToSpawnOnce == {i \in Desired : spawned[i] = <<>>}

ToSpawn == {i \in Desired : children[i] = 0}

Spawn(i) ==
    /\ pc = "spawn" /\ i \in ToSpawn
    /\ spawned' = [spawned EXCEPT ![i] = Append(@,
          [phase |-> "run", cancelled |-> cancelled, visit |-> visit[Owner[i]],
           backlog |-> 0, emitted |-> 0, posted |-> FALSE])]
    /\ children' = [children EXCEPT ![i] = Len(spawned[i]) + 1]
    /\ UNCHANGED <<pc, draining, ended, active, visit, steps, cancelled, done,
                   mailbox, outbox, armed, timers, pending, events>>

Reconciled ==
    /\ pc = "spawn" /\ ToSpawn = {}
    /\ pc' = "select"
    /\ UNCHANGED <<draining, ended, active, visit, steps, cancelled, done,
                   mailbox, outbox, children, spawned, armed, timers, pending,
                   events>>

-----------------------------------------------------------------------------
(***************************************************************************)
(* The loop and drainAndClose.                                             *)
(***************************************************************************)
Receive(kinds, next) ==
    /\ mailbox # <<>> /\ Head(mailbox).kind \in kinds
    /\ mailbox' = Tail(mailbox)
    /\ pc' = next
    /\ UNCHANGED <<ended, active, visit, steps, cancelled, done, outbox,
                   children, spawned, armed, timers, pending, events>>

Handles == {"event", "emit", "outcome", "after"}

\* Wrong: the context is only looked at when an event has arrived.
LoopCancelledPolled ==
    /\ pc = "select" /\ cancelled /\ mailbox # <<>>
    /\ pc' = "shutdown"
    /\ UNCHANGED <<draining, ended, active, visit, steps, cancelled, done,
                   mailbox, outbox, children, spawned, armed, timers, pending,
                   events>>

LoopCancelled ==
    /\ pc = "select" /\ cancelled
    /\ pc' = "shutdown"
    /\ UNCHANGED <<draining, ended, active, visit, steps, cancelled, done,
                   mailbox, outbox, children, spawned, armed, timers, pending,
                   events>>

LoopEvent      == pc = "select" /\ Receive(Handles, "step") /\ UNCHANGED draining
LoopDrainClose == pc = "select" /\ Receive({"drainClose"}, "drain") /\ draining' = TRUE
DrainEvent     == pc = "drain" /\ Receive(Handles, "step") /\ UNCHANGED draining
DrainSentinel  == pc = "drain" /\ Receive({"drainClose"}, "drain") /\ UNCHANGED draining

DrainEmpty ==
    /\ pc = "drain" /\ mailbox = <<>>
    /\ pc' = "shutdown"
    /\ UNCHANGED <<draining, ended, active, visit, steps, cancelled, done,
                   mailbox, outbox, children, spawned, armed, timers, pending,
                   events>>

\* What the cancellation of loopCtx does to the children that are left.
CancelTree(kids) ==
    [i \in Invoke |-> [n \in DOMAIN kids[i] |-> [kids[i][n] EXCEPT !.cancelled = TRUE]]]

\* Wrong: the timers are left to the context that Schedule was given.
ShutdownByContext ==
    /\ pc = "shutdown"
    /\ cancelled' = TRUE
    /\ spawned' = CancelTree(HaltAll(Invoke))
    /\ children' = [i \in Invoke |-> 0]
    /\ armed' = [a \in After |-> 0]
    /\ pc' = "close"
    /\ UNCHANGED <<draining, ended, active, visit, steps, done, mailbox, outbox,
                   timers, pending, events>>

\* shutdown up to the closing of done; PendingAfter stays in the snapshot.
Shutdown ==
    /\ pc = "shutdown"
    /\ cancelled' = TRUE
    /\ spawned' = CancelTree(HaltAll(Invoke))
    /\ children' = [i \in Invoke |-> 0]
    /\ timers' = [a \in After |-> CancelTimer(a)]
    /\ armed' = [a \in After |-> 0]
    /\ pc' = "close"
    /\ UNCHANGED <<draining, ended, active, visit, steps, done, mailbox, outbox,
                   pending, events>>

CloseDone ==
    /\ pc = "close"
    /\ done' = TRUE /\ pc' = "exit"
    /\ UNCHANGED <<draining, ended, active, visit, steps, cancelled, mailbox,
                   outbox, children, spawned, armed, timers, pending, events>>

Actor ==
    \/ \E exited, entered \in SUBSET State : Microstep(exited, entered)
    \/ Fail \/ Deliver \/ DropCommand \/ Delivered
    \/ Quiescent \/ (\E i \in Invoke : Spawn(i)) \/ Reconciled
    \/ LoopCancelled \/ LoopEvent \/ LoopDrainClose
    \/ DrainEvent \/ DrainSentinel \/ DrainEmpty
    \/ Shutdown \/ CloseDone

-----------------------------------------------------------------------------
(***************************************************************************)
(* The goroutine of the n-th child of invoke i.                            *)
(***************************************************************************)
\* A step of the child that changes its own record alone.
Becomes(i, n, child) ==
    /\ spawned' = [spawned EXCEPT ![i][n] = child]
    /\ UNCHANGED <<actorVars, timers, events>>

\* A callback (or an observable) sends an intermediate event ...
Emit(i, n) ==
    LET c == spawned[i][n] IN
    /\ Adapter[i] = "callback" /\ c.phase = "run" /\ c.emitted < MaxEmit
    /\ Becomes(i, n, [c EXCEPT !.phase = "emit", !.emitted = @ + 1])
    /\ UNCHANGED mailbox

\* ... which waits for room in the mailbox, or for the actor to be gone.
Emitted(i, n) ==
    LET c == spawned[i][n] IN
    /\ c.phase = "emit"
    /\ (Post(Item("emit", i, n)) \/ (done /\ UNCHANGED mailbox))
    /\ Becomes(i, n, [c EXCEPT !.phase = "run"])

TakeCommand(i, n) ==
    LET c == spawned[i][n] IN
    /\ c.phase = "run" /\ c.backlog > 0
    /\ Becomes(i, n, [c EXCEPT !.backlog = @ - 1])
    /\ UNCHANGED mailbox

\* The function returns, the timer fires, or the machine reaches its end.
Return(i, n) ==
    LET c == spawned[i][n] IN
    /\ c.phase = "run"
    /\ Becomes(i, n, [c EXCEPT !.phase = "returned"])
    /\ UNCHANGED mailbox

\* A child machine stops with the context it was started in.
MachineStops(i, n) ==
    LET c == spawned[i][n] IN
    /\ Adapter[i] = "machine" /\ c.phase = "run" /\ c.cancelled
    /\ Becomes(i, n, [c EXCEPT !.phase = "end"])
    /\ UNCHANGED mailbox

\* ctx.Err() # nil: the outcome is discarded.  Nor is there anything to post if
\* no event was given for the outcome, which only these adapters allow.
Discard(i, n) ==
    LET c == spawned[i][n] IN
    /\ c.phase = "returned" /\ (c.cancelled \/ i \in Sendable)
    /\ Becomes(i, n, [c EXCEPT !.phase = "end"])
    /\ UNCHANGED mailbox

\* It is not: the outcome is to be posted.  A machine's last snapshot and the
\* cancellation of its subscription may both be ready, and either is taken.
Report(i, n) ==
    LET c == spawned[i][n] IN
    /\ c.phase = "returned" /\ (c.cancelled => Adapter[i] = "machine")
    /\ Becomes(i, n, [c EXCEPT !.phase = "post"])
    /\ UNCHANGED mailbox

\* Wrong: the goroutine does not end with its outcome.
PostOutcomeAgain(i, n) ==
    LET c == spawned[i][n] IN
    /\ c.phase = "post"
    /\ \/ Post(Item("outcome", i, n)) /\ Becomes(i, n, [c EXCEPT !.posted = ~@])
       \/ done /\ UNCHANGED mailbox /\ Becomes(i, n, [c EXCEPT !.phase = "end"])

PostOutcome(i, n) ==
    LET c == spawned[i][n] IN
    /\ c.phase = "post"
    /\ \/ /\ Post(Item("outcome", i, n))
          /\ Becomes(i, n, [c EXCEPT !.phase = "end", !.posted = TRUE])
       \/ /\ done /\ UNCHANGED mailbox
          /\ Becomes(i, n, [c EXCEPT !.phase = "end"])

\* What a child does by itself, once it has returned or been cancelled.
Finish(i, n) ==
    /\ n \in DOMAIN spawned[i]
    /\ \/ Emitted(i, n) \/ MachineStops(i, n) \/ Discard(i, n)
       \/ Report(i, n) \/ PostOutcome(i, n)
       \/ spawned[i][n].cancelled /\ Return(i, n)

ChildStep(i, n) ==
    Finish(i, n) \/ Emit(i, n) \/ TakeCommand(i, n) \/ Return(i, n)

-----------------------------------------------------------------------------
(***************************************************************************)
(* The n-th timer of the after transition a (InProcessTimerService).       *)
(***************************************************************************)
Turns(a, n, from, to) ==
    /\ timers[a][n].phase = from
    /\ timers' = [timers EXCEPT ![a][n].phase = to]
    /\ UNCHANGED <<actorVars, spawned, events>>

TimerFires(a, n) == Turns(a, n, "armed", "fired") /\ UNCHANGED mailbox

AfterPosted(a, n) == Turns(a, n, "fired", "posted") /\ Post(Item("after", a, n))

\* Wrong: the timer's goroutine waits for room alone.
AfterWaits(a, n) ==
    done /\ Turns(a, n, "fired", "released") /\ Post(Item("after", a, n))

AfterReleased(a, n) == done /\ Turns(a, n, "fired", "released") /\ UNCHANGED mailbox

TimerStep(a, n) ==
    /\ n \in DOMAIN timers[a]
    /\ TimerFires(a, n) \/ AfterPosted(a, n) \/ AfterReleased(a, n)

-----------------------------------------------------------------------------
(***************************************************************************)
(* The host.                                                               *)
(***************************************************************************)
\* A Send that looked before done was closed may still enqueue afterwards.
HostSend ==
    /\ events < MaxEvent
    /\ \E kind \in {"event", "drainClose"} : Post(Item(kind, Host, events + 1))
    /\ events' = events + 1
    /\ UNCHANGED <<actorVars, spawned, timers>>

\* Close, or the context given to Start.
HostCancel ==
    /\ ~cancelled
    /\ cancelled' = TRUE
    /\ spawned' = CancelTree(spawned)
    /\ UNCHANGED <<pc, draining, ended, active, visit, steps, done, mailbox,
                   outbox, children, armed, timers, pending, events>>

AllOver ==
    /\ pc = "exit"
    /\ \A i \in Invoke : \A n \in DOMAIN spawned[i] : spawned[i][n].phase = "end"
    /\ \A a \in After : \A n \in DOMAIN timers[a] :
          timers[a][n].phase \notin {"armed", "fired"}

Ended == AllOver /\ UNCHANGED vars

Next ==
    \/ Actor
    \/ \E i \in Invoke : \E n \in DOMAIN spawned[i] : ChildStep(i, n)
    \/ \E a \in After : \E n \in DOMAIN timers[a] : TimerStep(a, n)
    \/ HostSend \/ HostCancel \/ Ended

Spec == Init /\ [][Next]_vars

\* Goroutines run, time passes, and a cancelled function returns; a child
\* need not otherwise return, nor read its commands, nor the host do anything.
Fairness ==
    /\ WF_vars(Actor)
    /\ \A i \in Invoke : \A n \in 1 .. MaxStep : WF_vars(Finish(i, n))
    /\ \A a \in After : \A n \in 1 .. MaxStep : WF_vars(TimerStep(a, n))

FairSpec == Spec /\ Fairness

-----------------------------------------------------------------------------
TypeOK ==
    /\ pc \in {"step", "deliver", "spawn", "select", "drain", "shutdown",
               "close", "exit"}
    /\ draining \in BOOLEAN /\ ended \in BOOLEAN
    /\ cancelled \in BOOLEAN /\ done \in BOOLEAN
    /\ active \in SUBSET State /\ visit \in [State -> Nat]
    /\ steps \in Nat /\ events \in Nat
    /\ mailbox \in Seq(Items) /\ outbox \in Seq(Invoke)
    /\ children \in [Invoke -> Nat] /\ spawned \in [Invoke -> Seq(Child)]
    /\ armed \in [After -> Nat] /\ timers \in [After -> Seq(Timer)]
    /\ pending \in SUBSET After

-----------------------------------------------------------------------------
(***************************************************************************)
(* Safety.                                                                 *)
(***************************************************************************)
\* Deferred invokes: whenever the actor is back at its mailbox, the children it
\* keeps are those of the active states, whatever the macrostep went through,
\* and outside a cancellation none of them has lost its context.
InvokesMatch ==
    pc = "select" => \A i \in Invoke :
        /\ children[i] # 0 <=> Owner[i] \in active
        /\ children[i] # 0 /\ ~cancelled => ~Running(i).cancelled

\* A child that the actor no longer keeps has been told: no two children of an
\* invoke hold a live context at once, and none is leaked.
NoneForgotten ==
    \A i \in Invoke : \A n \in DOMAIN spawned[i] :
        spawned[i][n].cancelled \/ n = children[i]

\* Until the actor shuts down, the timers armed and the PendingAfter that is
\* published are those of the active states, and any other timer has fired or
\* been stopped.
TimersMatch ==
    /\ pc \notin {"close", "exit"} =>
          \A a \in After : /\ armed[a] # 0 <=> Owner[a] \in active
                           /\ a \in pending <=> Owner[a] \in active
    /\ \A a \in After : \A n \in DOMAIN timers[a] :
          timers[a][n].phase = "armed" =>
              n = armed[a] /\ timers[a][n].visit = visit[Owner[a]]

\* Bottom-up shutdown: when the waiters are released no child holds a live
\* context and no timer is armed.
NothingOutlives ==
    done => /\ \A i \in Invoke : children[i] = 0
            /\ \A i \in Invoke : \A n \in DOMAIN spawned[i] : spawned[i][n].cancelled
            /\ \A a \in After : \A n \in DOMAIN timers[a] :
                  timers[a][n].phase # "armed"

\* Every invoke is a series of attempts that do not overlap, and none of them
\* reports twice.
A(i) == INSTANCE Attempts WITH
            current <- children[i], begun <- Len(spawned[i]),
            reported <- {n \in DOMAIN spawned[i] : spawned[i][n].posted}
SeparateAttempts ==
    /\ \A i \in Invoke : A(i)!Init
    /\ [][\A i \in Invoke : [A(i)!Next]_(A(i)!attemptVars)]_vars

\* What transition-algorithm.md says of a targeted transition: it restarts the
\* invokes of the states it exits and enters again.
Reinvoked ==
    pc = "select" => \A i \in Desired : Running(i).visit = visit[Owner[i]]

-----------------------------------------------------------------------------
(***************************************************************************)
(* Liveness.                                                               *)
(***************************************************************************)
\* The actor waits in deliver for the first child of its outbox, which it keeps,
\* whose queue is full and whose context is live.
Held == /\ pc = "deliver" /\ outbox # <<>>
        /\ LET i == Head(outbox) IN
              /\ i \in Sendable /\ children[i] # 0
              /\ Running(i).backlog = RecvCap /\ ~Running(i).cancelled

\* The actor always comes back to its mailbox or ends.  One thing may keep it away
\* for good, and no command to any other child: one whose queue is full and that
\* does not read, because it has stopped to, has returned (of a callback the
\* actor learns that from its mailbox alone) or waits for room in that mailbox.
BackToMailbox == []<>(pc \in {"select", "exit"}) \/ <>[]Held

\* A cancelled actor stops, wherever it stands: held by a child as well.
Stops == cancelled ~> done

\* Once it has stopped, every goroutine it started ends, those too that were
\* posting to a mailbox nobody reads any more.
AllReleased == done ~> AllOver
=============================================================================
