-------------------------- MODULE InvocationProofs --------------------------
(***************************************************************************)
(* Proofs about Invocation, for every chart of states that own invokes and *)
(* after timers, every mix of adapters and every bound.                    *)
(***************************************************************************)
EXTENDS Invocation, SequenceTheorems, TLAPS

(***************************************************************************)
(* The inductive invariant.                                                *)
(***************************************************************************)
\* What the actor keeps of an invoke is the number of one of its children, and
\* a child that has posted its outcome is at its end.
KeptInv ==
    \A i \in Invoke :
        /\ children[i] \in 0 .. Len(spawned[i])
        /\ \A n \in DOMAIN spawned[i] :
              spawned[i][n].posted => spawned[i][n].phase = "end"

\* Whose context is cancelled: of the children not kept, all; of those kept, all
\* or none, as loopCtx is.
ContextInv ==
    \A i \in Invoke : \A n \in DOMAIN spawned[i] :
        spawned[i][n].cancelled <=> cancelled \/ n # children[i]

\* Which children are kept, by where the actor stands.
OwnersInv ==
    /\ pc = "spawn" => \A i \in Invoke : children[i] # 0 => Owner[i] \in active
    /\ pc = "select" => \A i \in Invoke : children[i] # 0 <=> Owner[i] \in active

\* After shutdown nothing is kept and nothing is armed.
StopInv ==
    /\ done <=> pc = "exit"
    /\ pc \in {"close", "exit"} =>
          /\ cancelled
          /\ \A i \in Invoke : children[i] = 0
          /\ \A a \in After : armed[a] = 0

ArmedInv == \A a \in After : armed[a] \in 0 .. Len(timers[a])

IInv == /\ TypeOK /\ KeptInv /\ ContextInv /\ OwnersInv /\ StopInv
        /\ ArmedInv /\ TimersMatch

-----------------------------------------------------------------------------
(***************************************************************************)
(* What the model's operators do to the children and the timers.           *)
(***************************************************************************)
\* A function on 1 .. n is a sequence of length n.
LEMMA SeqOfFunction ==
    ASSUME NEW S, NEW n \in Nat, NEW f \in [1 .. n -> S]
    PROVE  f \in Seq(S) /\ Len(f) = n /\ DOMAIN f = 1 .. n
  <1>1. f \in Seq(S)
    BY SeqDef
  <1>2. QED
    BY <1>1, LenProperties

\* What a sequence is made of.
LEMMA SeqElements ==
    ASSUME NEW S, NEW s \in Seq(S)
    PROVE  /\ Len(s) \in Nat /\ DOMAIN s = 1 .. Len(s)
           /\ \A n \in 1 .. Len(s) : s[n] \in S
  BY LenProperties

\* Halting a child cancels its context, and changes its phase only to the end.
LEMMA HaltChild ==
    ASSUME NEW i, NEW c \in Child
    PROVE  /\ Halt(i, c) \in Child
           /\ Halt(i, c).cancelled /\ Halt(i, c).posted = c.posted
           /\ c.phase = "end" => Halt(i, c).phase = "end"
  BY DEF Halt, Child

\* HaltAll keeps the children in place and halts only those that are kept.
LEMMA HaltAllChildren ==
    ASSUME TypeOK, KeptInv, NEW ids
    PROVE  /\ HaltAll(ids) \in [Invoke -> Seq(Child)]
           /\ \A i \in Invoke :
                 /\ Len(HaltAll(ids)[i]) = Len(spawned[i])
                 /\ \A n \in DOMAIN spawned[i] :
                       HaltAll(ids)[i][n] =
                          IF i \in ids /\ n = children[i]
                          THEN Halt(i, spawned[i][n]) ELSE spawned[i][n]
  <1> SUFFICES ASSUME NEW i \in Invoke
               PROVE  /\ HaltAll(ids)[i] \in Seq(Child)
                      /\ Len(HaltAll(ids)[i]) = Len(spawned[i])
                      /\ \A n \in DOMAIN spawned[i] :
                            HaltAll(ids)[i][n] =
                               IF i \in ids /\ n = children[i]
                               THEN Halt(i, spawned[i][n]) ELSE spawned[i][n]
    BY DEF HaltAll
  <1>1. /\ spawned[i] \in Seq(Child) /\ Len(spawned[i]) \in Nat
        /\ DOMAIN spawned[i] = 1 .. Len(spawned[i])
        /\ children[i] \in 0 .. Len(spawned[i])
    BY LenProperties DEF TypeOK, KeptInv
  <1>2. CASE i \in ids /\ children[i] # 0
    <2>1. children[i] \in 1 .. Len(spawned[i])
      BY <1>1, <1>2
    <2>2. Halt(i, spawned[i][children[i]]) \in Child
      BY <1>1, <2>1, ElementOfSeq, HaltChild
    <2>3. HaltAll(ids)[i] = [spawned[i] EXCEPT ![children[i]] =
                                Halt(i, spawned[i][children[i]])]
      BY <1>2, Zenon DEF HaltAll
    <2>4. QED
      BY <1>1, <1>2, <2>1, <2>2, <2>3, ExceptSeq
  <1>3. CASE ~(i \in ids /\ children[i] # 0)
    <2>1. HaltAll(ids)[i] = spawned[i]
      BY <1>3 DEF HaltAll
    <2>2. QED
      BY <1>1, <1>3, <2>1
  <1>4. QED
    BY <1>2, <1>3

\* CancelTree cancels every context and does nothing else.
LEMMA CancelTreeChildren ==
    ASSUME NEW kids \in [Invoke -> Seq(Child)]
    PROVE  /\ CancelTree(kids) \in [Invoke -> Seq(Child)]
           /\ \A i \in Invoke :
                 /\ Len(CancelTree(kids)[i]) = Len(kids[i])
                 /\ \A n \in DOMAIN kids[i] :
                       CancelTree(kids)[i][n] = [kids[i][n] EXCEPT !.cancelled = TRUE]
  <1> SUFFICES ASSUME NEW i \in Invoke
               PROVE  /\ CancelTree(kids)[i] \in Seq(Child)
                      /\ Len(CancelTree(kids)[i]) = Len(kids[i])
                      /\ \A n \in DOMAIN kids[i] :
                            CancelTree(kids)[i][n] = [kids[i][n] EXCEPT !.cancelled = TRUE]
    BY DEF CancelTree
  <1>1. /\ kids[i] \in Seq(Child) /\ Len(kids[i]) \in Nat
        /\ DOMAIN kids[i] = 1 .. Len(kids[i])
        /\ \A n \in 1 .. Len(kids[i]) : kids[i][n] \in Child
    BY SeqElements
  <1>2. CancelTree(kids)[i] =
            [n \in 1 .. Len(kids[i]) |-> [kids[i][n] EXCEPT !.cancelled = TRUE]]
    BY <1>1 DEF CancelTree
  <1>3. \A n \in 1 .. Len(kids[i]) : [kids[i][n] EXCEPT !.cancelled = TRUE] \in Child
    BY <1>1 DEF Child
  <1>4. QED
    BY <1>1, <1>2, <1>3, SeqOfFunction

\* Cancelling the timer of an after transition stops it if it is armed.
LEMMA CancelTimerStops ==
    ASSUME TypeOK, NEW a \in After
    PROVE  /\ CancelTimer(a) \in Seq(Timer)
           /\ Len(CancelTimer(a)) = Len(timers[a])
           /\ \A n \in DOMAIN timers[a] :
                 CancelTimer(a)[n].phase = "armed" =>
                     n # armed[a] /\ CancelTimer(a)[n] = timers[a][n]
  <1>1. /\ timers[a] \in Seq(Timer) /\ Len(timers[a]) \in Nat
        /\ DOMAIN timers[a] = 1 .. Len(timers[a])
        /\ \A n \in 1 .. Len(timers[a]) : timers[a][n] \in Timer
    BY SeqElements DEF TypeOK
  <1>2. \A n \in 1 .. Len(timers[a]) :
            timers[a][n] \in Timer
            /\ [timers[a][n] EXCEPT !.phase = "stopped"] \in Timer
            /\ [timers[a][n] EXCEPT !.phase = "stopped"].phase = "stopped"
    BY <1>1 DEF Timer
  <1>3. CancelTimer(a) \in [1 .. Len(timers[a]) -> Timer]
    BY <1>1, <1>2 DEF CancelTimer
  <1>4. QED
    BY <1>1, <1>2, <1>3, SeqOfFunction DEF CancelTimer

-----------------------------------------------------------------------------
(***************************************************************************)
(* Type correctness.                                                       *)
(***************************************************************************)
\* The actor's steps that touch neither a child nor a timer.
Bookkeeping ==
    \/ Fail \/ DropCommand \/ Delivered \/ Reconciled \/ LoopCancelled
    \/ LoopEvent \/ LoopDrainClose \/ DrainEvent \/ DrainSentinel \/ DrainEmpty
    \/ CloseDone

LEMMA BookkeepingType ==
    ASSUME TypeOK, Bookkeeping
    PROVE  TypeOK'
  <1> USE DEF TypeOK
  <1>1. CASE Fail
    BY <1>1 DEF Fail
  <1>2. CASE DropCommand
    <2>1. outbox' \in Seq(Invoke)
      BY <1>2, HeadTailProperties DEF DropCommand
    <2>2. QED
      BY <1>2, <2>1 DEF DropCommand
  <1>3. CASE Delivered \/ Reconciled \/ LoopCancelled \/ DrainEmpty \/ CloseDone
    BY <1>3 DEF Delivered, Reconciled, LoopCancelled, DrainEmpty, CloseDone
  <1>4. ASSUME NEW kinds, NEW next \in {"step", "drain"}, Receive(kinds, next),
               draining' \in BOOLEAN
        PROVE  TypeOK'
    <2>1. mailbox' \in Seq(Items)
      BY <1>4, HeadTailProperties DEF Receive
    <2>2. QED
      BY <1>4, <2>1 DEF Receive
  <1>5. QED
    BY <1>1, <1>2, <1>3, <1>4
       DEF Bookkeeping, LoopEvent, LoopDrainClose, DrainEvent, DrainSentinel

\* A microstep: the timers it stops and arms are timers.
LEMMA MicrostepTimers ==
    ASSUME TypeOK, NEW exited \in SUBSET State, NEW entered \in SUBSET State,
           Microstep(exited, entered), NEW a \in After
    PROVE  LET kept == IF Owner[a] \in exited THEN CancelTimer(a) ELSE timers[a]
           IN  /\ kept \in Seq(Timer) /\ Len(kept) = Len(timers[a])
               /\ Owner[a] \in State /\ visit'[Owner[a]] \in Nat
               /\ [phase |-> "armed", visit |-> visit'[Owner[a]]] \in Timer
               /\ timers'[a] = IF Owner[a] \in entered
                               THEN Append(kept, [phase |-> "armed",
                                                  visit |-> visit'[Owner[a]]])
                               ELSE kept
               /\ timers'[a] \in Seq(Timer)
  <1> DEFINE kept == IF Owner[a] \in exited THEN CancelTimer(a) ELSE timers[a]
  <1>1. kept \in Seq(Timer) /\ Len(kept) = Len(timers[a])
    BY CancelTimerStops DEF TypeOK
  <1>2. Owner[a] \in State
    BY InvocationAssumption
  <1>3. visit'[Owner[a]] \in Nat
    BY <1>2 DEF Microstep, TypeOK
  <1>4. [phase |-> "armed", visit |-> visit'[Owner[a]]] \in Timer
    BY <1>3 DEF Timer
  <1>5. timers'[a] = IF Owner[a] \in entered
                     THEN Append(kept, [phase |-> "armed", visit |-> visit'[Owner[a]]])
                     ELSE kept
    BY DEF Microstep, Rearm
  <1>6. timers'[a] \in Seq(Timer)
    BY <1>1, <1>4, <1>5, AppendProperties
  <1>7. QED
    BY <1>1, <1>2, <1>3, <1>4, <1>5, <1>6

LEMMA MicrostepType ==
    ASSUME TypeOK, NEW exited \in SUBSET State, NEW entered \in SUBSET State,
           Microstep(exited, entered)
    PROVE  TypeOK'
  <1> USE DEF TypeOK
  <1>1. timers' \in [After -> Seq(Timer)]
    <2>1. \A a \in After : timers'[a] \in Seq(Timer)
      BY MicrostepTimers
    <2>2. timers' = [a \in After |-> timers'[a]]
      BY DEF Microstep, Rearm
    <2>3. QED
      BY <2>1, <2>2
  <1>2. armed' \in [After -> Nat]
    <2>1. \A a \in After : Len(timers[a]) + 1 \in Nat
      BY SeqElements
    <2>2. armed' = [a \in After |->
                      CASE Owner[a] \in entered -> Len(timers[a]) + 1
                        [] Owner[a] \in exited \ entered -> 0
                        [] OTHER -> armed[a]]
      BY DEF Microstep, Rearm
    <2>3. QED
      BY <2>1, <2>2
  <1>3. outbox' \in Seq(Invoke)
    <2>1. PICK k \in 0 .. MaxCommand : outbox' \in [1 .. k -> Invoke]
      BY DEF Microstep
    <2>2. k \in Nat
      BY InvocationAssumption DEF InvocationAssumption
    <2>3. QED
      BY <2>1, <2>2
  <1>4. visit' \in [State -> Nat]
    BY DEF Microstep
  <1>5. active' \in SUBSET State /\ pending' \in SUBSET After
    BY DEF Microstep, PlannedPending
  <1>6. QED
    BY <1>1, <1>2, <1>3, <1>4, <1>5 DEF Microstep
\* What becomes of the table of children when one record in it is replaced ...
LEMMA OneChild ==
    ASSUME TypeOK, NEW i \in Invoke, NEW n \in DOMAIN spawned[i], NEW c \in Child,
           spawned' = [spawned EXCEPT ![i][n] = c]
    PROVE  /\ spawned' \in [Invoke -> Seq(Child)]
           /\ \A j \in Invoke :
                 /\ Len(spawned'[j]) = Len(spawned[j])
                 /\ DOMAIN spawned'[j] = DOMAIN spawned[j]
                 /\ \A m \in DOMAIN spawned[j] :
                       spawned'[j][m] = IF j = i /\ m = n THEN c ELSE spawned[j][m]
  <1>1. /\ spawned[i] \in Seq(Child) /\ n \in 1 .. Len(spawned[i])
        /\ DOMAIN spawned[i] = 1 .. Len(spawned[i])
    BY SeqElements DEF TypeOK
  <1>2. /\ [spawned[i] EXCEPT ![n] = c] \in Seq(Child)
        /\ Len([spawned[i] EXCEPT ![n] = c]) = Len(spawned[i])
        /\ \A m \in 1 .. Len(spawned[i]) :
              [spawned[i] EXCEPT ![n] = c][m] = IF m = n THEN c ELSE spawned[i][m]
    BY <1>1, ExceptSeq
  <1>3. DOMAIN [spawned[i] EXCEPT ![n] = c] = DOMAIN spawned[i]
    OBVIOUS
  <1>4. \A j \in Invoke :
            spawned'[j] = IF j = i THEN [spawned[i] EXCEPT ![n] = c] ELSE spawned[j]
    BY DEF TypeOK
  <1>5. spawned' \in [Invoke -> Seq(Child)]
    BY <1>2 DEF TypeOK
  <1>6. QED
    BY <1>1, <1>2, <1>3, <1>4, <1>5

\* ... and when one is appended.
LEMMA NewChild ==
    ASSUME TypeOK, NEW i \in Invoke, NEW c \in Child,
           spawned' = [spawned EXCEPT ![i] = Append(spawned[i], c)]
    PROVE  /\ spawned' \in [Invoke -> Seq(Child)]
           /\ \A j \in Invoke :
                 /\ Len(spawned'[j]) = IF j = i THEN Len(spawned[i]) + 1
                                               ELSE Len(spawned[j])
                 /\ \A m \in DOMAIN spawned[j] : spawned'[j][m] = spawned[j][m]
           /\ spawned'[i][Len(spawned[i]) + 1] = c
  <1>1. \A j \in Invoke : /\ spawned[j] \in Seq(Child) /\ Len(spawned[j]) \in Nat
                          /\ DOMAIN spawned[j] = 1 .. Len(spawned[j])
    BY SeqElements DEF TypeOK
  <1>2. /\ Append(spawned[i], c) \in Seq(Child)
        /\ Len(Append(spawned[i], c)) = Len(spawned[i]) + 1
        /\ \A m \in 1 .. Len(spawned[i]) : Append(spawned[i], c)[m] = spawned[i][m]
        /\ Append(spawned[i], c)[Len(spawned[i]) + 1] = c
    BY <1>1, AppendProperties
  <1>3. \A j \in Invoke :
            spawned'[j] = IF j = i THEN Append(spawned[i], c) ELSE spawned[j]
    BY DEF TypeOK
  <1>4. spawned' \in [Invoke -> Seq(Child)]
    BY <1>2 DEF TypeOK
  <1>5. QED
    BY <1>1, <1>2, <1>3, <1>4

\* Every step of a child's goroutine is a step of its own record, which has not
\* posted before, leaves its context as it is, and is at its end once it has.
Steps(i, n, c) ==
    /\ spawned' = [spawned EXCEPT ![i][n] = c]
    /\ c.cancelled = spawned[i][n].cancelled
    /\ ~spawned[i][n].posted
    /\ c.posted => c.phase = "end"
    /\ mailbox' \in Seq(Items)
    /\ UNCHANGED <<actorVars, timers, events>>

\* Whatever is posted is an item.
LEMMA PostedItem ==
    ASSUME TypeOK, NEW kind \in {"event", "drainClose", "emit", "outcome", "after"},
           NEW of \in Invoke \cup After \cup {Host}, NEW n \in Nat,
           Post(Item(kind, of, n))
    PROVE  mailbox' \in Seq(Items)
  <1>1. Item(kind, of, n) \in Items
    BY DEF Item, Items
  <1>2. QED
    BY <1>1, AppendProperties DEF Post, TypeOK

LEMMA ChildSteps ==
    ASSUME TypeOK, KeptInv, NEW i \in Invoke, NEW n \in DOMAIN spawned[i],
           ChildStep(i, n)
    PROVE  \E c \in Child : Steps(i, n, c)
  <1> DEFINE old == spawned[i][n]
  <1>1. old \in Child /\ n \in Nat
    BY SeqElements DEF TypeOK
  <1>2. old.posted => old.phase = "end"
    BY DEF KeptInv
  <1>3. UNCHANGED mailbox => mailbox' \in Seq(Items)
    BY DEF TypeOK
  <1> USE DEF Becomes, Steps
  <1>4. CASE Emit(i, n)
    <2> DEFINE new == [old EXCEPT !.phase = "emit", !.emitted = @ + 1]
    <2>0. old.emitted \in Nat /\ old.emitted + 1 \in Nat
      BY <1>1 DEF Child
    <2>1. new \in Child /\ new.cancelled = old.cancelled /\ new.posted = old.posted
      BY <1>1, <2>0 DEF Child
    <2>2. /\ old.phase = "run" /\ spawned' = [spawned EXCEPT ![i][n] = new]
          /\ UNCHANGED <<actorVars, timers, events, mailbox>>
      BY <1>4 DEF Emit
    <2>3. Steps(i, n, new)
      BY <1>2, <1>3, <2>1, <2>2
    <2>4. QED
      BY <2>1, <2>3
  <1>5. CASE Emitted(i, n)
    <2>1. [old EXCEPT !.phase = "run"] \in Child
      BY <1>1 DEF Child
    <2>2. mailbox' \in Seq(Items)
      BY <1>1, <1>3, <1>5, PostedItem DEF Emitted
    <2>3. Steps(i, n, [old EXCEPT !.phase = "run"])
      BY <1>1, <1>2, <1>5, <2>2 DEF Emitted, Child
    <2>4. QED
      BY <2>1, <2>3
  <1>6. CASE TakeCommand(i, n)
    <2>1. [old EXCEPT !.backlog = @ - 1] \in Child
      BY <1>1, <1>6 DEF Child, TakeCommand
    <2>2. Steps(i, n, [old EXCEPT !.backlog = @ - 1])
      BY <1>1, <1>2, <1>3, <1>6 DEF TakeCommand, Child
    <2>3. QED
      BY <2>1, <2>2
  <1>7. ASSUME NEW phase \in {"returned", "post", "end"}, old.phase # "end",
               Becomes(i, n, [old EXCEPT !.phase = phase]), UNCHANGED mailbox
        PROVE  \E c \in Child : Steps(i, n, c)
    <2>1. [old EXCEPT !.phase = phase] \in Child
      BY <1>1 DEF Child
    <2>2. Steps(i, n, [old EXCEPT !.phase = phase])
      BY <1>1, <1>2, <1>3, <1>7 DEF Child
    <2>3. QED
      BY <2>1, <2>2
  <1>8. CASE Return(i, n) \/ MachineStops(i, n) \/ Discard(i, n) \/ Report(i, n)
    BY <1>7, <1>8 DEF Return, MachineStops, Discard, Report
  <1>9. CASE PostOutcome(i, n)
    <2>1. CASE Post(Item("outcome", i, n))
               /\ Becomes(i, n, [old EXCEPT !.phase = "end", !.posted = TRUE])
      <3>1. [old EXCEPT !.phase = "end", !.posted = TRUE] \in Child
        BY <1>1 DEF Child
      <3>2. mailbox' \in Seq(Items)
        BY <1>1, <2>1, PostedItem
      <3>3. Steps(i, n, [old EXCEPT !.phase = "end", !.posted = TRUE])
        BY <1>1, <1>2, <1>9, <2>1, <3>2 DEF PostOutcome, Child
      <3>4. QED
        BY <3>1, <3>3
    <2>2. QED
      BY <1>7, <1>9, <2>1 DEF PostOutcome
  <1>10. QED
    BY <1>4, <1>5, <1>6, <1>8, <1>9 DEF ChildStep, Finish
\* A timer that turns is no longer armed; no other timer is touched.
LEMMA OneTimer ==
    ASSUME TypeOK, NEW a \in After, NEW n \in DOMAIN timers[a],
           TimerStep(a, n)
    PROVE  /\ timers' \in [After -> Seq(Timer)]
           /\ \A b \in After :
                 /\ Len(timers'[b]) = Len(timers[b])
                 /\ \A m \in DOMAIN timers'[b] :
                       /\ m \in DOMAIN timers[b]
                       /\ timers'[b][m].phase = "armed" => timers'[b][m] = timers[b][m]
           /\ mailbox' \in Seq(Items)
           /\ UNCHANGED <<actorVars, spawned, events>>
  <1> DEFINE old == timers[a][n]
  <1>1. /\ timers[a] \in Seq(Timer) /\ n \in 1 .. Len(timers[a]) /\ n \in Nat
        /\ DOMAIN timers[a] = 1 .. Len(timers[a]) /\ old \in Timer
    BY SeqElements DEF TypeOK
  <1>2. PICK phase \in {"fired", "posted", "released"} :
            timers' = [timers EXCEPT ![a][n].phase = phase]
    BY DEF TimerStep, TimerFires, AfterPosted, AfterReleased, Turns
  <1> DEFINE new == [old EXCEPT !.phase = phase]
  <1>3. new \in Timer /\ new.phase # "armed"
    BY <1>1 DEF Timer
  <1>4. timers' = [timers EXCEPT ![a] = [timers[a] EXCEPT ![n] = new]]
    BY <1>2
  <1>5. /\ [timers[a] EXCEPT ![n] = new] \in Seq(Timer)
        /\ Len([timers[a] EXCEPT ![n] = new]) = Len(timers[a])
        /\ \A m \in 1 .. Len(timers[a]) :
              [timers[a] EXCEPT ![n] = new][m] = IF m = n THEN new ELSE timers[a][m]
    BY <1>1, <1>3, ExceptSeq
  <1>6. DOMAIN [timers[a] EXCEPT ![n] = new] = DOMAIN timers[a]
    OBVIOUS
  <1> HIDE DEF new
  <1>7. \A b \in After :
            timers'[b] = IF b = a THEN [timers[a] EXCEPT ![n] = new] ELSE timers[b]
    BY <1>4 DEF TypeOK
  <1>8. timers' \in [After -> Seq(Timer)]
    BY <1>4, <1>5 DEF TypeOK
  <1>9. mailbox' \in Seq(Items) /\ UNCHANGED <<actorVars, spawned, events>>
    <2>1. CASE TimerFires(a, n) \/ AfterReleased(a, n)
      BY <2>1 DEF TimerFires, AfterReleased, Turns, TypeOK
    <2>2. CASE AfterPosted(a, n)
      BY <1>1, <2>2, PostedItem DEF AfterPosted, Turns
    <2>3. QED
      BY <2>1, <2>2 DEF TimerStep
  <1>10. \A b \in After :
             /\ Len(timers'[b]) = Len(timers[b])
             /\ \A m \in DOMAIN timers'[b] :
                   /\ m \in DOMAIN timers[b]
                   /\ timers'[b][m].phase = "armed" => timers'[b][m] = timers[b][m]
    <2> SUFFICES ASSUME NEW b \in After
                 PROVE  /\ Len(timers'[b]) = Len(timers[b])
                        /\ \A m \in DOMAIN timers'[b] :
                              /\ m \in DOMAIN timers[b]
                              /\ timers'[b][m].phase = "armed" =>
                                    timers'[b][m] = timers[b][m]
      OBVIOUS
    <2>1. CASE b = a
      BY <1>1, <1>3, <1>5, <1>6, <1>7, <2>1
    <2>2. CASE b # a
      BY <1>7, <2>2
    <2>3. QED
      BY <2>1, <2>2
  <1>11. QED
    BY <1>8, <1>9, <1>10
-----------------------------------------------------------------------------
(***************************************************************************)
(* IInv is inductive.                                                      *)
(***************************************************************************)
LEMMA IInvInit == Init => IInv
  <1> SUFFICES ASSUME Init PROVE IInv
    OBVIOUS
  <1> USE DEF Init
  <1>1. TypeOK
    <2>1. <<>> \in Seq(Items) /\ <<>> \in Seq(Invoke) /\ <<>> \in Seq(Child)
          /\ <<>> \in Seq(Timer)
      OBVIOUS
    <2>2. QED
      BY <2>1 DEF TypeOK
  <1>2. Len(<<>>) = 0 /\ DOMAIN <<>> = {}
    OBVIOUS
  <1>3. KeptInv /\ ContextInv /\ ArmedInv
    BY <1>2 DEF KeptInv, ContextInv, ArmedInv
  <1>4. OwnersInv /\ StopInv
    BY DEF OwnersInv, StopInv
  <1>5. TimersMatch
    BY <1>2 DEF TimersMatch
  <1>6. QED
    BY <1>1, <1>3, <1>4, <1>5 DEF IInv

\* Nothing in the invariant speaks of the mailbox, the outbox or the counters.
LEMMA KeptFrame ==
    ASSUME IInv, UNCHANGED <<children, spawned, cancelled>>
    PROVE  KeptInv' /\ ContextInv'
  BY DEF IInv, KeptInv, ContextInv

LEMMA TimersFrame ==
    ASSUME IInv, UNCHANGED <<armed, timers, active, pending, visit>>,
           pc' \in {"close", "exit"} \/ pc \notin {"close", "exit"}
    PROVE  ArmedInv' /\ TimersMatch'
  BY DEF IInv, ArmedInv, TimersMatch

\* A step that stands still, or goes to a place about which little is said.
LEMMA PlaceFrame ==
    ASSUME IInv, UNCHANGED <<done, children, armed, active>>, cancelled => cancelled',
           pc' \in {pc, "step", "deliver", "drain", "shutdown"},
           pc = "exit" => pc' = "exit"
    PROVE  OwnersInv' /\ StopInv'
  BY DEF IInv, OwnersInv, StopInv, TypeOK

LEMMA IInvBookkeeping == IInv /\ Bookkeeping => IInv'
  <1> SUFFICES ASSUME IInv, Bookkeeping PROVE IInv'
    OBVIOUS
  <1>1. TypeOK'
    BY BookkeepingType DEF IInv
  <1>2. /\ UNCHANGED <<children, spawned, cancelled, armed, timers, active,
                       pending, visit>>
        /\ pc \notin {"close", "exit"} \/ CloseDone
    BY DEF Bookkeeping, Fail, DropCommand, Delivered, Reconciled, LoopCancelled,
           LoopEvent, LoopDrainClose, DrainEvent, DrainSentinel, DrainEmpty,
           CloseDone, Receive
  <1>3. CloseDone => pc' = "exit"
    BY DEF CloseDone
  <1>4. KeptInv' /\ ContextInv' /\ ArmedInv' /\ TimersMatch'
    BY <1>2, <1>3, KeptFrame, TimersFrame
  <1>5. OwnersInv' /\ StopInv'
    <2>1. CASE Reconciled
      BY <2>1 DEF Reconciled, ToSpawn, Desired, IInv, OwnersInv, StopInv
    <2>2. CASE CloseDone
      BY <2>2 DEF CloseDone, IInv, OwnersInv, StopInv
    <2>3. CASE ~Reconciled /\ ~CloseDone
      <3>1. /\ UNCHANGED <<done, children, armed, active, cancelled>>
            /\ pc # "exit" /\ pc' \in {pc, "step", "deliver", "drain", "shutdown"}
        BY <2>3 DEF Bookkeeping, Fail, DropCommand, Delivered, LoopCancelled,
             LoopEvent, LoopDrainClose, DrainEvent, DrainSentinel, DrainEmpty, Receive
      <3>2. QED
        BY <3>1, PlaceFrame
    <2>4. QED
      BY <2>1, <2>2, <2>3
  <1>6. QED
    BY <1>1, <1>4, <1>5 DEF IInv

\* A microstep stops the timers of the states it leaves before it arms those of
\* the states it enters, and no state is entered that was active and not left.
LEMMA IInvMicrostep ==
    ASSUME IInv, NEW exited \in SUBSET State, NEW entered \in SUBSET State,
           Microstep(exited, entered)
    PROVE  IInv'
  <1> USE DEF IInv
  <1>1. TypeOK'
    BY MicrostepType
  <1>2. KeptInv' /\ ContextInv'
    BY KeptFrame DEF Microstep
  <1>3. OwnersInv' /\ StopInv'
    BY DEF Microstep, OwnersInv, StopInv
  <1>4. /\ pc = "step" /\ entered \cap (active \ exited) = {}
        /\ active' = (active \ exited) \cup entered
        /\ pending' = PlannedPending(exited, entered)
        /\ \A s \in State \ entered : visit'[s] = visit[s]
        /\ \A a \in After : armed'[a] = IF Owner[a] \in entered THEN Len(timers[a]) + 1
                                       ELSE IF Owner[a] \in exited THEN 0
                                       ELSE armed[a]
    BY DEF Microstep, Rearm, TypeOK
  <1>5. ASSUME NEW a \in After
        PROVE  /\ armed'[a] \in 0 .. Len(timers'[a])
               /\ armed'[a] # 0 <=> Owner[a] \in active'
               /\ a \in pending' <=> Owner[a] \in active'
               /\ \A n \in DOMAIN timers'[a] : timers'[a][n].phase = "armed" =>
                     n = armed'[a] /\ timers'[a][n].visit = visit'[Owner[a]]
    <2> DEFINE kept == IF Owner[a] \in exited THEN CancelTimer(a) ELSE timers[a]
               new  == [phase |-> "armed", visit |-> visit'[Owner[a]]]
    <2>1. /\ kept \in Seq(Timer) /\ Len(kept) = Len(timers[a])
          /\ Owner[a] \in State /\ new \in Timer
          /\ timers'[a] = IF Owner[a] \in entered THEN Append(kept, new) ELSE kept
      BY MicrostepTimers
    <2>2. /\ Len(timers[a]) \in Nat /\ DOMAIN timers[a] = 1 .. Len(timers[a])
          /\ DOMAIN kept = 1 .. Len(timers[a])
      BY <2>1, SeqElements DEF TypeOK
    <2>3. /\ armed[a] \in 0 .. Len(timers[a])
          /\ armed[a] # 0 <=> Owner[a] \in active
          /\ \A n \in DOMAIN timers[a] : timers[a][n].phase = "armed" =>
                n = armed[a] /\ timers[a][n].visit = visit[Owner[a]]
      BY <1>4 DEF ArmedInv, TimersMatch
    <2>4. Owner[a] \in exited \cup entered =>
              \A n \in DOMAIN kept : kept[n].phase # "armed"
      <3>1. CASE Owner[a] \in exited
        BY <2>2, <2>3, <3>1, CancelTimerStops
      <3>2. CASE Owner[a] \in entered \ exited
        BY <1>4, <2>2, <2>3, <3>2
      <3>3. QED
        BY <3>1, <3>2
    <2>5. pending' = {b \in After : armed[b] # 0 /\ Owner[b] \notin exited}
                        \cup {b \in After : Owner[b] \in entered}
      BY <1>4 DEF PlannedPending
    <2> HIDE DEF kept, new
    <2>6. CASE Owner[a] \in entered
      <3>1. /\ Len(timers'[a]) = Len(timers[a]) + 1
            /\ DOMAIN timers'[a] = 1 .. Len(timers[a]) + 1
            /\ \A n \in 1 .. Len(timers[a]) : timers'[a][n] = kept[n]
            /\ timers'[a][Len(timers[a]) + 1] = new
        <4>1. timers'[a] = Append(kept, new)
          BY <2>1, <2>6
        <4>2. Append(kept, new) \in Seq(Timer)
          BY <2>1, AppendProperties
        <4>3. QED
          BY <2>1, <4>1, <4>2, AppendProperties, SeqElements
      <3>2. armed'[a] = Len(timers[a]) + 1
        BY <1>4, <2>6
      <3>3. QED
        BY <1>4, <2>2, <2>4, <2>5, <2>6, <3>1, <3>2 DEF new
    <2>7. CASE Owner[a] \in exited \ entered
      BY <1>4, <2>1, <2>2, <2>3, <2>4, <2>5, <2>7
    <2>8. CASE Owner[a] \notin exited \cup entered
      <3>1. timers'[a] = timers[a] /\ visit'[Owner[a]] = visit[Owner[a]]
        BY <1>4, <2>1, <2>8 DEF kept
      <3>2. QED
        BY <1>4, <2>3, <2>5, <2>8, <3>1
    <2>9. QED
      BY <2>6, <2>7, <2>8
  <1>6. ArmedInv' /\ TimersMatch'
    BY <1>5 DEF ArmedInv, TimersMatch
  <1>7. QED
    BY <1>1, <1>2, <1>3, <1>6

\* The record of one child changes, and its context does not.
LEMMA OneChildKept ==
    ASSUME IInv, NEW i \in Invoke, NEW n \in DOMAIN spawned[i], NEW c \in Child,
           spawned' = [spawned EXCEPT ![i][n] = c],
           c.cancelled = spawned[i][n].cancelled, c.posted => c.phase = "end",
           UNCHANGED <<children, cancelled>>
    PROVE  spawned' \in [Invoke -> Seq(Child)] /\ KeptInv' /\ ContextInv'
  <1>1. /\ spawned' \in [Invoke -> Seq(Child)]
        /\ \A j \in Invoke :
              /\ Len(spawned'[j]) = Len(spawned[j])
              /\ DOMAIN spawned'[j] = DOMAIN spawned[j]
              /\ \A m \in DOMAIN spawned[j] :
                    spawned'[j][m] = IF j = i /\ m = n THEN c ELSE spawned[j][m]
    BY OneChild DEF IInv
  <1>2. QED
    BY <1>1 DEF IInv, KeptInv, ContextInv

\* Delivering a command lengthens the queue of the child that is kept.
LEMMA IInvDeliver == IInv /\ Deliver => IInv'
  <1> SUFFICES ASSUME IInv, Deliver PROVE IInv'
    OBVIOUS
  <1> DEFINE i == Head(outbox)
             n == children[i]
             c == [spawned[i][n] EXCEPT !.backlog = @ + 1]
  <1>1. /\ pc = "deliver" /\ outbox \in Seq(Invoke) /\ outbox # <<>> /\ n # 0
        /\ spawned' = [spawned EXCEPT ![i][n] = c] /\ outbox' = Tail(outbox)
        /\ UNCHANGED <<pc, draining, ended, active, visit, steps, cancelled, done,
                       mailbox, children, armed, timers, pending, events>>
    BY DEF Deliver, IInv, TypeOK
  <1>2. i \in Invoke /\ outbox' \in Seq(Invoke)
    BY <1>1, HeadTailProperties
  <1>3. n \in DOMAIN spawned[i] /\ spawned[i][n] \in Child
    BY <1>1, <1>2, SeqElements DEF IInv, TypeOK, KeptInv
  <1>4. /\ c \in Child /\ c.cancelled = spawned[i][n].cancelled
        /\ c.posted => c.phase = "end"
    BY <1>2, <1>3 DEF Child, IInv, KeptInv
  <1> HIDE DEF i, n, c
  <1>5. spawned' \in [Invoke -> Seq(Child)] /\ KeptInv' /\ ContextInv'
    BY <1>1, <1>2, <1>3, <1>4, OneChildKept
  <1>6. TypeOK'
    BY <1>1, <1>2, <1>5 DEF IInv, TypeOK
  <1>7. OwnersInv' /\ StopInv' /\ ArmedInv' /\ TimersMatch'
    BY <1>1, PlaceFrame, TimersFrame
  <1>8. QED
    BY <1>5, <1>6, <1>7 DEF IInv

\* reconcileInvokes stops the children of the states that are not active, and
\* keeps the others; at the end of a macrostep of a drain it does nothing.
LEMMA IInvQuiescent == IInv /\ Quiescent => IInv'
  <1> SUFFICES ASSUME IInv, Quiescent PROVE IInv'
    OBVIOUS
  <1>1. /\ pc = "step" /\ pc' \in {"drain", "spawn"}
        /\ UNCHANGED <<draining, ended, active, visit, steps, cancelled, done,
                       mailbox, outbox, armed, timers, pending, events>>
    BY DEF Quiescent
  <1>2. ArmedInv' /\ TimersMatch'
    BY <1>1, TimersFrame
  <1>3. StopInv'
    BY <1>1 DEF IInv, StopInv
  <1>4. CASE draining
    <2>1. pc' = "drain" /\ UNCHANGED <<children, spawned>>
      BY <1>4 DEF Quiescent
    <2>2. TypeOK'
      BY <1>1, <2>1 DEF IInv, TypeOK
    <2>3. KeptInv' /\ ContextInv' /\ OwnersInv'
      BY <1>1, <2>1, KeptFrame DEF OwnersInv
    <2>4. QED
      BY <1>2, <1>3, <2>2, <2>3 DEF IInv
  <1>5. CASE ~draining
    <2> DEFINE left == Invoke \ Desired
    <2>1. /\ pc' = "spawn" /\ spawned' = HaltAll(left)
          /\ children' = [i \in Invoke |-> IF i \in Desired THEN children[i] ELSE 0]
      BY <1>5 DEF Quiescent
    <2>2. /\ spawned' \in [Invoke -> Seq(Child)]
          /\ \A i \in Invoke :
                /\ Len(spawned'[i]) = Len(spawned[i])
                /\ \A n \in DOMAIN spawned[i] :
                      spawned'[i][n] = IF i \in left /\ n = children[i]
                                       THEN Halt(i, spawned[i][n]) ELSE spawned[i][n]
      BY <2>1, HaltAllChildren DEF IInv
    <2>3. \A i \in Invoke : /\ spawned[i] \in Seq(Child) /\ spawned'[i] \in Seq(Child)
                            /\ Len(spawned[i]) \in Nat
                            /\ DOMAIN spawned[i] = 1 .. Len(spawned[i])
                            /\ DOMAIN spawned'[i] = DOMAIN spawned[i]
                            /\ \A n \in DOMAIN spawned[i] : spawned[i][n] \in Child
      BY <2>2, SeqElements DEF IInv, TypeOK
    <2>4. \A i \in Invoke : \A n \in DOMAIN spawned[i] :
              /\ Halt(i, spawned[i][n]).cancelled
              /\ Halt(i, spawned[i][n]).posted = spawned[i][n].posted
              /\ spawned[i][n].phase = "end" => Halt(i, spawned[i][n]).phase = "end"
      BY <2>3, HaltChild
    <2>5. children' \in [Invoke -> Nat]
      BY <2>1 DEF IInv, TypeOK
    <2>6. TypeOK'
      BY <1>1, <2>1, <2>2, <2>5 DEF IInv, TypeOK
    <2>7. \A i \in Invoke : children'[i] = IF i \in left THEN 0 ELSE children[i]
      BY <2>1
    <2> HIDE DEF left
    <2>8. KeptInv'
      BY <2>2, <2>3, <2>4, <2>7 DEF IInv, KeptInv
    <2>9. ContextInv'
      <3> SUFFICES ASSUME NEW i \in Invoke, NEW n \in DOMAIN spawned[i]
                   PROVE  spawned'[i][n].cancelled <=> cancelled \/ n # children'[i]
        BY <1>1, <2>3 DEF ContextInv
      <3>1. spawned[i][n].cancelled <=> cancelled \/ n # children[i]
        BY DEF IInv, ContextInv
      <3>2. n # 0
        BY <2>3
      <3>3. QED
        BY <2>2, <2>4, <2>7, <3>1, <3>2
    <2>10. OwnersInv'
      BY <1>1, <2>1 DEF Desired, OwnersInv
    <2>11. QED
      BY <1>2, <1>3, <2>6, <2>8, <2>9, <2>10 DEF IInv
  <1>6. QED
    BY <1>4, <1>5

\* A child is started in the context the actor has, for an invoke with none.
LEMMA IInvSpawn == \A i \in Invoke : IInv /\ Spawn(i) => IInv'
  <1> SUFFICES ASSUME NEW i \in Invoke, IInv, Spawn(i) PROVE IInv'
    OBVIOUS
  <1> DEFINE c == [phase |-> "run", cancelled |-> cancelled, visit |-> visit[Owner[i]],
                   backlog |-> 0, emitted |-> 0, posted |-> FALSE]
  <1>1. /\ pc = "spawn" /\ i \in ToSpawn
        /\ spawned' = [spawned EXCEPT ![i] = Append(spawned[i], c)]
        /\ children' = [children EXCEPT ![i] = Len(spawned[i]) + 1]
        /\ UNCHANGED <<pc, draining, ended, active, visit, steps, cancelled, done,
                       mailbox, outbox, armed, timers, pending, events>>
    BY DEF Spawn
  <1>2. c \in Child
    BY InvocationAssumption DEF Child, IInv, TypeOK
  <1>3. c.cancelled = cancelled /\ ~c.posted
    OBVIOUS
  <1> HIDE DEF c
  <1>4. /\ spawned' \in [Invoke -> Seq(Child)]
        /\ \A j \in Invoke :
              /\ Len(spawned'[j]) = IF j = i THEN Len(spawned[i]) + 1
                                            ELSE Len(spawned[j])
              /\ \A m \in DOMAIN spawned[j] : spawned'[j][m] = spawned[j][m]
        /\ spawned'[i][Len(spawned[i]) + 1] = c
    BY <1>1, <1>2, NewChild DEF IInv
  <1>5. \A j \in Invoke : /\ Len(spawned[j]) \in Nat
                          /\ DOMAIN spawned[j] = 1 .. Len(spawned[j])
                          /\ DOMAIN spawned'[j] = 1 .. Len(spawned'[j])
    BY <1>4, SeqElements DEF IInv, TypeOK
  <1>6. /\ i \in Desired /\ children[i] = 0 /\ children' \in [Invoke -> Nat]
        /\ \A j \in Invoke :
              children'[j] = IF j = i THEN Len(spawned[i]) + 1 ELSE children[j]
    BY <1>1, <1>5 DEF ToSpawn, IInv, TypeOK
  <1>7. TypeOK'
    BY <1>1, <1>4, <1>6 DEF IInv, TypeOK
  <1>8. KeptInv'
    BY <1>3, <1>4, <1>5, <1>6 DEF IInv, KeptInv
  <1>9. ContextInv'
    BY <1>1, <1>3, <1>4, <1>5, <1>6 DEF IInv, ContextInv
  <1>10. OwnersInv'
    BY <1>1, <1>6 DEF IInv, OwnersInv, Desired
  <1>11. StopInv'
    BY <1>1 DEF IInv, StopInv
  <1>12. ArmedInv' /\ TimersMatch'
    BY <1>1, TimersFrame
  <1>13. QED
    BY <1>7, <1>8, <1>9, <1>10, <1>11, <1>12 DEF IInv

\* Cancelling the context reaches every child, and leaves the rest of it alone.
LEMMA CancelledKept ==
    ASSUME TypeOK, KeptInv, NEW kids \in [Invoke -> Seq(Child)], cancelled',
           \A i \in Invoke :
              /\ Len(kids[i]) = Len(spawned[i])
              /\ \A n \in DOMAIN spawned[i] :
                    kids[i][n].posted => kids[i][n].phase = "end",
           spawned' = CancelTree(kids),
           \A i \in Invoke : children'[i] \in {0, children[i]}
    PROVE  /\ spawned' \in [Invoke -> Seq(Child)] /\ KeptInv' /\ ContextInv'
           /\ \A i \in Invoke : \A n \in DOMAIN spawned'[i] : spawned'[i][n].cancelled
  <1>1. /\ spawned' \in [Invoke -> Seq(Child)]
        /\ \A i \in Invoke :
              /\ Len(spawned'[i]) = Len(spawned[i])
              /\ \A n \in DOMAIN kids[i] :
                    spawned'[i][n] = [kids[i][n] EXCEPT !.cancelled = TRUE]
    BY CancelTreeChildren
  <1>2. \A i \in Invoke : /\ Len(spawned[i]) \in Nat
                          /\ DOMAIN spawned[i] = 1 .. Len(spawned[i])
                          /\ DOMAIN kids[i] = DOMAIN spawned[i]
                          /\ DOMAIN spawned'[i] = DOMAIN spawned[i]
                          /\ \A n \in DOMAIN kids[i] : kids[i][n] \in Child
    BY <1>1, SeqElements DEF TypeOK
  <1>3. \A i \in Invoke : \A n \in DOMAIN spawned[i] :
            /\ spawned'[i][n].cancelled
            /\ spawned'[i][n].posted => spawned'[i][n].phase = "end"
    <2> SUFFICES ASSUME NEW i \in Invoke, NEW n \in DOMAIN spawned[i]
                 PROVE  /\ spawned'[i][n].cancelled
                        /\ spawned'[i][n].posted => spawned'[i][n].phase = "end"
      OBVIOUS
    <2>1. /\ kids[i][n] \in Child
          /\ spawned'[i][n] = [kids[i][n] EXCEPT !.cancelled = TRUE]
      BY <1>1, <1>2
    <2>2. \A c \in Child : /\ [c EXCEPT !.cancelled = TRUE].cancelled
                           /\ [c EXCEPT !.cancelled = TRUE].posted = c.posted
                           /\ [c EXCEPT !.cancelled = TRUE].phase = c.phase
      BY DEF Child
    <2>3. QED
      BY <2>1, <2>2
  <1>4. KeptInv'
    BY <1>1, <1>2, <1>3 DEF KeptInv
  <1>5. ContextInv'
    BY <1>2, <1>3 DEF ContextInv
  <1>6. QED
    BY <1>1, <1>2, <1>3, <1>4, <1>5

\* shutdown stops every child that is left, cancels the context of all, and
\* stops every timer.
LEMMA IInvShutdown == IInv /\ Shutdown => IInv'
  <1> SUFFICES ASSUME IInv, Shutdown PROVE IInv'
    OBVIOUS
  <1>1. /\ pc = "shutdown" /\ pc' = "close" /\ cancelled' = TRUE
        /\ spawned' = CancelTree(HaltAll(Invoke))
        /\ children' = [i \in Invoke |-> 0]
        /\ timers' = [a \in After |-> CancelTimer(a)]
        /\ armed' = [a \in After |-> 0]
        /\ UNCHANGED <<draining, ended, active, visit, steps, done, mailbox, outbox,
                       pending, events>>
    BY DEF Shutdown
  <1> DEFINE kids == HaltAll(Invoke)
  <1>2. /\ kids \in [Invoke -> Seq(Child)]
        /\ \A i \in Invoke :
              /\ Len(kids[i]) = Len(spawned[i])
              /\ \A n \in DOMAIN spawned[i] :
                    kids[i][n] = IF i \in Invoke /\ n = children[i]
                                 THEN Halt(i, spawned[i][n]) ELSE spawned[i][n]
    BY HaltAllChildren DEF IInv
  <1>3. \A i \in Invoke : \A n \in DOMAIN spawned[i] :
            kids[i][n].posted => kids[i][n].phase = "end"
    <2>1. \A i \in Invoke : \A n \in DOMAIN spawned[i] : spawned[i][n] \in Child
      BY SeqElements DEF IInv, TypeOK
    <2>2. \A i \in Invoke : \A n \in DOMAIN spawned[i] :
              /\ Halt(i, spawned[i][n]).posted = spawned[i][n].posted
              /\ spawned[i][n].phase = "end" => Halt(i, spawned[i][n]).phase = "end"
      BY <2>1, HaltChild
    <2>3. QED
      BY <1>2, <2>2 DEF IInv, KeptInv
  <1>4. spawned' = CancelTree(kids)
    BY <1>1
  <1> HIDE DEF kids
  <1>5. spawned' \in [Invoke -> Seq(Child)] /\ KeptInv' /\ ContextInv'
    BY <1>1, <1>2, <1>3, <1>4, CancelledKept DEF IInv
  <1>6. \A a \in After : /\ CancelTimer(a) \in Seq(Timer)
                         /\ Len(CancelTimer(a)) = Len(timers[a])
                         /\ Len(timers[a]) \in Nat
                         /\ DOMAIN CancelTimer(a) = 1 .. Len(timers[a])
                         /\ \A n \in 1 .. Len(timers[a]) : CancelTimer(a)[n].phase # "armed"
    <2> SUFFICES ASSUME NEW a \in After
                 PROVE  /\ CancelTimer(a) \in Seq(Timer)
                        /\ Len(CancelTimer(a)) = Len(timers[a])
                        /\ Len(timers[a]) \in Nat
                        /\ DOMAIN CancelTimer(a) = 1 .. Len(timers[a])
                        /\ \A n \in 1 .. Len(timers[a]) :
                              CancelTimer(a)[n].phase # "armed"
      OBVIOUS
    <2>1. /\ CancelTimer(a) \in Seq(Timer) /\ Len(CancelTimer(a)) = Len(timers[a])
          /\ \A n \in DOMAIN timers[a] :
                CancelTimer(a)[n].phase = "armed" =>
                    n # armed[a] /\ CancelTimer(a)[n] = timers[a][n]
      BY CancelTimerStops DEF IInv
    <2>2. /\ Len(timers[a]) \in Nat /\ DOMAIN timers[a] = 1 .. Len(timers[a])
          /\ DOMAIN CancelTimer(a) = 1 .. Len(timers[a])
      BY <2>1, SeqElements DEF IInv, TypeOK
    <2>3. \A n \in DOMAIN timers[a] : timers[a][n].phase = "armed" => n = armed[a]
      BY DEF IInv, TimersMatch
    <2>4. QED
      BY <2>1, <2>2, <2>3
  <1>7. TypeOK'
    BY <1>1, <1>5, <1>6 DEF IInv, TypeOK
  <1>8. ArmedInv' /\ TimersMatch'
    BY <1>1, <1>6 DEF ArmedInv, TimersMatch
  <1>9. OwnersInv' /\ StopInv'
    BY <1>1 DEF IInv, OwnersInv, StopInv
  <1>10. QED
    BY <1>5, <1>7, <1>8, <1>9 DEF IInv

\* A child's goroutine, a timer's and the host's sends and cancellation.
LEMMA IInvChild ==
    ASSUME IInv, NEW i \in Invoke, NEW n \in DOMAIN spawned[i], ChildStep(i, n)
    PROVE  IInv'
  <1>1. PICK c \in Child : Steps(i, n, c)
    BY ChildSteps DEF IInv
  <1>2. spawned' \in [Invoke -> Seq(Child)] /\ KeptInv' /\ ContextInv'
    BY <1>1, OneChildKept DEF Steps, actorVars
  <1>3. TypeOK'
    BY <1>1, <1>2 DEF Steps, actorVars, IInv, TypeOK
  <1>4. OwnersInv' /\ StopInv' /\ ArmedInv' /\ TimersMatch'
    BY <1>1 DEF Steps, actorVars, IInv, OwnersInv, StopInv, ArmedInv, TimersMatch
  <1>5. QED
    BY <1>2, <1>3, <1>4 DEF IInv

LEMMA IInvTimer ==
    ASSUME IInv, NEW a \in After, NEW n \in DOMAIN timers[a], TimerStep(a, n)
    PROVE  IInv'
  <1>1. /\ timers' \in [After -> Seq(Timer)]
        /\ \A b \in After :
              /\ Len(timers'[b]) = Len(timers[b])
              /\ \A m \in DOMAIN timers'[b] :
                    /\ m \in DOMAIN timers[b]
                    /\ timers'[b][m].phase = "armed" => timers'[b][m] = timers[b][m]
        /\ mailbox' \in Seq(Items)
        /\ UNCHANGED <<actorVars, spawned, events>>
    BY OneTimer DEF IInv
  <1>2. TypeOK'
    BY <1>1 DEF actorVars, IInv, TypeOK
  <1>3. KeptInv' /\ ContextInv' /\ OwnersInv' /\ StopInv'
    BY <1>1 DEF actorVars, IInv, KeptInv, ContextInv, OwnersInv, StopInv
  <1>4. ArmedInv' /\ TimersMatch'
    BY <1>1 DEF actorVars, IInv, ArmedInv, TimersMatch
  <1>5. QED
    BY <1>2, <1>3, <1>4 DEF IInv

LEMMA IInvHost == IInv /\ (HostSend \/ HostCancel) => IInv'
  <1> SUFFICES ASSUME IInv, HostSend \/ HostCancel PROVE IInv'
    OBVIOUS
  <1>1. CASE HostSend
    <2>1. mailbox' \in Seq(Items) /\ events' \in Nat
      <3>1. events + 1 \in Nat /\ events' = events + 1
        BY <1>1 DEF HostSend, IInv, TypeOK
      <3>2. PICK kind \in {"event", "drainClose"} : Post(Item(kind, Host, events + 1))
        BY <1>1 DEF HostSend
      <3>3. QED
        BY <3>1, <3>2, PostedItem DEF IInv
    <2>2. UNCHANGED <<actorVars, spawned, timers>>
      BY <1>1 DEF HostSend
    <2>3. TypeOK'
      BY <2>1, <2>2 DEF actorVars, IInv, TypeOK
    <2>4. KeptInv' /\ ContextInv' /\ OwnersInv' /\ StopInv' /\ ArmedInv' /\ TimersMatch'
      BY <2>2 DEF actorVars, IInv, KeptInv, ContextInv, OwnersInv, StopInv,
                  ArmedInv, TimersMatch
    <2>5. QED
      BY <2>3, <2>4 DEF IInv
  <1>2. CASE HostCancel
    <2>1. /\ cancelled' = TRUE /\ spawned' = CancelTree(spawned)
          /\ UNCHANGED <<pc, draining, ended, active, visit, steps, done, mailbox,
                         outbox, children, armed, timers, pending, events>>
      BY <1>2 DEF HostCancel
    <2>2. spawned' \in [Invoke -> Seq(Child)] /\ KeptInv' /\ ContextInv'
      BY <2>1, CancelledKept DEF IInv, TypeOK, KeptInv
    <2>3. TypeOK'
      BY <2>1, <2>2 DEF IInv, TypeOK
    <2>4. OwnersInv' /\ StopInv' /\ ArmedInv' /\ TimersMatch'
      BY <2>1 DEF IInv, OwnersInv, StopInv, ArmedInv, TimersMatch
    <2>5. QED
      BY <2>2, <2>3, <2>4 DEF IInv
  <1>3. QED
    BY <1>1, <1>2

LEMMA IInvNext == IInv /\ [Next]_vars => IInv'
  <1> SUFFICES ASSUME IInv, [Next]_vars PROVE IInv'
    OBVIOUS
  <1>1. CASE Actor
    <2>1. CASE \E exited, entered \in SUBSET State : Microstep(exited, entered)
      BY <2>1, IInvMicrostep
    <2>2. CASE Bookkeeping
      BY <2>2, IInvBookkeeping
    <2>3. CASE Deliver \/ Quiescent \/ (\E i \in Invoke : Spawn(i)) \/ Shutdown
      BY <2>3, IInvDeliver, IInvQuiescent, IInvSpawn, IInvShutdown
    <2>4. QED
      BY <1>1, <2>1, <2>2, <2>3 DEF Actor, Bookkeeping
  <1>2. CASE \E i \in Invoke : \E n \in DOMAIN spawned[i] : ChildStep(i, n)
    BY <1>2, IInvChild
  <1>3. CASE \E a \in After : \E n \in DOMAIN timers[a] : TimerStep(a, n)
    BY <1>3, IInvTimer
  <1>4. CASE HostSend \/ HostCancel
    BY <1>4, IInvHost
  <1>5. CASE UNCHANGED vars
    BY <1>5 DEF vars, actorVars, IInv, TypeOK, KeptInv, ContextInv, OwnersInv,
                StopInv, ArmedInv, TimersMatch
  <1>6. QED
    BY <1>1, <1>2, <1>3, <1>4, <1>5 DEF Next, Ended

\* The inductive invariant holds in every behaviour.
THEOREM Invariance == Spec => []IInv
  <1>1. QED
    BY IInvInit, IInvNext, PTL DEF Spec

-----------------------------------------------------------------------------
(***************************************************************************)
(* What it says.                                                           *)
(***************************************************************************)
\* Every variable keeps its type, and every item in the mailbox and record of a
\* child or a timer is well formed.
THEOREM TypeCorrect == Spec => []TypeOK
  <1>1. IInv => TypeOK
    BY DEF IInv
  <1>2. QED
    BY <1>1, Invariance, PTL

\* At the mailbox the actor keeps a child for exactly the invokes of the active
\* states, and while loopCtx is live so is the context of each (reconcileInvokes).
THEOREM ChildrenMatch == Spec => []InvokesMatch
  <1>1. IInv => InvokesMatch
    <2> SUFFICES ASSUME IInv, pc = "select", NEW i \in Invoke
                 PROVE  /\ children[i] # 0 <=> Owner[i] \in active
                        /\ children[i] # 0 /\ ~cancelled => ~Running(i).cancelled
      BY DEF InvokesMatch
    <2>1. children[i] # 0 <=> Owner[i] \in active
      BY DEF IInv, OwnersInv
    <2>2. CASE children[i] # 0
      <3>1. children[i] \in DOMAIN spawned[i]
        BY <2>2, SeqElements DEF IInv, TypeOK, KeptInv
      <3>2. QED
        BY <2>1, <3>1 DEF IInv, ContextInv, Running
    <2>3. QED
      BY <2>1, <2>2
  <1>2. QED
    BY <1>1, Invariance, PTL

\* Every child the actor has let go of has had its context cancelled: stopping
\* one is never forgotten, whatever the order of microsteps and cancellation.
THEOREM ChildrenTold == Spec => []NoneForgotten
  <1>1. IInv => NoneForgotten
    BY DEF IInv, ContextInv, NoneForgotten
  <1>2. QED
    BY <1>1, Invariance, PTL

\* The timers armed and the published PendingAfter are those of the active
\* states, and no timer of a visit that is over is still armed.
THEOREM TimersFollow == Spec => []TimersMatch
  <1>1. IInv => TimersMatch
    BY DEF IInv
  <1>2. QED
    BY <1>1, Invariance, PTL

\* Once the waiters are released, every child was cancelled and no timer is armed.
THEOREM BottomUp == Spec => []NothingOutlives
  <1>1. IInv => NothingOutlives
    <2> SUFFICES ASSUME IInv, done PROVE NothingOutlives
      BY DEF NothingOutlives
    <2>1. /\ cancelled /\ \A i \in Invoke : children[i] = 0
          /\ \A a \in After : armed[a] = 0
      BY DEF IInv, StopInv
    <2>2. \A i \in Invoke : \A n \in DOMAIN spawned[i] : spawned[i][n].cancelled
      BY <2>1 DEF IInv, ContextInv
    <2>3. \A a \in After : \A n \in DOMAIN timers[a] : timers[a][n].phase # "armed"
      <3>1. \A a \in After : \A n \in DOMAIN timers[a] : n # 0
        BY SeqElements DEF IInv, TypeOK
      <3>2. QED
        BY <2>1, <3>1 DEF IInv, TimersMatch
    <2>4. QED
      BY <2>1, <2>2, <2>3 DEF NothingOutlives
  <1>2. QED
    BY <1>1, Invariance, PTL

-----------------------------------------------------------------------------
(***************************************************************************)
(* Refinement: each invoke is a series of separate attempts.               *)
(***************************************************************************)
Reported(i) == {n \in DOMAIN spawned[i] : spawned[i][n].posted}

\* The abstract steps of Attempts, under the refinement mapping of Invocation.
LEMMA AttemptSteps ==
    ASSUME NEW i \in Invoke
    PROVE  /\ children[i] = 0 /\ Len(spawned[i]) = 0 /\ Reported(i) = {} => A(i)!Init
           /\ UNCHANGED <<children[i], Len(spawned[i]), Reported(i)>> =>
                 UNCHANGED A(i)!attemptVars
           /\ children[i] = 0 /\ Len(spawned'[i]) = Len(spawned[i]) + 1
              /\ children'[i] = Len(spawned'[i]) /\ Reported(i)' = Reported(i) =>
                 A(i)!Next
           /\ children[i] # 0 /\ children'[i] = 0
              /\ UNCHANGED <<Len(spawned[i]), Reported(i)>> => A(i)!Next
           /\ (\E n \in (1 .. Len(spawned[i])) \ Reported(i) :
                  Reported(i)' = Reported(i) \cup {n})
              /\ UNCHANGED <<children[i], Len(spawned[i])>> => A(i)!Next
  BY DEF A!Init, A!Next, A!Begin, A!Stop, A!Report, A!attemptVars, Reported

\* What was reported is read off the records of the children.
LEMMA SameReports ==
    ASSUME NEW i \in Invoke, DOMAIN spawned'[i] = DOMAIN spawned[i],
           \A n \in DOMAIN spawned[i] : spawned'[i][n].posted = spawned[i][n].posted
    PROVE  Reported(i)' = Reported(i)
  BY DEF Reported

\* One child of invoke i takes a step: nothing is reported, or its outcome is.
LEMMA ChildAttempt ==
    ASSUME IInv, NEW i \in Invoke, NEW n \in DOMAIN spawned[i], ChildStep(i, n),
           NEW j \in Invoke
    PROVE  A(j)!Next \/ UNCHANGED A(j)!attemptVars
  <1>1. PICK c \in Child : Steps(i, n, c)
    BY ChildSteps DEF IInv
  <1>2. \A k \in Invoke :
            /\ Len(spawned'[k]) = Len(spawned[k])
            /\ DOMAIN spawned'[k] = DOMAIN spawned[k]
            /\ DOMAIN spawned[k] = 1 .. Len(spawned[k])
            /\ \A m \in DOMAIN spawned[k] :
                  spawned'[k][m] = IF k = i /\ m = n THEN c ELSE spawned[k][m]
    BY <1>1, OneChild, SeqElements DEF Steps, IInv, TypeOK
  <1>3. UNCHANGED children /\ ~spawned[i][n].posted
    BY <1>1 DEF Steps, actorVars
  <1>4. CASE j = i /\ c.posted
    <2>1. Reported(j)' = Reported(j) \cup {n}
      BY <1>2, <1>4 DEF Reported
    <2>2. n \in (1 .. Len(spawned[j])) \ Reported(j)
      BY <1>2, <1>3, <1>4 DEF Reported
    <2>3. QED
      BY <1>2, <1>3, <2>1, <2>2, AttemptSteps
  <1>5. CASE ~(j = i /\ c.posted)
    <2>1. \A m \in DOMAIN spawned[j] : spawned'[j][m].posted = spawned[j][m].posted
      <3>1. c.posted \in BOOLEAN /\ spawned[i][n].posted = FALSE
        BY <1>2, <1>3, SeqElements DEF Child, IInv, TypeOK
      <3>2. j = i => c.posted = FALSE
        BY <1>5, <3>1
      <3>3. QED
        BY <1>2, <3>1, <3>2
    <2>2. QED
      BY <1>2, <1>3, <2>1, SameReports, AttemptSteps
  <1>6. QED
    BY <1>4, <1>5

\* A step of the actor that stops children, cancels contexts or does neither.
LEMMA StoppedAttempt ==
    ASSUME NEW i \in Invoke, children'[i] \in {0, children[i]},
           Len(spawned'[i]) = Len(spawned[i]),
           DOMAIN spawned'[i] = DOMAIN spawned[i],
           \A n \in DOMAIN spawned[i] : spawned'[i][n].posted = spawned[i][n].posted
    PROVE  A(i)!Next \/ UNCHANGED A(i)!attemptVars
  <1>1. Reported(i)' = Reported(i)
    BY SameReports
  <1>2. CASE children'[i] = children[i]
    BY <1>1, <1>2, AttemptSteps
  <1>3. CASE children'[i] # children[i]
    BY <1>1, <1>3, AttemptSteps
  <1>4. QED
    BY <1>2, <1>3

\* Cancelling the contexts of all the children reports nothing.
LEMMA CancelReports ==
    ASSUME TypeOK, NEW kids \in [Invoke -> Seq(Child)], NEW i \in Invoke,
           Len(kids[i]) = Len(spawned[i]), spawned' = CancelTree(kids),
           \A n \in DOMAIN spawned[i] : kids[i][n].posted = spawned[i][n].posted
    PROVE  /\ Len(spawned'[i]) = Len(spawned[i])
           /\ DOMAIN spawned'[i] = DOMAIN spawned[i]
           /\ \A n \in DOMAIN spawned[i] : spawned'[i][n].posted = spawned[i][n].posted
  <1>1. /\ spawned' \in [Invoke -> Seq(Child)]
        /\ Len(spawned'[i]) = Len(kids[i])
        /\ \A n \in DOMAIN kids[i] :
              spawned'[i][n] = [kids[i][n] EXCEPT !.cancelled = TRUE]
    BY CancelTreeChildren
  <1>2. /\ DOMAIN spawned[i] = 1 .. Len(spawned[i])
        /\ DOMAIN kids[i] = 1 .. Len(spawned[i])
        /\ DOMAIN spawned'[i] = 1 .. Len(spawned[i])
        /\ \A n \in DOMAIN kids[i] : kids[i][n] \in Child
    BY <1>1, SeqElements DEF TypeOK
  <1>3. \A c \in Child : [c EXCEPT !.cancelled = TRUE].posted = c.posted
    BY DEF Child
  <1>4. QED
    BY <1>1, <1>2, <1>3

\* So does halting those that are kept.
LEMMA HaltReports ==
    ASSUME IInv, NEW ids, NEW i \in Invoke
    PROVE  /\ HaltAll(ids)[i] \in Seq(Child)
           /\ Len(HaltAll(ids)[i]) = Len(spawned[i])
           /\ DOMAIN HaltAll(ids)[i] = DOMAIN spawned[i]
           /\ \A n \in DOMAIN spawned[i] :
                 HaltAll(ids)[i][n].posted = spawned[i][n].posted
  <1>1. /\ HaltAll(ids)[i] \in Seq(Child) /\ Len(HaltAll(ids)[i]) = Len(spawned[i])
        /\ \A n \in DOMAIN spawned[i] :
              HaltAll(ids)[i][n] = IF i \in ids /\ n = children[i]
                                   THEN Halt(i, spawned[i][n]) ELSE spawned[i][n]
    BY HaltAllChildren DEF IInv
  <1>2. /\ DOMAIN spawned[i] = 1 .. Len(spawned[i])
        /\ DOMAIN HaltAll(ids)[i] = 1 .. Len(spawned[i])
        /\ \A n \in DOMAIN spawned[i] : spawned[i][n] \in Child
    BY <1>1, SeqElements DEF IInv, TypeOK
  <1>3. \A n \in DOMAIN spawned[i] : Halt(i, spawned[i][n]).posted = spawned[i][n].posted
    BY <1>2, HaltChild
  <1>4. QED
    BY <1>1, <1>2, <1>3

\* No step of the system is more than one step of any invoke's attempts.
LEMMA AttemptStep ==
    ASSUME IInv, [Next]_vars, NEW j \in Invoke
    PROVE  [A(j)!Next]_(A(j)!attemptVars)
  <1>0. \A i \in Invoke : /\ spawned[i] \in Seq(Child) /\ Len(spawned[i]) \in Nat
                          /\ DOMAIN spawned[i] = 1 .. Len(spawned[i])
                          /\ \A n \in DOMAIN spawned[i] : spawned[i][n] \in Child
    BY SeqElements DEF IInv, TypeOK
  <1>1. ASSUME UNCHANGED <<children, spawned>>
        PROVE  A(j)!Next \/ UNCHANGED A(j)!attemptVars
    BY <1>1, StoppedAttempt
  <1>2. CASE \/ Bookkeeping \/ (\E exited, entered \in SUBSET State : Microstep(exited, entered))
             \/ HostSend \/ UNCHANGED vars
    <2>1. UNCHANGED <<children, spawned>>
      BY <1>2 DEF Bookkeeping, Fail, DropCommand, Delivered, Reconciled, LoopCancelled,
           LoopEvent, LoopDrainClose, DrainEvent, DrainSentinel, DrainEmpty,
           CloseDone, Receive, Microstep, HostSend, vars, actorVars
    <2>2. QED
      BY <1>1, <2>1
  <1>3. CASE Deliver
    <2> DEFINE i == Head(outbox)
               n == children[i]
               c == [spawned[i][n] EXCEPT !.backlog = @ + 1]
    <2>1. /\ n # 0 /\ outbox \in Seq(Invoke) /\ outbox # <<>>
          /\ spawned' = [spawned EXCEPT ![i][n] = c] /\ UNCHANGED children
      BY <1>3 DEF Deliver, IInv, TypeOK
    <2>2. i \in Invoke
      BY <2>1, HeadTailProperties
    <2>3. n \in DOMAIN spawned[i]
      BY <1>0, <2>1, <2>2 DEF IInv, KeptInv
    <2>4. c \in Child /\ c.posted = spawned[i][n].posted
      <3>1. spawned[i][n] \in Child
        BY <1>0, <2>2, <2>3
      <3>2. QED
        BY <3>1 DEF Child
    <2> HIDE DEF i, n, c
    <2>5. /\ Len(spawned'[j]) = Len(spawned[j])
          /\ DOMAIN spawned'[j] = DOMAIN spawned[j]
          /\ \A m \in DOMAIN spawned[j] : spawned'[j][m].posted = spawned[j][m].posted
      BY <2>1, <2>2, <2>3, <2>4, OneChild DEF IInv
    <2>6. QED
      BY <2>1, <2>5, StoppedAttempt
  <1>4. CASE Quiescent
    <2>1. CASE draining
      BY <1>1, <1>4, <2>1 DEF Quiescent
    <2>2. CASE ~draining
      <3>1. /\ spawned' = HaltAll(Invoke \ Desired)
            /\ children'[j] \in {0, children[j]}
        BY <1>4, <2>2 DEF Quiescent
      <3>2. QED
        BY <3>1, HaltReports, StoppedAttempt
    <2>3. QED
      BY <2>1, <2>2
  <1>5. ASSUME NEW i \in Invoke, Spawn(i)
        PROVE  A(j)!Next \/ UNCHANGED A(j)!attemptVars
    <2> DEFINE c == [phase |-> "run", cancelled |-> cancelled,
                     visit |-> visit[Owner[i]], backlog |-> 0, emitted |-> 0,
                     posted |-> FALSE]
    <2>1. /\ children[i] = 0
          /\ spawned' = [spawned EXCEPT ![i] = Append(spawned[i], c)]
          /\ children' = [children EXCEPT ![i] = Len(spawned[i]) + 1]
      BY <1>5 DEF Spawn, ToSpawn
    <2>2. c \in Child /\ ~c.posted
      BY InvocationAssumption DEF Child, IInv, TypeOK
    <2> HIDE DEF c
    <2>3. /\ spawned' \in [Invoke -> Seq(Child)]
          /\ Len(spawned'[j]) = IF j = i THEN Len(spawned[i]) + 1 ELSE Len(spawned[j])
          /\ \A m \in DOMAIN spawned[j] : spawned'[j][m] = spawned[j][m]
          /\ spawned'[i][Len(spawned[i]) + 1] = c
      BY <2>1, <2>2, NewChild DEF IInv
    <2>4. DOMAIN spawned'[j] = 1 .. Len(spawned'[j])
      BY <2>3, SeqElements
    <2>5. children'[j] = IF j = i THEN Len(spawned[i]) + 1 ELSE children[j]
      BY <2>1 DEF IInv, TypeOK
    <2>6. CASE j = i
      <3>1. Reported(j)' = Reported(j)
        BY <1>0, <2>2, <2>3, <2>4, <2>6 DEF Reported
      <3>2. QED
        BY <2>1, <2>3, <2>5, <2>6, <3>1, AttemptSteps
    <2>7. CASE j # i
      BY <1>0, <2>3, <2>4, <2>5, <2>7, StoppedAttempt
    <2>8. QED
      BY <2>6, <2>7
  <1>6. CASE Shutdown
    <2>1. spawned' = CancelTree(HaltAll(Invoke)) /\ children'[j] = 0
      BY <1>6 DEF Shutdown
    <2>2. HaltAll(Invoke) \in [Invoke -> Seq(Child)]
      BY HaltAllChildren DEF IInv
    <2>3. QED
      BY <2>1, <2>2, HaltReports, CancelReports, StoppedAttempt DEF IInv
  <1>7. CASE HostCancel
    <2>1. spawned' = CancelTree(spawned) /\ children'[j] = children[j]
      BY <1>7 DEF HostCancel
    <2>2. spawned \in [Invoke -> Seq(Child)]
      BY DEF IInv, TypeOK
    <2>3. QED
      BY <2>1, <2>2, CancelReports, StoppedAttempt DEF IInv
  <1>8. ASSUME NEW i \in Invoke, NEW n \in DOMAIN spawned[i], ChildStep(i, n)
        PROVE  A(j)!Next \/ UNCHANGED A(j)!attemptVars
    BY <1>8, ChildAttempt
  <1>9. CASE \E a \in After : \E n \in DOMAIN timers[a] : TimerStep(a, n)
    <2>1. UNCHANGED <<children, spawned>>
      BY <1>9, OneTimer DEF IInv, actorVars
    <2>2. QED
      BY <1>1, <2>1
  <1>10. QED
    BY <1>2, <1>3, <1>4, <1>5, <1>6, <1>7, <1>8, <1>9
       DEF Next, Actor, Bookkeeping, Ended

\* The children of every invoke are attempts as Attempts describes them: made one
\* at a time, each a new one, none reporting its outcome twice.
THEOREM Refinement == Spec => SeparateAttempts
  <1>1. Init => \A i \in Invoke : A(i)!Init
    <2> SUFFICES ASSUME Init, NEW i \in Invoke PROVE A(i)!Init
      OBVIOUS
    <2>1. children[i] = 0 /\ spawned[i] = <<>>
      BY DEF Init
    <2>2. QED
      BY <2>1, AttemptSteps DEF Reported
  <1>2. IInv /\ [Next]_vars => [\A i \in Invoke : [A(i)!Next]_(A(i)!attemptVars)]_vars
    BY AttemptStep
  <1>3. QED
    BY <1>1, <1>2, Invariance, PTL DEF Spec, SeparateAttempts
=============================================================================
