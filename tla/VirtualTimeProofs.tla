------------------------- MODULE VirtualTimeProofs -------------------------
(***************************************************************************)
(* Proofs about VirtualTime: for every machine of leaves with timed edges, *)
(* every set of scenarios for it and every threshold of the observer.      *)
(***************************************************************************)
EXTENDS VirtualTime, SequenceTheorems, TLAPS

(***************************************************************************)
(* The inductive invariant.                                                *)
(***************************************************************************)
\* The watchdog over the version being observed: it is armed or has fired, and
\* it fires once the observer was held for the threshold.
OverNow(t) ==
    /\ pc = "observe" /\ t.n = version + 1 /\ t.deadline = since + Threshold
    /\ t.phase = "fired" => since + Threshold <= now

\* The watchdog over a version whose observer has returned.
OverPast(t) ==
    /\ t.n \in 1 .. version /\ t.phase # "armed"
    /\ t.phase = "fired" => held[t.n] >= Threshold

\* What an Advance has still to mark is due, what it has still to fire is marked
\* as fired, and what was reported was.
StallInv ==
    /\ \A i \in Stalls : OverNow(timers[i]) \/ OverPast(timers[i])
    /\ \A g \in Goroutine :
          /\ \A i \in advance[g].todo : timers[i].deadline <= now
          /\ \A i \in advance[g].due : timers[i].phase = "fired"
    /\ \A v \in reports : \E i \in Stalls : timers[i].n = v /\ timers[i].phase = "fired"

-----------------------------------------------------------------------------
(***************************************************************************)
(* What the steps do to the clock and its timers, and to the mailbox.      *)
(***************************************************************************)
LEMMA Goroutines == "test" \in Goroutine /\ "other" \in Goroutine
  BY DEF Goroutine

\* A step of the scenario is for this machine.
LEMMA StepFacts ==
    ASSUME TestOK, step < Len(script)
    PROVE  \/ Next1.verb = "send" /\ Next1.arg \in DOMAIN On
           \/ Next1.verb = "advance" /\ Next1.arg \in Nat
  BY MachineAssumption DEF TestOK, Next1

Finish(g) == advance' = [advance EXCEPT ![g] = Off] /\ UNCHANGED <<now, timers>>

\* Every step that touches the clock, its timers or an Advance.
LEMMA ClockMoves ==
    ASSUME TestOK, [Next]_vars
    PROVE  \/ UNCHANGED clockVars
           \/ \E g \in Goroutine, d \in Nat : Begin(g, d)
           \/ \E g \in Goroutine : Unlock(g) \/ Mark(g) \/ Marked(g) \/ Fire(g) \/ Finish(g)
           \/ Guard \/ Observed \/ Disarm \/ Arm
  <1>1. CASE Actor
    BY <1>1 DEF Actor, Take, Watch, Reconcile, Emit, ActorOnly, clockVars
  <1>2. CASE Test
    <2>1. ASSUME AdvanceStep PROVE \E g \in Goroutine, d \in Nat : Begin(g, d)
      <3>1. step < Len(script) /\ Next1.verb = "advance" /\ Begin("test", Next1.arg)
        BY <2>1 DEF AdvanceStep, StepTo
      <3> QED  BY <3>1, StepFacts, Goroutines
    <2>2. ASSUME Advanced PROVE Finish("test")
      BY <2>2 DEF Advanced, Finish
    <2>3. ASSUME Settle \/ Settled \/ SendStep PROVE UNCHANGED clockVars
      BY <2>3 DEF Settle, Settled, SendStep, clockVars
    <2> QED  BY <1>2, <2>1, <2>2, <2>3, Goroutines DEF Test
  <1>3. CASE Other
    <2>1. ASSUME Ticked PROVE Finish("other")
      BY <2>1 DEF Ticked, Finish
    <2> QED  BY <1>3, <2>1, Goroutines DEF Other
  <1>4. CASE Tick
    BY <1>4, Goroutines, VirtualTimeAssumption DEF Tick
  <1>5. CASE Rest \/ UNCHANGED vars
    BY <1>5 DEF Rest, vars, clockVars
  <1> QED  BY <1>1, <1>2, <1>3, <1>4, <1>5 DEF Next

\* What is posted.
LEMMA PostTyped ==
    ASSUME MailOK, NEW item \in Item, Names(item), Post(item)
    PROVE  MailOK'
  <1>1. mailbox' \in Seq(Item) /\ Len(mailbox') = Len(mailbox) + 1
    BY DEF MailOK, Post
  <1>2. \A i \in DOMAIN mailbox' : mailbox'[i] = IF i <= Len(mailbox) THEN mailbox[i] ELSE item
    BY DEF MailOK, Post
  <1>3. \A i \in DOMAIN mailbox' : i <= Len(mailbox) => i \in DOMAIN mailbox
    BY <1>1 DEF MailOK
  <1> HIDE DEF Names
  <1>4. \A i \in DOMAIN mailbox' : Names(mailbox'[i])
    BY <1>2, <1>3 DEF MailOK
  <1>5. \A x : Names(x)' <=> Names(x)
    BY DEF Names
  <1> QED  BY <1>1, <1>4, <1>5 DEF MailOK

\* Cancelling and marking keep the timers, but for the phase they are in.
SameTimers ==
    /\ timers' \in Seq(TimerOK) /\ DOMAIN timers' = DOMAIN timers
    /\ \A i \in DOMAIN timers : /\ timers'[i].kind = timers[i].kind
                                /\ timers'[i].of = timers[i].of
                                /\ timers'[i].n = timers[i].n
                                /\ timers'[i].deadline = timers[i].deadline

LEMMA PhaseTyped ==
    ASSUME NEW t \in TimerOK, NEW p \in {"armed", "cancelled", "fired"}
    PROVE  /\ [t EXCEPT !.phase = p] \in TimerOK
           /\ LET u == [t EXCEPT !.phase = p]
              IN  u.kind = t.kind /\ u.of = t.of /\ u.n = t.n /\ u.deadline = t.deadline
                  /\ u.phase = p
  BY DEF TimerOK

LEMMA Cancelled ==
    ASSUME ClockOK, NEW those, Cancel(those)
    PROVE  /\ SameTimers
           /\ \A i \in DOMAIN timers : timers'[i].phase =
                 IF i \in those /\ timers[i].phase = "armed" THEN "cancelled"
                                                             ELSE timers[i].phase
  <1>1. timers \in Seq(TimerOK)
    BY DEF ClockOK
  <1> DEFINE Now(t) == [t EXCEPT !.phase = "cancelled"]
  <1>2. \A i \in DOMAIN timers :
            /\ timers[i] \in TimerOK /\ Now(timers[i]) \in TimerOK
            /\ Now(timers[i]).kind = timers[i].kind /\ Now(timers[i]).of = timers[i].of
            /\ Now(timers[i]).n = timers[i].n /\ Now(timers[i]).deadline = timers[i].deadline
            /\ Now(timers[i]).phase = "cancelled"
    <2> HIDE DEF TimerOK
    <2>1. \A i \in DOMAIN timers : timers[i] \in TimerOK
      BY <1>1
    <2> QED  BY <2>1, PhaseTyped
  <1>3. DOMAIN timers' = DOMAIN timers /\ DOMAIN timers = 1 .. Len(timers) /\ Len(timers) \in Nat
    BY <1>1 DEF Cancel
  <1>4. \A i \in DOMAIN timers : timers'[i] =
            IF i \in those /\ timers[i].phase = "armed"
            THEN Now(timers[i]) ELSE timers[i]
    BY DEF Cancel
  <1> HIDE DEF Now
  <1>5. timers' \in Seq(TimerOK)
    <2>1. \A i \in 1 .. Len(timers) : timers'[i] \in TimerOK
      BY <1>2, <1>3, <1>4
    <2>2. timers' = [i \in 1 .. Len(timers) |-> timers'[i]]
      BY <1>3 DEF Cancel
    <2> QED  BY <1>3, <2>1, <2>2, SeqDef
  <1> QED  BY <1>2, <1>3, <1>4, <1>5 DEF SameTimers

LEMMA MarkedOne ==
    ASSUME ClockOK, NEW i \in DOMAIN timers, timers' = [timers EXCEPT ![i].phase = "fired"]
    PROVE  /\ SameTimers
           /\ \A j \in DOMAIN timers :
                 timers'[j].phase = IF j = i THEN "fired" ELSE timers[j].phase
  <1>1. timers \in Seq(TimerOK)
    BY DEF ClockOK
  <1>2. timers[i] \in TimerOK /\ [timers[i] EXCEPT !.phase = "fired"] \in TimerOK
    <2> HIDE DEF TimerOK
    <2>1. timers[i] \in TimerOK
      BY <1>1
    <2> QED  BY <2>1, PhaseTyped
  <1>3. timers' = [timers EXCEPT ![i] = [timers[i] EXCEPT !.phase = "fired"]]
    BY <1>1
  <1>4. timers' \in Seq(TimerOK) /\ DOMAIN timers' = DOMAIN timers
    BY <1>1, <1>2, <1>3
  <1>5. \A j \in DOMAIN timers : timers'[j] =
            IF j = i THEN [timers[i] EXCEPT !.phase = "fired"] ELSE timers[j]
    BY <1>1, <1>3
  <1>6. \A j \in DOMAIN timers : timers[j] \in TimerOK
    BY <1>1
  <1> QED  BY <1>2, <1>4, <1>5, <1>6, PhaseTyped DEF SameTimers

LEMMA NamesKept ==
    ASSUME ClockOK, SameTimers
    PROVE  \A i \in DOMAIN timers' : Names(timers'[i])
  <1>1. \A x, y : x.kind = y.kind /\ x.of = y.of /\ x.n = y.n => (Names(x) <=> Names(y))
    BY DEF Names
  <1> QED  BY <1>1 DEF ClockOK, SameTimers

LEMMA Scheduled ==
    ASSUME ClockOK, NEW t \in TimerOK, Names(t), Schedule(t)
    PROVE  /\ timers' \in Seq(TimerOK) /\ \A i \in DOMAIN timers' : Names(timers'[i])
           /\ DOMAIN timers' = DOMAIN timers \cup {Len(timers) + 1}
           /\ \A i \in DOMAIN timers : i # Len(timers) + 1 /\ timers'[i] = timers[i]
           /\ timers'[Len(timers) + 1] = t
  <1>1. timers \in Seq(TimerOK) /\ timers' = Append(timers, t)
    BY DEF ClockOK, Schedule
  <1>2. /\ timers' \in Seq(TimerOK) /\ DOMAIN timers' = DOMAIN timers \cup {Len(timers) + 1}
        /\ \A i \in DOMAIN timers : i # Len(timers) + 1 /\ timers'[i] = timers[i]
        /\ timers'[Len(timers) + 1] = t
    BY <1>1
  <1>3. \A i \in DOMAIN timers : Names(timers[i])
    BY DEF ClockOK
  <1> HIDE DEF Names
  <1> QED  BY <1>2, <1>3

-----------------------------------------------------------------------------
(***************************************************************************)
(* Type correctness.                                                       *)
(***************************************************************************)
\* A goroutine's Advance, well-typed for timers of these indices.
AdvanceOK(a, indices) ==
    /\ a \in [pc : {"off", "locked", "mark", "fire"}, todo : SUBSET Nat, due : SUBSET Nat]
    /\ a.todo \cup a.due \subseteq indices

LEMMA AdvanceStays ==
    ASSUME ClockOK, DOMAIN timers \subseteq DOMAIN timers', NEW g \in Goroutine,
           NEW a, AdvanceOK(a, DOMAIN timers), advance' = [advance EXCEPT ![g] = a]
    PROVE  /\ advance' \in [Goroutine -> [pc : {"off", "locked", "mark", "fire"},
                                          todo : SUBSET Nat, due : SUBSET Nat]]
           /\ \A h \in Goroutine :
                 /\ advance'[h] = IF h = g THEN a ELSE advance[h]
                 /\ advance'[h].todo \cup advance'[h].due \subseteq DOMAIN timers'
  BY DEF ClockOK, AdvanceOK

\* The Advance of goroutine g goes on with these timers at most.
Goes(g, todo, due) ==
    \E a : /\ AdvanceOK(a, DOMAIN timers) /\ advance' = [advance EXCEPT ![g] = a]
           /\ a.todo \subseteq todo /\ a.due \subseteq due

LEMMA AdvanceTyped ==
    ASSUME ClockOK, NEW g \in Goroutine
    PROVE  /\ AdvanceOK(advance[g], DOMAIN timers) /\ DOMAIN timers \subseteq Nat
           /\ advance[g] = [pc |-> advance[g].pc, todo |-> advance[g].todo, due |-> advance[g].due]
           /\ g \in DOMAIN advance /\ now \in Nat
           /\ \A i \in DOMAIN timers : timers[i].kind \in {"stall", "after"}
  <1>1. advance \in [Goroutine -> [pc : {"off", "locked", "mark", "fire"},
                                  todo : SUBSET Nat, due : SUBSET Nat]]
        /\ advance[g].todo \cup advance[g].due \subseteq DOMAIN timers /\ now \in Nat
    BY DEF ClockOK
  <1>2. timers \in Seq(TimerOK)
    BY DEF ClockOK
  <1>3. \A i \in DOMAIN timers : timers[i].kind \in {"stall", "after"}
    <2>1. \A i \in DOMAIN timers : timers[i] \in TimerOK
      BY <1>2
    <2> QED  BY <2>1 DEF TimerOK
  <1>4. DOMAIN timers \subseteq Nat
    BY <1>2
  <1> QED  BY <1>1, <1>3, <1>4 DEF AdvanceOK

LEMMA BeginMoves ==
    ASSUME ClockOK, NEW g \in Goroutine, NEW d \in Nat, Begin(g, d)
    PROVE  /\ now' \in Nat /\ now <= now' /\ timers' = timers
           /\ Goes(g, {i \in DOMAIN timers : timers[i].deadline <= now'}, {})
  <1> DEFINE a == [pc |-> "locked", due |-> {},
                   todo |-> {i \in DOMAIN timers : timers[i].deadline <= now'
                                                   /\ timers[i].phase = "armed"}]
  <1>1. /\ AdvanceOK(a, DOMAIN timers) /\ a.due = {}
        /\ a.todo \subseteq {i \in DOMAIN timers : timers[i].deadline <= now'}
    BY AdvanceTyped DEF AdvanceOK
  <1>2. advance' = [advance EXCEPT ![g] = a] /\ now' = now + d /\ timers' = timers
    BY DEF Begin
  <1>3. now <= now' /\ now' \in Nat
    <2>1. now \in Nat
      BY DEF ClockOK
    <2> QED  BY <1>2, <2>1
  <1> HIDE DEF a
  <1> QED  BY <1>1, <1>2, <1>3 DEF Goes

LEMMA UnlockMoves ==
    ASSUME ClockOK, NEW g \in Goroutine, Unlock(g) \/ Marked(g)
    PROVE  now' = now /\ timers' = timers /\ Goes(g, advance[g].todo, advance[g].due)
  <1>1. PICK p \in {"mark", "fire"} : advance' = [advance EXCEPT ![g].pc = p]
    BY DEF Unlock, Marked
  <1> DEFINE a == [advance[g] EXCEPT !.pc = p]
  <1>2. AdvanceOK(a, DOMAIN timers) /\ a.todo = advance[g].todo /\ a.due = advance[g].due
    BY AdvanceTyped DEF AdvanceOK
  <1>3. advance' = [advance EXCEPT ![g] = a]
    BY <1>1
  <1> QED  BY <1>2, <1>3, Zenon DEF Goes, Unlock, Marked

LEMMA FinishMoves ==
    ASSUME ClockOK, NEW g \in Goroutine, Finish(g)
    PROVE  now' = now /\ timers' = timers /\ Goes(g, {}, {})
  <1>1. AdvanceOK(Off, DOMAIN timers) /\ Off.todo = {} /\ Off.due = {}
    BY DEF Off, AdvanceOK
  <1> QED  BY <1>1, Zenon DEF Finish, Goes

LEMMA FireMoves ==
    ASSUME ClockOK, NEW g \in Goroutine, Fire(g)
    PROVE  /\ now' = now /\ timers' = timers /\ Goes(g, advance[g].todo, advance[g].due)
           /\ \E i \in advance[g].due :
                 \/ timers[i].kind = "after" /\ reports' = reports
                 \/ timers[i].kind = "stall" /\ reports' = reports \cup {timers[i].n}
  <1>1. PICK i \in advance[g].due :
            /\ now' = now /\ timers' = timers
            /\ advance' = [advance EXCEPT ![g].due = @ \ {i}]
            /\ \/ timers[i].kind = "after" /\ reports' = reports
               \/ timers[i].kind # "after" /\ reports' = reports \cup {timers[i].n}
    BY DEF Fire
  <1> DEFINE a == [advance[g] EXCEPT !.due = @ \ {i}]
  <1>2. AdvanceOK(a, DOMAIN timers) /\ a.todo = advance[g].todo /\ a.due \subseteq advance[g].due
    BY AdvanceTyped DEF AdvanceOK
  <1>3. advance' = [advance EXCEPT ![g] = a]
    BY <1>1
  <1>4. timers[i].kind \in {"stall", "after"}
    BY AdvanceTyped DEF AdvanceOK
  <1> QED  BY <1>1, <1>2, <1>3, <1>4 DEF Goes

LEMMA MarkMoves ==
    ASSUME ClockOK, NEW g \in Goroutine, Mark(g)
    PROVE  /\ now' = now
           /\ \E i \in advance[g].todo :
                 \/ /\ timers[i].phase = "armed" /\ timers' = [timers EXCEPT ![i].phase = "fired"]
                    /\ Goes(g, advance[g].todo, advance[g].due \cup {i})
                 \/ timers' = timers /\ Goes(g, advance[g].todo, advance[g].due)
  <1>1. PICK i \in advance[g].todo : \E marked \in BOOLEAN :
            /\ now' = now /\ (marked <=> timers[i].phase = "armed")
            /\ advance' = [advance EXCEPT ![g].todo = @ \ {i},
                                          ![g].due = IF marked THEN @ \cup {i} ELSE @]
            /\ timers' = IF marked THEN [timers EXCEPT ![i].phase = "fired"] ELSE timers
    BY DEF Mark
  <1>2. PICK marked \in BOOLEAN :
            /\ now' = now /\ (marked <=> timers[i].phase = "armed")
            /\ advance' = [advance EXCEPT ![g].todo = @ \ {i},
                                          ![g].due = IF marked THEN @ \cup {i} ELSE @]
            /\ timers' = IF marked THEN [timers EXCEPT ![i].phase = "fired"] ELSE timers
    BY <1>1
  <1> DEFINE due == IF marked THEN advance[g].due \cup {i} ELSE advance[g].due
             a == [advance[g] EXCEPT !.todo = @ \ {i}, !.due = due]
  <1>3. due \subseteq DOMAIN timers
    <2>1. advance[g].todo \cup advance[g].due \subseteq DOMAIN timers
      BY DEF ClockOK
    <2> QED  BY <2>1
  <1>4. advance' = [advance EXCEPT ![g] = a]
    BY <1>2, AdvanceTyped
  <1> HIDE DEF due
  <1>5. AdvanceOK(a, DOMAIN timers) /\ a.todo \subseteq advance[g].todo /\ a.due = due
    BY <1>3, AdvanceTyped DEF AdvanceOK
  <1> HIDE DEF a
  <1>6. Goes(g, advance[g].todo, due)
    BY <1>4, <1>5 DEF Goes
  <1> QED  BY <1>2, <1>6 DEF due

\* What ClockOK needs of a step that lets one goroutine's Advance go on.
LEMMA GoesFacts ==
    ASSUME ClockOK, NEW g \in Goroutine, NEW todo, NEW due, Goes(g, todo, due),
           DOMAIN timers \subseteq DOMAIN timers'
    PROVE  /\ advance' \in [Goroutine -> [pc : {"off", "locked", "mark", "fire"},
                                          todo : SUBSET Nat, due : SUBSET Nat]]
           /\ \A h \in Goroutine :
                 advance'[h].todo \cup advance'[h].due \subseteq DOMAIN timers'
           /\ advance'[g].todo \subseteq todo /\ advance'[g].due \subseteq due
           /\ \A h \in Goroutine \ {g} : advance'[h] = advance[h]
  <1>1. PICK a : /\ AdvanceOK(a, DOMAIN timers) /\ advance' = [advance EXCEPT ![g] = a]
                 /\ a.todo \subseteq todo /\ a.due \subseteq due
    BY DEF Goes
  <1> QED  BY <1>1, AdvanceStays

\* The watchdog and the after edges that are put on timers.
LEMMA Arming ==
    ASSUME ClockOK, ActorOK
    PROVE  /\ Guard => \E t \in TimerOK :
                 Names(t) /\ Schedule(t) /\ t = Timer("stall", None, version + 1, since + Threshold)
           /\ Arm => \E t \in TimerOK : Names(t) /\ Schedule(t) /\ t.kind = "after"
  <1> USE VirtualTimeAssumption
  <1>1. ASSUME Guard PROVE \E t \in TimerOK :
                 Names(t) /\ Schedule(t) /\ t = Timer("stall", None, version + 1, since + Threshold)
    <2> DEFINE t == Timer("stall", None, version + 1, since + Threshold)
    <2>1. t \in TimerOK /\ Names(t)
      BY DEF Timer, TimerOK, Names, ActorOK
    <2> QED  BY <1>1, <2>1 DEF Guard
  <1>2. ASSUME Arm PROVE \E t \in TimerOK : Names(t) /\ Schedule(t) /\ t.kind = "after"
    <2> DEFINE d == Head(toArm).delay
               t == Timer("after", leaf, d, since + d)
    <2>1. /\ toArm \in Seq([delay : Nat, to : Leaf]) /\ toArm # <<>> /\ leaf \in Leaf
          /\ since \in Nat /\ \A i \in DOMAIN toArm : toArm[i].delay \in Delays(leaf)
      BY <1>2 DEF ActorOK, Arm
    <2>2. 1 \in DOMAIN toArm /\ Head(toArm) = toArm[1]
      BY <2>1
    <2>3. d \in Nat /\ d \in Delays(leaf)
      <3> DEFINE edges == [delay : Nat, to : Leaf]
      <3>1. toArm \in Seq(edges) /\ toArm[1].delay \in Delays(leaf)
        BY <2>1, <2>2
      <3> HIDE DEF edges
      <3>2. toArm[1] \in edges
        BY <2>2, <3>1
      <3> QED  BY <2>2, <3>1, <3>2 DEF edges
    <2>4. Schedule(t)
      BY <1>2 DEF Arm
    <2> HIDE DEF d
    <2>5. t \in TimerOK /\ Names(t) /\ t.kind = "after"
      BY <2>1, <2>3 DEF Timer, TimerOK, Names
    <2> QED  BY <2>4, <2>5
  <1> QED  BY <1>1, <1>2

LEMMA ClockTyped ==
    ASSUME TypeOK, [Next]_vars
    PROVE  ClockOK' /\ now <= now'
  <1> USE DEF TypeOK
  <1>1. now \in Nat /\ timers \in Seq(TimerOK) /\ \A i \in DOMAIN timers : Names(timers[i])
    BY DEF ClockOK
  <1> DEFINE advanceOK ==
          /\ advance' \in [Goroutine -> [pc : {"off", "locked", "mark", "fire"},
                                         todo : SUBSET Nat, due : SUBSET Nat]]
          /\ \A h \in Goroutine : advance'[h].todo \cup advance'[h].due \subseteq DOMAIN timers'
  <1>2. CASE UNCHANGED clockVars
    BY <1>1, <1>2 DEF clockVars, ClockOK
  <1>3. ASSUME NEW g \in Goroutine, NEW todo, NEW due, Goes(g, todo, due), timers' = timers,
               now' \in Nat
        PROVE  ClockOK'
    <2>1. advanceOK
      BY <1>3, GoesFacts
    <2> QED  BY <1>1, <1>3, <2>1 DEF ClockOK
  <1>4. ASSUME NEW g \in Goroutine, Mark(g) PROVE ClockOK' /\ now <= now'
    <2>1. PICK i \in advance[g].todo :
                 \/ /\ timers[i].phase = "armed" /\ timers' = [timers EXCEPT ![i].phase = "fired"]
                    /\ Goes(g, advance[g].todo, advance[g].due \cup {i})
                 \/ timers' = timers /\ Goes(g, advance[g].todo, advance[g].due)
      BY <1>4, MarkMoves
    <2>2. now' = now
      BY <1>4, MarkMoves
    <2>3. CASE timers' = [timers EXCEPT ![i].phase = "fired"]
      <3>1. i \in DOMAIN timers
        BY DEF ClockOK
      <3>2. SameTimers /\ \A j \in DOMAIN timers' : Names(timers'[j])
        BY <2>3, <3>1, MarkedOne, NamesKept
      <3>3. advanceOK
        BY <2>1, <3>2, GoesFacts DEF SameTimers
      <3> QED  BY <1>1, <2>2, <3>2, <3>3 DEF ClockOK, SameTimers
    <2> QED  BY <1>1, <1>3, <2>1, <2>2, <2>3
  <1>5. CASE Guard \/ Arm
    <2>1. PICK t \in TimerOK : Names(t) /\ Schedule(t)
      BY <1>5, Arming
    <2>2. /\ timers' \in Seq(TimerOK) /\ \A i \in DOMAIN timers' : Names(timers'[i])
          /\ DOMAIN timers \subseteq DOMAIN timers'
      BY <2>1, Scheduled
    <2>3. now' = now /\ advance' = advance
      BY <1>5 DEF Guard, Arm, ActorOnly
    <2>4. advanceOK
      BY <2>2, <2>3 DEF ClockOK
    <2> QED  BY <1>1, <2>2, <2>3, <2>4 DEF ClockOK
  <1>6. CASE Observed \/ Disarm
    <2>1. SameTimers
      BY <1>6, Cancelled DEF Observed, Disarm
    <2>2. \A i \in DOMAIN timers' : Names(timers'[i])
      BY <2>1, NamesKept
    <2>3. now' = now /\ advance' = advance
      BY <1>6 DEF Observed, Commit, Disarm, ActorOnly
    <2>4. advanceOK
      BY <2>1, <2>3 DEF ClockOK, SameTimers
    <2> QED  BY <1>1, <2>1, <2>2, <2>3, <2>4 DEF ClockOK, SameTimers
  <1>7. ASSUME NEW g \in Goroutine, NEW d \in Nat, Begin(g, d) PROVE ClockOK' /\ now <= now'
    BY <1>3, <1>7, BeginMoves
  <1>8. ASSUME NEW g \in Goroutine, Unlock(g) \/ Marked(g) \/ Fire(g) \/ Finish(g)
        PROVE  ClockOK' /\ now <= now'
    BY <1>1, <1>3, <1>8, UnlockMoves, FireMoves, FinishMoves
  <1>9. UNCHANGED clockVars \/ Guard \/ Observed \/ Disarm \/ Arm => now' = now
    BY DEF clockVars, Guard, Observed, Commit, Disarm, Arm, ActorOnly
  <1> QED  BY <1>1, <1>2, <1>4, <1>5, <1>6, <1>7, <1>8, <1>9, ClockMoves

LEMMA TestTyped ==
    ASSUME TypeOK, [Next]_vars
    PROVE  TestOK'
  <1> USE DEF TypeOK, TestOK
  <1>1. CASE Actor
    <2>1. UNCHANGED <<script, step, harness, ticks, reports>>
      BY <1>1, Zenon DEF Actor, Take, Watch, Guard, Observed, Commit, Disarm, Arm, Reconcile,
                         Emit, ActorOnly, testVars
    <2>2. ack' \in {"none", "idle", "busy"}
      BY <1>1 DEF Actor, Take, Watch, Guard, Observed, Commit, Disarm, Arm, Reconcile, Emit
    <2>3. raced' \in BOOLEAN
      BY <1>1 DEF Actor, Take, Watch, Guard, Observed, Commit, Disarm, Arm, Reconcile, Emit
    <2> QED  BY <2>1, <2>2, <2>3
  <1>2. ASSUME NEW g \in Goroutine, Fire(g) PROVE TestOK'
    <2>1. reports' \subseteq Nat
      <3>1. PICK i \in advance[g].due :
                 \/ timers[i].kind = "after" /\ reports' = reports
                 \/ timers[i].kind = "stall" /\ reports' = reports \cup {timers[i].n}
        BY <1>2, FireMoves
      <3>2. i \in DOMAIN timers /\ timers \in Seq(TimerOK)
        BY DEF ClockOK
      <3>3. timers[i] \in TimerOK
        BY <3>2
      <3> QED  BY <3>1, <3>3 DEF TimerOK
    <2> QED  BY <1>2, <2>1 DEF Fire, testVars
  <1>3. ASSUME NEW g \in Goroutine, Unlock(g) \/ Mark(g) \/ Marked(g) PROVE TestOK'
    BY <1>3 DEF Unlock, Mark, Marked, testVars
  <1>4. CASE Settle \/ Settled \/ SendStep \/ AdvanceStep \/ Advanced
    <2>1. script' = script /\ ticks' = ticks /\ raced' = raced /\ reports' = reports
      BY <1>4, Zenon DEF Settle, Settled, SendStep, AdvanceStep, Advanced, StepTo
    <2>2. step' = step \/ step' = step + 1
      BY <1>4, Zenon DEF Settle, Settled, SendStep, AdvanceStep, Advanced, StepTo
    <2>3. harness' \in {"settle", "ack", "ready", "advance"} /\ (ack' = ack \/ ack' = "none")
      BY <1>4 DEF Settle, Settled, SendStep, AdvanceStep, Advanced, StepTo
    <2> QED  BY <2>1, <2>2, <2>3
  <1>5. CASE Tick \/ Ticked
    BY <1>5 DEF Tick, Ticked, testVars
  <1>6. CASE Rest \/ UNCHANGED vars
    BY <1>6 DEF Rest, vars, testVars
  <1> QED  BY <1>1, <1>2, <1>3, <1>4, <1>5, <1>6, Goroutines DEF Next, Test, Other

\* What a fake actor is about to emit.
LEMMA EmitTyped ==
    ASSUME ActorOK, Emit
    PROVE  Outcomes[leaf][attempts'[leaf]] \in DOMAIN On
  <1>1. /\ leaf \in Leaf /\ attempts \in [Leaf -> Nat]
        /\ Outcomes[leaf] # None /\ attempts[leaf] < Len(Outcomes[leaf])
        /\ attempts' = [attempts EXCEPT ![leaf] = @ + 1]
    BY DEF ActorOK, Emit
  <1>2. attempts'[leaf] = attempts[leaf] + 1 /\ attempts[leaf] \in Nat
    BY <1>1
  <1>3. Outcomes[leaf] \in Seq(DOMAIN On)
    BY <1>1, MachineAssumption
  <1> QED  BY <1>1, <1>2, <1>3

LEMMA EdgeTyped ==
    ASSUME ActorOK, MailOK, pc = "idle", mailbox # <<>>
    PROVE  leaf \in Leaf /\ EdgeOf(leaf, Head(mailbox)) \in Leaf \cup {None}
  <1> DEFINE x == Head(mailbox)
  <1>1. leaf \in Leaf
    BY DEF ActorOK
  <1> SUFFICES EdgeOf(leaf, x) \in Leaf \cup {None}
    BY <1>1
  <1>2. Names(x)
    <2>1. mailbox \in Seq(Item) /\ \A i \in DOMAIN mailbox : Names(mailbox[i])
      BY DEF MailOK
    <2>2. 1 \in DOMAIN mailbox /\ x = mailbox[1]
      BY <2>1
    <2> QED  BY <2>1, <2>2
  <1> HIDE DEF x
  <1>3. CASE x.kind = "event"
    BY <1>1, <1>2, <1>3, MachineAssumption DEF Names, EdgeOf
  <1>4. CASE x.kind = "after" /\ x.of = leaf
    <2>1. x.n \in Delays(leaf)
      BY <1>2, <1>4 DEF Names
    <2> DEFINE i == CHOOSE i \in DOMAIN After[leaf] : After[leaf][i].delay = x.n
    <2>2. i \in DOMAIN After[leaf]
      BY <2>1 DEF Delays
    <2> HIDE DEF i
    <2> DEFINE edges == [delay : Nat, to : Leaf]
    <2>3. After[leaf] \in Seq(edges)
      BY <1>1, MachineAssumption
    <2> HIDE DEF edges
    <2>4. After[leaf][i] \in edges
      BY <2>2, <2>3
    <2>5. EdgeOf(leaf, x) = After[leaf][i].to
      BY <1>4 DEF EdgeOf, i
    <2> QED  BY <2>4, <2>5 DEF edges
  <1>5. CASE x.kind # "event" /\ (x.kind = "after" => x.of # leaf)
    BY <1>5 DEF EdgeOf
  <1> QED  BY <1>3, <1>4, <1>5

LEMMA MailTyped ==
    ASSUME TypeOK, [Next]_vars
    PROVE  MailOK'
  <1> USE DEF TypeOK
  <1>1. ASSUME mailbox' = mailbox PROVE MailOK'
    BY <1>1 DEF MailOK
  <1>2. ASSUME Settle PROVE MailOK'
    <2>1. Ping \in Item /\ Names(Ping) /\ Post(Ping)
      BY <1>2 DEF Ping, Item, Names, Settle
    <2> QED  BY <2>1, PostTyped
  <1>3. ASSUME NEW e \in DOMAIN On, Post(Event(e)) PROVE MailOK'
    <2>1. Event(e) \in Item /\ Names(Event(e))
      BY DEF Event, Item, Names
    <2> QED  BY <1>3, <2>1, PostTyped
  <1>4. ASSUME SendStep PROVE MailOK'
    <2>1. step < Len(script) /\ Next1.verb = "send" /\ Post(Event(Next1.arg))
      BY <1>4 DEF SendStep, StepTo
    <2> QED  BY <1>3, <2>1, StepFacts
  <1>5. ASSUME Emit PROVE MailOK'
    BY <1>3, <1>5, EmitTyped DEF Emit
  <1>6. ASSUME NEW g \in Goroutine, Fire(g) PROVE MailOK'
    <2>1. PICK i \in advance[g].due :
              \/ timers[i].kind = "after"
                 /\ Post([kind |-> "after", of |-> timers[i].of, n |-> timers[i].n])
              \/ mailbox' = mailbox
      BY <1>6 DEF Fire
    <2> DEFINE x == [kind |-> "after", of |-> timers[i].of, n |-> timers[i].n]
    <2>2. CASE timers[i].kind = "after" /\ Post(x)
      <3>1. i \in DOMAIN timers /\ timers \in Seq(TimerOK) /\ Names(timers[i])
        BY DEF ClockOK
      <3>2. timers[i] \in TimerOK
        BY <3>1
      <3>3. x \in Item /\ Names(x)
        BY <2>2, <3>1, <3>2 DEF TimerOK, Item, Names
      <3> HIDE DEF x
      <3> QED  BY <2>2, <3>3, PostTyped
    <2> QED  BY <1>1, <2>1, <2>2
  <1>7. ASSUME Take PROVE MailOK'
    <2>1. mailbox \in Seq(Item) /\ mailbox # <<>> /\ mailbox' = Tail(mailbox)
      BY <1>7 DEF MailOK, Take
    <2>2. mailbox' \in Seq(Item)
          /\ \A i \in DOMAIN mailbox' : i + 1 \in DOMAIN mailbox /\ mailbox'[i] = mailbox[i + 1]
      BY <2>1
    <2>3. \A i \in DOMAIN mailbox : Names(mailbox[i])
      BY DEF MailOK
    <2>4. \A i \in DOMAIN mailbox' : Names(mailbox'[i])
      BY <2>2, <2>3
    <2> QED  BY <2>2, <2>4 DEF MailOK
  <1>8. \/ mailbox' = mailbox
        \/ Settle \/ SendStep \/ Emit \/ Take \/ \E g \in Goroutine : Fire(g)
    <2>1. CASE Actor \/ Rest \/ UNCHANGED vars
      BY <2>1, Zenon DEF Actor, Watch, Guard, Observed, Commit, Disarm, Arm, Reconcile, Rest, vars
    <2>2. CASE Test
      BY <2>2, Goroutines, Zenon
         DEF Test, Settled, AdvanceStep, Advanced, Unlock, Mark, Marked
    <2>3. CASE Other \/ Tick
      BY <2>3, Goroutines, Zenon DEF Other, Tick, Ticked, Unlock, Mark, Marked
    <2> QED  BY <2>1, <2>2, <2>3 DEF Next
  <1> QED  BY <1>1, <1>2, <1>4, <1>5, <1>6, <1>7, <1>8

\* The other goroutines leave the actor's own state alone.
LEMMA ActorMoves ==
    ASSUME [Next]_vars
    PROVE  \/ UNCHANGED actorVars
           \/ ActorOnly /\ (Take \/ Watch \/ Guard \/ Observed \/ Disarm \/ Arm \/ Reconcile \/ Emit)
  <1>1. CASE Rest \/ UNCHANGED vars
    BY <1>1, Zenon DEF Rest, vars
  <1>2. CASE Test
    BY <1>2, Zenon DEF Test, Settle, Settled, SendStep, AdvanceStep, StepTo, Advanced, Unlock,
                       Mark, Marked, Fire
  <1>3. CASE Other \/ Tick
    BY <1>3, Zenon DEF Other, Tick, Ticked, Unlock, Mark, Marked, Fire
  <1>4. CASE Actor
    BY <1>4, Zenon DEF Actor, Take, Watch, Guard, Observed, Commit, Disarm, Arm, Reconcile, Emit
  <1> QED  BY <1>1, <1>2, <1>3, <1>4 DEF Next

LEMMA ActorTyped ==
    ASSUME TypeOK, [Next]_vars
    PROVE  ActorOK'
  <1> now \in Nat /\ now' \in Nat /\ now <= now'
    BY ClockTyped DEF TypeOK, ClockOK
  <1> ActorOK
    BY DEF TypeOK
  <1> USE DEF ActorOK
  <1>1. CASE UNCHANGED actorVars
    BY <1>1 DEF actorVars, Delays
  <1>2. CASE Take
    <2>1. UNCHANGED <<leaf, version, since, toArm, running, attempts, held>>
          /\ pc = "idle" /\ leaf \in Leaf
      BY <1>2 DEF Take
    <2>2. \/ pc' = pc /\ goal' = goal
          \/ pc' = "watch" /\ goal' \in Leaf
      BY <1>2, EdgeTyped DEF Take, TypeOK
    <2> QED  BY <2>1, <2>2 DEF Place
  <1>3. CASE Watch \/ Guard
    BY <1>3 DEF Watch, Guard, Place
  <1>4. CASE Observed
    <2>1. /\ pc' = "disarm" /\ version' = version + 1 /\ leaf' = goal /\ toArm' = After[goal]
          /\ held' = Append(held, now - since)
          /\ UNCHANGED <<goal, since, running, attempts>>
      BY <1>4 DEF Observed, Commit
    <2>2. toArm' \in Seq([delay : Nat, to : Leaf])
          /\ \A i \in DOMAIN toArm' : toArm'[i].delay \in Delays(leaf')
      BY <2>1, MachineAssumption DEF Delays
    <2>3. now - since \in Nat
      OBVIOUS
    <2>4. held' \in Seq(Nat) /\ Len(held') = version'
      BY <2>1, <2>3
    <2>5. (\A i \in DOMAIN toArm : toArm[i].delay \in Delays(leaf))'
      BY <2>2 DEF Delays
    <2>6. /\ pc' \in Place /\ goal' \in Leaf /\ leaf' \in Leaf /\ running' \in Leaf \cup {None}
          /\ version' \in Nat /\ since' \in Nat /\ since' <= now' /\ attempts' \in [Leaf -> Nat]
          /\ leaf' # None
      BY <2>1, MachineAssumption DEF Place
    <2>7. pc' = "disarm"
      BY <2>1
    <2> QED  BY <2>2, <2>4, <2>5, <2>6, <2>7
  <1>5. CASE Disarm
    <2>1. /\ pc = "disarm" /\ pc' = "arm" /\ since' = now
          /\ UNCHANGED <<leaf, goal, version, toArm, running, attempts, held>>
      BY <1>5 DEF Disarm
    <2> QED  BY <2>1 DEF Place, Delays
  <1>6. CASE Arm
    <2>1. /\ pc = "arm" /\ toArm # <<>> /\ toArm' = Tail(toArm)
          /\ UNCHANGED <<pc, leaf, goal, version, since, running, attempts, held>>
      BY <1>6 DEF Arm
    <2> DEFINE edges == [delay : Nat, to : Leaf]
    <2> HIDE DEF edges
    <2>2. toArm \in Seq(edges)
      BY DEF edges
    <2>3. toArm' \in Seq(edges)
          /\ \A i \in DOMAIN toArm' : i + 1 \in DOMAIN toArm /\ toArm'[i] = toArm[i + 1]
      BY <2>1, <2>2
    <2>4. \A i \in DOMAIN toArm' : toArm'[i].delay \in Delays(leaf)
      BY <2>1, <2>3
    <2> QED  BY <2>1, <2>3, <2>4 DEF Delays, edges
  <1>7. CASE Reconcile
    <2>1. /\ pc = "arm" /\ running' \in {None, leaf} /\ pc' \in {"emit", "idle"}
          /\ UNCHANGED <<leaf, goal, version, since, toArm, attempts, held>>
      BY <1>7 DEF Reconcile
    <2>2. pc' = "emit" => Outcomes[leaf] # None /\ attempts[leaf] < Len(Outcomes[leaf])
      BY <1>7, Zenon DEF Reconcile
    <2> QED  BY <2>1, <2>2 DEF Place
  <1>8. CASE Emit
    <2>1. /\ pc' = "idle" /\ attempts' = [attempts EXCEPT ![leaf] = @ + 1] /\ leaf \in Leaf
          /\ UNCHANGED <<leaf, goal, version, since, toArm, running, held>>
      BY <1>8 DEF Emit
    <2>2. attempts' \in [Leaf -> Nat]
      BY <2>1
    <2>3. pc' \in Place /\ pc' \notin {"disarm", "arm", "emit"} /\ leaf' # None
      BY <2>1, MachineAssumption DEF Place
    <2>4. /\ goal' \in Leaf /\ leaf' \in Leaf /\ running' \in Leaf \cup {None}
          /\ version' \in Nat /\ since' \in Nat /\ since' <= now'
          /\ toArm' \in Seq([delay : Nat, to : Leaf]) /\ held' \in Seq(Nat) /\ Len(held') = version'
      BY <2>1
    <2> QED  BY <2>2, <2>3, <2>4
  <1> QED  BY <1>1, <1>2, <1>3, <1>4, <1>5, <1>6, <1>7, <1>8, ActorMoves

LEMMA TypeInit ==
    ASSUME Init
    PROVE  TypeOK
  <1> USE VirtualTimeAssumption DEF Init
  <1>1. ClockOK
    BY DEF ClockOK, Off
  <1>2. TestOK
    BY DEF TestOK
  <1>3. MailOK
    BY DEF MailOK
  <1>4. ActorOK
    BY DEF ActorOK, Place
  <1> QED  BY <1>1, <1>2, <1>3, <1>4 DEF TypeOK

LEMMA TypeStep ==
    ASSUME TypeOK, [Next]_vars
    PROVE  TypeOK'
  BY ClockTyped, TestTyped, MailTyped, ActorTyped DEF TypeOK

\* Type correctness: every timer and every item of the mailbox names an edge of
\* the machine, an after edge is armed only for the leaf that is active then, and a
\* fake actor that is about to emit has an outcome left.
THEOREM TypeCorrect == Spec => []TypeOK
  <1>1. Init => TypeOK
    BY TypeInit
  <1>2. TypeOK /\ [Next]_vars => TypeOK'
    BY TypeStep
  <1> QED  BY <1>1, <1>2, PTL DEF Spec

-----------------------------------------------------------------------------
(***************************************************************************)
(* The watchdog of the observer.                                           *)
(***************************************************************************)
\* A step keeps the timers; it fires one only if that was due to an Advance, and
\* then or when it cancels one, only if the timer was armed.
LEMMA TimersKept ==
    ASSUME TypeOK, [Next]_vars, NEW i \in DOMAIN timers
    PROVE  /\ i \in DOMAIN timers' /\ timers'[i].kind = timers[i].kind
           /\ timers'[i].n = timers[i].n /\ timers'[i].deadline = timers[i].deadline
           /\ timers[i].phase # "armed" => timers'[i].phase = timers[i].phase
           /\ \/ timers'[i].phase # "fired" \/ timers[i].phase = "fired"
              \/ \E g \in Goroutine : i \in advance[g].todo
  <1> ClockOK /\ TestOK
    BY DEF TypeOK
  <1>1. CASE timers' = timers
    BY <1>1
  <1>2. ASSUME NEW g \in Goroutine, Mark(g), timers' # timers
        PROVE  /\ SameTimers
               /\ timers[i].phase # "armed" => timers'[i].phase = timers[i].phase
               /\ timers'[i].phase # timers[i].phase => i \in advance[g].todo
    <2>1. PICK j \in advance[g].todo :
              timers[j].phase = "armed" /\ timers' = [timers EXCEPT ![j].phase = "fired"]
      BY <1>2, MarkMoves
    <2>2. j \in DOMAIN timers
      BY DEF ClockOK
    <2> QED  BY <2>1, <2>2, MarkedOne
  <1>3. CASE Guard \/ Arm
    <2>1. ActorOK
      BY DEF TypeOK
    <2>2. PICK t \in TimerOK : Names(t) /\ Schedule(t)
      BY <1>3, <2>1, Arming
    <2> QED  BY <2>2, Scheduled
  <1>4. CASE Observed \/ Disarm
    <2>1. PICK those : Cancel(those)
      BY <1>4 DEF Observed, Disarm
    <2>2. SameTimers /\ timers'[i].phase =
             IF i \in those /\ timers[i].phase = "armed" THEN "cancelled" ELSE timers[i].phase
      BY <2>1, Cancelled
    <2> QED  BY <2>2 DEF SameTimers
  <1>5. timers' = timers \/ Guard \/ Arm \/ Observed \/ Disarm \/ \E g \in Goroutine : Mark(g)
    BY ClockMoves, BeginMoves, UnlockMoves, FireMoves, FinishMoves DEF clockVars
  <1> QED  BY <1>1, <1>2, <1>3, <1>4, <1>5 DEF SameTimers

\* The timers a step adds.
LEMMA TimersAdded ==
    ASSUME TypeOK, [Next]_vars, NEW i \in DOMAIN timers' \ DOMAIN timers
    PROVE  \/ timers'[i].kind = "after"
           \/ Guard /\ timers'[i] = Timer("stall", None, version + 1, since + Threshold)
  <1> ClockOK /\ TestOK /\ ActorOK
    BY DEF TypeOK
  <1>1. ASSUME NEW g \in Goroutine, Mark(g) PROVE DOMAIN timers' = DOMAIN timers
    <2>1. PICK j \in advance[g].todo :
              timers' = timers \/ timers' = [timers EXCEPT ![j].phase = "fired"]
      BY <1>1, MarkMoves
    <2> QED  BY <2>1
  <1>2. CASE Guard \/ Arm
    <2>1. PICK t \in TimerOK :
              /\ Names(t) /\ Schedule(t)
              /\ \/ t.kind = "after"
                 \/ Guard /\ t = Timer("stall", None, version + 1, since + Threshold)
      BY <1>2, Arming
    <2>2. timers'[i] = t
      BY <2>1, Scheduled
    <2> QED  BY <2>1, <2>2
  <1>3. CASE Observed \/ Disarm
    BY <1>3 DEF Observed, Disarm, Cancel
  <1>4. timers' = timers \/ Guard \/ Arm \/ Observed \/ Disarm \/ \E g \in Goroutine : Mark(g)
    BY ClockMoves, BeginMoves, UnlockMoves, FireMoves, FinishMoves DEF clockVars
  <1> QED  BY <1>1, <1>2, <1>3, <1>4

\* What a watchdog says remains true, and becomes true of the one that is added.
LEMMA WatchdogStep ==
    ASSUME TypeOK, TypeOK', StallInv, [Next]_vars
    PROVE  (\A i \in Stalls : OverNow(timers[i]) \/ OverPast(timers[i]))'
  <1> SUFFICES ASSUME NEW i \in Stalls' PROVE (OverNow(timers[i]) \/ OverPast(timers[i]))'
    BY DEF Stalls
  <1>1. i \in DOMAIN timers' /\ timers'[i].kind = "stall"
    BY DEF Stalls
  <1>2. /\ now \in Nat /\ now' \in Nat /\ now <= now' /\ Threshold \in Nat /\ version \in Nat
        /\ since \in Nat /\ held \in Seq(Nat) /\ Len(held) = version /\ since <= now
    BY ClockTyped, VirtualTimeAssumption DEF TypeOK, ClockOK, ActorOK
  <1>3. /\ \/ version' = version /\ held' = held
           \/ Observed /\ version' = version + 1 /\ held' = Append(held, now - since)
        /\ pc = "observe" /\ ~Observed => UNCHANGED <<pc, since, version>>
    BY ActorMoves, Zenon DEF actorVars, Take, Watch, Guard, Observed, Commit, Disarm, Arm,
                             Reconcile, Emit
  <1>4. CASE i \notin DOMAIN timers
    <2>1. Guard /\ timers'[i] = Timer("stall", None, version + 1, since + Threshold)
      BY <1>1, <1>4, TimersAdded
    <2>2. pc' = "observe" /\ version' = version /\ since' = since
      BY <2>1 DEF Guard
    <2>3. timers'[i].n = version + 1 /\ timers'[i].deadline = since + Threshold
          /\ timers'[i].phase = "armed"
      BY <2>1 DEF Timer
    <2> QED  BY <2>2, <2>3 DEF OverNow
  <1>5. CASE i \in DOMAIN timers
    <2>1. /\ timers'[i].n = timers[i].n /\ timers'[i].deadline = timers[i].deadline
          /\ timers[i].phase # "armed" => timers'[i].phase = timers[i].phase
          /\ \/ timers'[i].phase # "fired" \/ timers[i].phase = "fired"
             \/ \E g \in Goroutine : i \in advance[g].todo
          /\ timers[i].kind = "stall"
      BY <1>1, <1>5, TimersKept
    <2>2. CASE OverPast(timers[i])
      <3>1. /\ timers[i].n \in 1 .. version' /\ timers'[i].phase # "armed"
            /\ timers'[i].phase = "fired" => held[timers[i].n] >= Threshold
        BY <1>2, <1>3, <2>1, <2>2 DEF OverPast
      <3>2. held'[timers[i].n] = held[timers[i].n]
        <4>1. timers[i].n \in 1 .. Len(held) /\ now - since \in Nat
          BY <1>2, <2>2 DEF OverPast
        <4> QED  BY <1>2, <1>3, <4>1
      <3> QED  BY <2>1, <3>1, <3>2 DEF OverPast
    <2>3. CASE OverNow(timers[i])
      <3>1. /\ pc = "observe" /\ timers[i].n = version + 1
            /\ timers[i].deadline = since + Threshold
            /\ timers[i].phase = "fired" => since + Threshold <= now
        BY <2>3 DEF OverNow
      <3>2. timers'[i].phase = "fired" => since + Threshold <= now
        BY <2>1, <3>1 DEF StallInv
      <3>3. CASE Observed
        <4>1. i \in Stalls /\ Cancel(Stalls)
          BY <1>5, <2>1, <3>3 DEF Stalls, Observed
        <4>2. timers'[i].phase # "armed"
          BY <1>5, <4>1, Cancelled DEF TypeOK
        <4>3. version' = version + 1 /\ held' = Append(held, now - since)
          BY <3>3 DEF Observed, Commit
        <4>4. held'[version + 1] = now - since
          BY <1>2, <4>3
        <4>5. timers'[i].phase = "fired" => held'[version + 1] >= Threshold
          BY <1>2, <3>2, <4>4
        <4> QED  BY <1>2, <2>1, <3>1, <4>2, <4>3, <4>5 DEF OverPast
      <3>4. CASE ~Observed
        <4>1. since + Threshold <= now => since + Threshold <= now'
          BY <1>2
        <4> QED  BY <1>3, <2>1, <3>1, <3>2, <3>4, <4>1 DEF OverNow
      <3> QED  BY <3>3, <3>4
    <2>4. i \in Stalls
      BY <1>5, <2>1 DEF Stalls
    <2> QED  BY <2>2, <2>3, <2>4 DEF StallInv
  <1> QED  BY <1>4, <1>5

\* What an Advance has still to do.
LEMMA AdvancesStep ==
    ASSUME TypeOK, TypeOK', StallInv, [Next]_vars, NEW h \in Goroutine
    PROVE  /\ \A i \in advance'[h].todo : timers'[i].deadline <= now'
           /\ \A i \in advance'[h].due : timers'[i].phase = "fired"
  <1> ClockOK /\ TestOK
    BY DEF TypeOK
  <1>1. \A g \in Goroutine :
            /\ \A i \in advance[g].todo :
                  /\ i \in DOMAIN timers /\ timers'[i].deadline = timers[i].deadline
                  /\ timers[i].deadline <= now
            /\ \A i \in advance[g].due :
                  i \in DOMAIN timers /\ timers'[i].phase = "fired"
    BY TimersKept DEF ClockOK, StallInv
  <1>2. \A g \in Goroutine : \A i \in advance[g].todo : timers'[i].deadline <= now'
    <2>1. now \in Nat /\ now' \in Nat /\ now <= now'
      BY ClockTyped DEF TypeOK, ClockOK
    <2>2. \A i \in DOMAIN timers : timers[i].deadline \in Nat
      <3>1. \A i \in DOMAIN timers : timers[i] \in TimerOK
        BY DEF ClockOK
      <3> QED  BY <3>1 DEF TimerOK
    <2> QED  BY <1>1, <2>1, <2>2
  <1>3. ASSUME NEW g \in Goroutine, NEW todo, NEW due, Goes(g, todo, due),
               \A i \in todo : timers'[i].deadline <= now',
               \A i \in due : timers'[i].phase = "fired"
        PROVE  /\ \A i \in advance'[h].todo : timers'[i].deadline <= now'
               /\ \A i \in advance'[h].due : timers'[i].phase = "fired"
    <2>1. DOMAIN timers \subseteq DOMAIN timers'
      BY TimersKept
    <2>2. /\ advance'[g].todo \subseteq todo /\ advance'[g].due \subseteq due
          /\ \A o \in Goroutine \ {g} : advance'[o] = advance[o]
      BY <1>3, <2>1, GoesFacts
    <2> QED  BY <1>1, <1>2, <1>3, <2>2
  <1>4. CASE UNCHANGED advance
    BY <1>1, <1>2, <1>4
  <1>5. ASSUME NEW g \in Goroutine, NEW d \in Nat, Begin(g, d)
        PROVE  Goes(g, {i \in DOMAIN timers : timers[i].deadline <= now'}, {})
               /\ timers' = timers
    BY <1>5, BeginMoves
  <1>6. ASSUME NEW g \in Goroutine, Mark(g)
        PROVE  \E due : /\ Goes(g, advance[g].todo, due)
                        /\ \A i \in due : timers'[i].phase = "fired"
    <2>1. PICK i \in advance[g].todo :
              \/ /\ timers' = [timers EXCEPT ![i].phase = "fired"]
                 /\ Goes(g, advance[g].todo, advance[g].due \cup {i})
              \/ timers' = timers /\ Goes(g, advance[g].todo, advance[g].due)
      BY <1>6, MarkMoves
    <2>2. CASE timers' = [timers EXCEPT ![i].phase = "fired"]
      <3>1. timers'[i].phase = "fired"
        BY <1>1, <2>2, MarkedOne
      <3>2. \A j \in advance[g].due \cup {i} : timers'[j].phase = "fired"
        BY <1>1, <3>1
      <3> QED  BY <1>1, <2>1, <3>2
    <2> QED  BY <1>1, <2>1, <2>2
  <1>7. ASSUME NEW g \in Goroutine, Unlock(g) \/ Marked(g) \/ Fire(g)
        PROVE  Goes(g, advance[g].todo, advance[g].due)
    BY <1>7, UnlockMoves, FireMoves
  <1>8. ASSUME NEW g \in Goroutine, Finish(g) PROVE Goes(g, {}, {})
    BY <1>8, FinishMoves
  <1>9. UNCHANGED clockVars \/ Guard \/ Observed \/ Disarm \/ Arm => UNCHANGED advance
    BY DEF clockVars, Guard, Observed, Commit, Disarm, Arm, ActorOnly
  <1>10. ASSUME NEW g \in Goroutine,
                (\E d \in Nat : Begin(g, d)) \/ Unlock(g) \/ Mark(g) \/ Marked(g) \/ Fire(g) \/ Finish(g)
         PROVE  /\ \A i \in advance'[h].todo : timers'[i].deadline <= now'
                /\ \A i \in advance'[h].due : timers'[i].phase = "fired"
    <2>1. CASE \E d \in Nat : Begin(g, d)
      <3> DEFINE todo == {i \in DOMAIN timers : timers[i].deadline <= now'}
      <3>1. Goes(g, todo, {}) /\ timers' = timers
        BY <1>5, <2>1
      <3>2. \A i \in todo : timers'[i].deadline <= now'
        BY <3>1
      <3> HIDE DEF todo
      <3> QED  BY <1>3, <3>1, <3>2
    <2>2. CASE Mark(g)
      BY <1>2, <1>3, <1>6, <2>2
    <2>3. CASE Unlock(g) \/ Marked(g) \/ Fire(g)
      BY <1>1, <1>2, <1>3, <1>7, <2>3
    <2>4. CASE Finish(g)
      BY <1>3, <1>8, <2>4
    <2> QED  BY <1>10, <2>1, <2>2, <2>3, <2>4
  <1> QED  BY <1>4, <1>9, <1>10, ClockMoves

\* Only what has fired is reported.
LEMMA ReportsStep ==
    ASSUME TypeOK, StallInv, [Next]_vars, NEW v \in reports'
    PROVE  \E i \in DOMAIN timers' :
              timers'[i].kind = "stall" /\ timers'[i].n = v /\ timers'[i].phase = "fired"
  <1> ClockOK
    BY DEF TypeOK
  <1>1. ASSUME NEW i \in DOMAIN timers, timers[i].kind = "stall", timers[i].n = v,
               timers[i].phase = "fired"
        PROVE  /\ i \in DOMAIN timers' /\ timers'[i].kind = "stall" /\ timers'[i].n = v
               /\ timers'[i].phase = "fired"
    BY <1>1, TimersKept
  <1>2. CASE v \in reports
    BY <1>1, <1>2 DEF StallInv, Stalls
  <1>3. CASE v \notin reports
    <2>1. PICK g \in Goroutine : Fire(g)
      <3>1. reports' # reports
        BY <1>3
      <3>2. CASE Actor \/ Tick \/ Rest \/ UNCHANGED vars
        BY <3>1, <3>2, Zenon DEF Actor, Take, Watch, Guard, Observed, Commit, Disarm, Arm,
                                 Reconcile, Emit, ActorOnly, Tick, Rest, vars
      <3>3. CASE Test \/ Other
        BY <3>1, <3>3, Goroutines, Zenon
           DEF Test, Other, Settle, Settled, SendStep, AdvanceStep, Advanced, StepTo, Unlock, Mark,
               Marked, Ticked
      <3> QED  BY <3>2, <3>3 DEF Next
    <2>2. PICK i \in advance[g].due :
              reports' = reports \/ (timers[i].kind = "stall" /\ reports' = reports \cup {timers[i].n})
      BY <2>1, FireMoves
    <2>3. i \in DOMAIN timers /\ timers[i].phase = "fired"
      BY <2>2 DEF ClockOK, StallInv
    <2> QED  BY <1>1, <1>3, <2>2, <2>3
  <1> QED  BY <1>2, <1>3

LEMMA StallInvariance == Spec => [](TypeOK /\ StallInv)
  <1>1. Init => StallInv
    BY DEF Init, StallInv, Stalls, Off
  <1>2. TypeOK /\ TypeOK' /\ StallInv /\ [Next]_vars => StallInv'
    <2> SUFFICES ASSUME TypeOK, TypeOK', StallInv, [Next]_vars PROVE StallInv'
      OBVIOUS
    <2>1. (\A v \in reports : \E i \in Stalls : timers[i].n = v /\ timers[i].phase = "fired")'
      BY ReportsStep DEF Stalls
    <2>2. (\A i \in Stalls : OverNow(timers[i]) \/ OverPast(timers[i]))'
      BY WatchdogStep
    <2>3. (\A g \in Goroutine :
              /\ \A i \in advance[g].todo : timers[i].deadline <= now
              /\ \A i \in advance[g].due : timers[i].phase = "fired")'
      BY AdvancesStep DEF Goroutine
    <2> QED  BY <2>1, <2>2, <2>3 DEF StallInv
  <1> QED  BY <1>1, <1>2, TypeCorrect, PTL DEF Spec

\* OnStall is called for no observer that returned before the threshold: however
\* the clock is advanced while the watchdog is armed, marked and cancelled, what
\* fires it is an Advance to its deadline while the observer is held.
THEOREM OnlyStallsReported == Spec => []OnlyStalls
  <1>1. TypeOK /\ StallInv => OnlyStalls
    <2> SUFFICES ASSUME TypeOK, StallInv, NEW v \in reports, v <= Len(held)
                 PROVE  held[v] >= Threshold
      BY DEF OnlyStalls
    <2>1. PICK i \in Stalls : timers[i].n = v /\ timers[i].phase = "fired"
      BY DEF StallInv
    <2>2. v \in Nat /\ Len(held) = version /\ version \in Nat
      BY DEF TypeOK, TestOK, ActorOK
    <2>3. ~OverNow(timers[i])
      BY <2>1, <2>2 DEF OverNow
    <2> QED  BY <2>1, <2>3 DEF StallInv, OverPast
  <1> QED  BY <1>1, StallInvariance, PTL
=============================================================================
