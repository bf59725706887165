------------------------------ MODULE Scenario ------------------------------
(***************************************************************************)
(* What a scenario means: its steps one after another on a machine that    *)
(* does nothing at the same time as its test.                              *)
(***************************************************************************)
EXTENDS VirtualTime, TLC

World(t, l, p, r, a) ==
    [now |-> t, leaf |-> l, pending |-> p, running |-> r, attempts |-> a]

Pending(l, t) == [i \in DOMAIN After[l] |-> [n |-> After[l][i].delay,
                                             deadline |-> t + After[l][i].delay]]

\* The world after it has handled the events of the queue and of what they start.
RECURSIVE Drain(_, _)
Enter(w, l, queue) ==
    LET r    == IF Outcomes[l] = None THEN None ELSE l
        emit == r \notin {None, w.running} /\ w.attempts[l] < Len(Outcomes[l])
        a    == IF emit THEN [w.attempts EXCEPT ![l] = @ + 1] ELSE w.attempts
    IN  Drain(World(w.now, l, Pending(l, w.now), r, a),
              IF emit THEN Append(queue, Event(Outcomes[l][a[l]])) ELSE queue)
Drain(w, queue) ==
    IF queue = <<>> THEN w
    ELSE IF EdgeOf(w.leaf, Head(queue)) = None THEN Drain(w, Tail(queue))
    ELSE Enter(w, EdgeOf(w.leaf, Head(queue)), Tail(queue))

Step(w, s) ==
    IF s.verb = "send" THEN Drain(w, <<Event(s.arg)>>)
    ELSE LET t    == w.now + s.arg
             due  == SelectSeq(w.pending, LAMBDA p : p.deadline <= t)
             fire == SortSeq(due, LAMBDA p, q : p.deadline < q.deadline)
         IN  Drain([w EXCEPT !.now = t,
                             !.pending = SelectSeq(@, LAMBDA p : p.deadline > t)],
                   [i \in DOMAIN fire |-> [kind |-> "after", of |-> w.leaf,
                                           n |-> fire[i].n]])

\* The world after each number of steps.
Meaning ==
    LET w[n \in 0..Len(script)] ==
            IF n = 0
            THEN Enter(World(0, None, <<>>, None, [l \in Leaf |-> 0]), Home, <<>>)
            ELSE Step(w[n - 1], script[n])
    IN  w

ArmedNow == LET armed == SelectSeq(timers, LAMBDA t : t.kind = "after" /\ t.phase = "armed")
            IN  [i \in DOMAIN armed |-> [n |-> armed[i].n, deadline |-> armed[i].deadline]]
-----------------------------------------------------------------------------
\* A scenario is deterministic: whatever the goroutines do, each step of it
\* leaves the machine where the steps mean it to be, with its timers; unless
\* somebody else advances the clock, or a fake actor has emitted its outcome
\* among the events of one Advance.
Deterministic == harness = "ready" /\ ticks = 0 /\ ~raced =>
    World(now, leaf, ArmedNow, running, attempts) = Meaning[step]
=============================================================================
