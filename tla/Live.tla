-------------------------------- MODULE Live --------------------------------
(***************************************************************************)
(* diagram.Live: a running machine's snapshots on the terminal.  The       *)
(* machine is reduced to what Subscribe promises (ActorLoop): each version *)
(* from the registration on is put into the subscriber's channel, in       *)
(* order, and one that is terminal already registers nobody.               *)
(***************************************************************************)
EXTENDS Naturals, Sequences

CONSTANTS
    SubBuffer,    \* the subscription's buffer
    LastVersion   \* bound: versions the machine publishes

ASSUME LiveAssumption == SubBuffer \in Nat \ {0} /\ LastVersion \in Nat

VARIABLES
    version,     \* the version of Machine.Snapshot
    terminal,    \* that snapshot is terminal
    registered,  \* Live's subscription is registered
    channel,     \* the subscriber's channel
    inHand,      \* what the delivery goroutine is pushing: at most one
    snaps,       \* the latest-wins channel, of one place
    live,        \* where Live is: subscribe, paint, loop or returned
    painted      \* the last frame, once there is one

machineVars == <<version, terminal, registered, channel>>
liveVars == <<machineVars, inHand, snaps, live, painted>>

Snap(v, t) == [version |-> v, terminal |-> t]

LiveInit ==
    /\ version = 0 /\ terminal = FALSE /\ registered = FALSE
    /\ channel = <<>> /\ inHand = <<>> /\ snaps = <<>>
    /\ live = "subscribe" /\ painted = <<>>

Publish(t) ==
    /\ ~terminal /\ (version < LastVersion \/ t)
    /\ registered => Len(channel) < SubBuffer
    /\ version' = version + 1 /\ terminal' = t
    /\ channel' = IF registered THEN Append(channel, Snap(version', t)) ELSE channel
    /\ UNCHANGED <<registered, inHand, snaps, live, painted>>

Subscribe ==
    /\ live = "subscribe" /\ live' = "paint"
    /\ registered' = ~terminal
    /\ UNCHANGED <<version, terminal, channel, inHand, snaps, painted>>

\* The state it finds is painted at once, and not asked whether it is terminal.
FirstPaint ==
    /\ live = "paint" /\ live' = "loop"
    /\ painted' = <<Snap(version, terminal)>>
    /\ UNCHANGED <<machineVars, inHand, snaps>>

Receive ==
    /\ inHand = <<>> /\ channel # <<>>
    /\ inHand' = <<Head(channel)>> /\ channel' = Tail(channel)
    /\ UNCHANGED <<version, terminal, registered, snaps, live, painted>>

Push ==
    /\ inHand # <<>> /\ snaps = <<>>
    /\ snaps' = inHand /\ inHand' = <<>>
    /\ UNCHANGED <<machineVars, live, painted>>

\* Wrong: the new one is discarded instead.
DiscardNewest ==
    /\ inHand # <<>> /\ snaps # <<>> /\ inHand' = <<>>
    /\ UNCHANGED <<machineVars, snaps, live, painted>>

\* latestWins finds the channel full and takes out what is there.
DiscardOldest ==
    /\ inHand # <<>> /\ snaps # <<>> /\ snaps' = <<>>
    /\ UNCHANGED <<machineVars, inHand, live, painted>>

Paint ==
    /\ live = "loop" /\ snaps # <<>>
    /\ painted' = snaps /\ snaps' = <<>>
    /\ live' = IF snaps[1].terminal THEN "returned" ELSE "loop"
    /\ UNCHANGED <<machineVars, inHand>>

Cancelled ==
    /\ live = "loop" /\ live' = "returned"
    /\ UNCHANGED <<machineVars, inHand, snaps, painted>>

Feed == Receive \/ Push \/ DiscardOldest
LiveLoop == Subscribe \/ FirstPaint \/ Paint
LiveNext == (\E t \in BOOLEAN : Publish(t)) \/ Feed \/ LiveLoop \/ Cancelled
-----------------------------------------------------------------------------
\* A terminal snapshot ends Live, however many frames were dropped before it:
\* for a Live whose subscription was registered while the machine was running.
LiveReturns == (registered /\ terminal) ~> (live = "returned")
=============================================================================
