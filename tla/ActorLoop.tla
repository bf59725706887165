----------------------------- MODULE ActorLoop -----------------------------
(***************************************************************************)
(* The actor goroutine of machine.go and the goroutines around it: clients *)
(* in Send, TrySend, Close, CloseAfterDrain and Settle, and one delivery   *)
(* goroutine per subscriber.  They meet at the bounded mailbox, the two    *)
(* unbuffered subscribe/unsubscribe channels, the subscribers' bounded     *)
(* channels, the loop context and the done channel.                        *)
(*                                                                         *)
(* The statechart engine is abstracted to what the loop sees of it: each   *)
(* call of step either stages a microstep (which may reach a final state), *)
(* reports quiescence, or trips the always-loop guard.  Engine.tla models  *)
(* the engine itself, Invocation.tla the invokes and timers.               *)
(***************************************************************************)
EXTENDS Naturals, Sequences, FiniteSets

CONSTANTS
    Sender,       \* clients calling Send and TrySend (timers and invokes too)
    Closer,       \* clients calling Close
    Drainer,      \* clients calling CloseAfterDrain
    Settler,      \* clients calling Settle
    Impatient,    \* the clients whose call context may expire
    Hasty,        \* the clients that may call while Start is still running
    Sub,          \* subscribers
    Quitter,      \* the subscribers whose context may be cancelled
    MailboxCap,   \* WithMailboxCap
    SubCap,       \* WithBuffer, for each subscriber
    MaxSend,      \* bound: events per sender
    MaxVersion    \* bound: microsteps of the actor's life

Client == Sender \cup Closer \cup Drainer \cup Settler

ASSUME ClientAssumption ==
    /\ Sender \cap (Closer \cup Drainer \cup Settler) = {}
    /\ Closer \cap (Drainer \cup Settler) = {}
    /\ Drainer \cap Settler = {}
    /\ Impatient \subseteq Client \ Closer
    /\ Hasty \subseteq Client \ Closer

ASSUME SubAssumption == Quitter \subseteq Sub

ASSUME BoundAssumption ==
    /\ MailboxCap \in Nat \ {0}
    /\ SubCap \in [Sub -> Nat \ {0}]
    /\ MaxSend \in Nat
    /\ MaxVersion \in Nat \ {0}

VARIABLES
    pc,         \* where the actor goroutine stands
    draining,   \* it is inside drainAndClose
    snap,       \* the published snapshot
    staged,     \* the snapshot the observers are looking at
    todo,       \* the subscribers notifySubs has not served yet
    cancelled,  \* loopCtx is cancelled
    done,       \* the done channel is closed
    mailbox,    \* the mailbox channel
    localSubs,  \* the registered subscribers (preSubs until Start)
    chan,       \* the channel of each subscriber
    open,       \* whether that channel is open
    quit,       \* whether the subscriber's context is cancelled
    spc,        \* where the subscriber's goroutines stand
    seen,       \* history: the last version the subscriber is up to date with
    cpc,        \* where each client stands
    sent,       \* how many events each sender has offered
    ack,        \* the reply to each settler's ping
    handled,    \* history: the events given to the engine, in order
    owed,       \* history: what was in the mailbox ahead of a drain or settle
    hard        \* history: a caller asked for a stop that drops the mailbox

actorVars  == <<pc, draining, snap, staged, todo, cancelled, done>>
subVars    == <<localSubs, chan, open, quit, spc, seen>>
clientVars == <<cpc, sent, ack, owed>>
vars == <<actorVars, mailbox, subVars, clientVars, handled, hard>>

-----------------------------------------------------------------------------
(***************************************************************************)
(* Data.                                                                   *)
(***************************************************************************)
Terminal == {"Done", "Error", "Stopped"}
Status   == {"Starting", "Running"} \cup Terminal

Snapshot == [status : Status, version : Nat]

Event      == [from : Sender, n : Nat]
EventItem  == [kind : {"event"}, evt : Event]
PingItem   == [kind : {"ping"}, by : Settler]
DrainItem  == [kind : {"drainClose"}, by : Drainer]  \* by: history
InboxItem  == EventItem \cup PingItem \cup DrainItem

\* The events waiting in the mailbox.
Waiting(box) == {box[i].evt : i \in {j \in DOMAIN box : box[j].kind = "event"}}

Handled == {handled[i] : i \in DOMAIN handled}

\* Wrong: the version runs backwards.
NextSnapDown(st) == [status |-> st, version |-> snap.version - 1]

NextSnap(st) == [status |-> st, version |-> snap.version + 1]

Room == Len(mailbox) < MailboxCap

\* After Start has returned, or for a hasty client as soon as it set its flag.
MayCall(c) == pc # "off" /\ (pc # "starting" \/ c \in Hasty)

-----------------------------------------------------------------------------
Init ==
    /\ pc = "off" /\ draining = FALSE
    /\ snap = [status |-> "Starting", version |-> 0]
    /\ staged = snap
    /\ todo = {}
    /\ cancelled = FALSE /\ done = FALSE
    /\ mailbox = <<>>
    /\ localSubs = {}
    /\ chan = [s \in Sub |-> <<>>]
    /\ open = [s \in Sub |-> TRUE]
    /\ quit = [s \in Sub |-> FALSE]
    /\ spc = [s \in Sub |-> "none"]
    /\ seen = [s \in Sub |-> 0]
    /\ cpc = [c \in Client |-> "idle"]
    /\ sent = [c \in Sender |-> 0]
    /\ ack = [c \in Settler |-> "none"]
    /\ handled = <<>>
    /\ owed = [c \in Drainer \cup Settler |-> {}]
    /\ hard = FALSE

-----------------------------------------------------------------------------
(***************************************************************************)
(* Machine.Start.  The started flag is set first and the channels are made *)
(* after it, so a call that comes in between works on nil channels.        *)
(***************************************************************************)
Start ==
    /\ pc = "off"
    /\ pc' = "starting"
    /\ UNCHANGED <<draining, snap, staged, todo, cancelled, done, mailbox,
                   subVars, clientVars, handled, hard>>

MakeChannels ==
    /\ pc = "starting"
    /\ pc' = "stage"
    /\ spc' = [s \in Sub |-> IF s \in localSubs THEN "recv" ELSE spc[s]]
    /\ UNCHANGED <<draining, snap, staged, todo, cancelled, done, mailbox,
                   localSubs, chan, open, quit, seen, clientVars, handled, hard>>

\* The context given to Start is the parent of the loop context.
ParentCancel ==
    /\ pc \notin {"off", "starting"}
    /\ ~cancelled
    /\ cancelled' = TRUE
    /\ hard' = TRUE
    /\ UNCHANGED <<pc, draining, snap, staged, todo, done, mailbox, subVars,
                   clientVars, handled>>

-----------------------------------------------------------------------------
(***************************************************************************)
(* runMacrostep and execMicrostep.  A microstep is staged, shown to the    *)
(* observers, committed and published, and handed to every subscriber      *)
(* before the next one is computed.                                        *)
(***************************************************************************)
\* engine.start or engine.step returns a microstep; final if it reaches one.
Stage(final) ==
    /\ pc = "stage"
    /\ snap.version < MaxVersion
    /\ staged' = NextSnap(IF final THEN "Done" ELSE "Running")
    /\ pc' = "observe"
    /\ UNCHANGED <<draining, snap, todo, cancelled, done, mailbox, subVars,
                   clientVars, handled, hard>>

\* Publish a snapshot and begin to notify the registered subscribers.
PublishSnap(s) ==
    /\ snap' = s
    /\ todo' = localSubs
    /\ pc' = "notify"

ObserversApprove ==
    /\ pc = "observe"
    /\ PublishSnap(staged)
    /\ UNCHANGED <<draining, staged, cancelled, done, mailbox, subVars,
                   clientVars, handled, hard>>

\* publishObserverAbort: the staged microstep is never committed.
ObserversAbort ==
    /\ pc = "observe"
    /\ PublishSnap(NextSnap("Error"))
    /\ UNCHANGED <<draining, staged, cancelled, done, mailbox, subVars,
                   clientVars, handled, hard>>

\* publishTerminalError: the always-loop guard tripped.
AlwaysLoop ==
    /\ pc = "stage" /\ snap.status = "Running"
    /\ PublishSnap(NextSnap("Error"))
    /\ UNCHANGED <<draining, staged, cancelled, done, mailbox, subVars,
                   clientVars, handled, hard>>

\* The macrostep is over (the initial entry is never empty).
Quiescent ==
    /\ pc = "stage" /\ snap.status = "Running"
    /\ pc' = IF draining THEN "drain" ELSE "select"
    /\ UNCHANGED <<draining, snap, staged, todo, cancelled, done, mailbox,
                   subVars, clientVars, handled, hard>>

\* Wrong: a full subscriber is skipped instead of waited for.
NotifyOrDrop(s) ==
    /\ pc = "notify" /\ s \in todo
    /\ chan' = IF Len(chan[s]) < SubCap[s]
               THEN [chan EXCEPT ![s] = Append(@, snap)] ELSE chan
    /\ todo' = todo \ {s}
    /\ UNCHANGED <<pc, draining, snap, staged, cancelled, done, mailbox,
                   localSubs, open, quit, spc, seen, clientVars, handled, hard>>

\* notifySubs: a blocking send; done is not closed while it runs.
Notify(s) ==
    /\ pc = "notify" /\ s \in todo
    /\ Len(chan[s]) < SubCap[s]
    /\ chan' = [chan EXCEPT ![s] = Append(@, snap)]
    /\ todo' = todo \ {s}
    /\ UNCHANGED <<pc, draining, snap, staged, cancelled, done, mailbox,
                   localSubs, open, quit, spc, seen, clientVars, handled, hard>>

Notified ==
    /\ pc = "notify" /\ todo = {}
    /\ pc' = CASE snap.status = "Running" -> "stage"
               [] snap.status \in {"Done", "Error"} -> "stop"
               [] OTHER -> "close"
    /\ UNCHANGED <<draining, snap, staged, todo, cancelled, done, mailbox,
                   subVars, clientVars, handled, hard>>

-----------------------------------------------------------------------------
(***************************************************************************)
(* loop: the select of the idle actor.                                     *)
(***************************************************************************)
LoopCancelled ==
    /\ pc = "select" /\ cancelled
    /\ pc' = "stop"
    /\ UNCHANGED <<draining, snap, staged, todo, cancelled, done, mailbox,
                   subVars, clientVars, handled, hard>>

LoopSubscribe(s) ==
    /\ pc = "select" /\ spc[s] = "offer"
    /\ localSubs' = localSubs \cup {s}
    /\ spc' = [spc EXCEPT ![s] = "recv"]
    /\ seen' = [seen EXCEPT ![s] = snap.version]
    /\ UNCHANGED <<actorVars, mailbox, chan, open, quit, clientVars, handled, hard>>

\* Wrong: the channel is closed but stays registered.
LoopUnsubscribeStays(s) ==
    /\ pc = "select" /\ spc[s] = "unsub"
    /\ open' = [open EXCEPT ![s] = FALSE]
    /\ spc' = [spc EXCEPT ![s] = "flush"]
    /\ UNCHANGED <<actorVars, mailbox, localSubs, chan, quit, seen, clientVars,
                   handled, hard>>

\* removeSub: the actor, the only writer of the channel, closes it.
LoopUnsubscribe(s) ==
    /\ pc = "select" /\ spc[s] = "unsub"
    /\ localSubs' = localSubs \ {s}
    /\ open' = [open EXCEPT ![s] = FALSE]
    /\ spc' = [spc EXCEPT ![s] = "flush"]
    /\ UNCHANGED <<actorVars, mailbox, chan, quit, seen, clientVars, handled, hard>>

\* Take the head of the mailbox if it is of this kind.
Take(kind) ==
    /\ mailbox # <<>>
    /\ Head(mailbox).kind = kind
    /\ mailbox' = Tail(mailbox)

\* offer: the event becomes the engine's pending external event.
TakeEvent ==
    /\ Take("event")
    /\ handled' = Append(handled, Head(mailbox).evt)
    /\ pc' = "stage"
    /\ UNCHANGED <<draining, snap, staged, todo, cancelled, done, subVars,
                   clientVars, hard>>

\* Wrong: answering a ping throws the rest of the mailbox away.
AnswerAndFlush(idle) ==
    /\ mailbox # <<>> /\ Head(mailbox).kind = "ping" /\ mailbox' = <<>>
    /\ ack' = [ack EXCEPT ![Head(mailbox).by] = "idle"]
    /\ UNCHANGED <<actorVars, subVars, cpc, sent, owed, handled, hard>>

Answer(idle) ==
    /\ Take("ping")
    /\ ack' = [ack EXCEPT ![Head(mailbox).by] = IF idle THEN "idle" ELSE "busy"]
    /\ UNCHANGED <<actorVars, subVars, cpc, sent, owed, handled, hard>>

LoopEvent == pc = "select" /\ TakeEvent

\* Wrong: the ping counts itself as work still to be done.
LoopPingBusy == pc = "select" /\ Answer(Len(mailbox) = 0)

LoopPing  == pc = "select" /\ Answer(Len(mailbox) = 1)

\* Wrong: the sentinel stops the actor at once.
LoopDrainCloseAtOnce ==
    /\ pc = "select" /\ Take("drainClose")
    /\ pc' = "stop" /\ draining' = TRUE
    /\ owed' = [owed EXCEPT ![Head(mailbox).by] = @ \cup Waiting(mailbox)]
    /\ UNCHANGED <<snap, staged, todo, cancelled, done, subVars, cpc, sent,
                   ack, handled, hard>>

LoopDrainClose ==
    /\ pc = "select" /\ Take("drainClose")
    /\ pc' = "drain" /\ draining' = TRUE
    /\ owed' = [owed EXCEPT ![Head(mailbox).by] = @ \cup Waiting(mailbox)]
    /\ UNCHANGED <<snap, staged, todo, cancelled, done, subVars, cpc, sent,
                   ack, handled, hard>>

(***************************************************************************)
(* drainAndClose: neither the loop context nor the subscribe channels are  *)
(* looked at any more, and an empty mailbox ends the actor.                *)
(***************************************************************************)
DrainEvent == pc = "drain" /\ TakeEvent
DrainPing  == pc = "drain" /\ Answer(TRUE)

DrainSentinel ==
    /\ pc = "drain" /\ Take("drainClose")
    /\ UNCHANGED <<actorVars, subVars, clientVars, handled, hard>>

DrainEmpty ==
    /\ pc = "drain" /\ mailbox = <<>>
    /\ pc' = "stop"
    /\ UNCHANGED <<draining, snap, staged, todo, cancelled, done, mailbox,
                   subVars, clientVars, handled, hard>>

(***************************************************************************)
(* shutdown: publish Stopped unless the snapshot is already terminal, then *)
(* close the subscribers' channels and, last, done.                        *)
(***************************************************************************)
\* Wrong: the subscribers are not told of Stopped.
ShutdownSilently ==
    /\ pc = "stop"
    /\ cancelled' = TRUE
    /\ snap' = IF snap.status \in Terminal THEN snap ELSE NextSnap("Stopped")
    /\ pc' = "close"
    /\ UNCHANGED <<draining, staged, todo, done, mailbox, subVars, clientVars,
                   handled, hard>>

Shutdown ==
    /\ pc = "stop"
    /\ cancelled' = TRUE
    /\ IF snap.status \in Terminal
       THEN pc' = "close" /\ UNCHANGED <<snap, todo>>
       ELSE PublishSnap(NextSnap("Stopped"))
    /\ UNCHANGED <<draining, staged, done, mailbox, subVars, clientVars,
                   handled, hard>>

\* Wrong: the waiters are never released.
CloseChannelsOnly ==
    /\ pc = "close"
    /\ open' = [s \in Sub |-> open[s] /\ s \notin localSubs]
    /\ localSubs' = {}
    /\ pc' = "exit"
    /\ UNCHANGED <<draining, snap, staged, todo, cancelled, done, mailbox, chan,
                   quit, spc, seen, clientVars, handled, hard>>

CloseChannels ==
    /\ pc = "close"
    /\ open' = [s \in Sub |-> open[s] /\ s \notin localSubs]
    /\ localSubs' = {}
    /\ done' = TRUE
    /\ pc' = "exit"
    /\ UNCHANGED <<draining, snap, staged, todo, cancelled, mailbox, chan, quit,
                   spc, seen, clientVars, handled, hard>>

-----------------------------------------------------------------------------
(***************************************************************************)
(* Subscribers: the goroutine that calls Subscribe, then the one that      *)
(* startDrain runs.                                                        *)
(***************************************************************************)
Subscribe(s) ==
    /\ spc[s] = "none" /\ pc # "starting"
    /\ IF pc = "off"
       THEN /\ localSubs' = localSubs \cup {s}
            /\ spc' = [spc EXCEPT ![s] = "queued"]
       ELSE /\ spc' = [spc EXCEPT ![s] = "offer"]
            /\ UNCHANGED localSubs
    /\ UNCHANGED <<actorVars, mailbox, chan, open, quit, seen, clientVars,
                   handled, hard>>

\* The blocked Subscribe call sees done instead: never registered.
SubscribeStopped(s) ==
    /\ spc[s] = "offer" /\ done
    /\ spc' = [spc EXCEPT ![s] = "refused"]
    /\ UNCHANGED <<actorVars, mailbox, localSubs, chan, open, quit, seen,
                   clientVars, handled, hard>>

CancelSub(s) ==
    /\ s \in Quitter /\ ~quit[s]
    /\ quit' = [quit EXCEPT ![s] = TRUE]
    /\ UNCHANGED <<actorVars, mailbox, localSubs, chan, open, spc, seen,
                   clientVars, handled, hard>>

\* The first of the snapshots buffered for s leaves its channel.
Receive(s) ==
    /\ chan[s] # <<>>
    /\ chan' = [chan EXCEPT ![s] = Tail(@)]

\* fn is called with the snapshot; the next receive waits until it returns.
Deliver(s) ==
    /\ spc[s] = "recv" /\ Receive(s)
    /\ seen' = [seen EXCEPT ![s] = Head(chan[s]).version]
    /\ spc' = [spc EXCEPT ![s] = "fn"]
    /\ UNCHANGED <<actorVars, mailbox, localSubs, open, quit, clientVars,
                   handled, hard>>

\* A move of s's delivery goroutine that touches nothing else.
Move(s, from, to) ==
    /\ spc[s] = from
    /\ spc' = [spc EXCEPT ![s] = to]
    /\ UNCHANGED <<actorVars, mailbox, localSubs, chan, open, quit, seen,
                   clientVars, handled, hard>>

FnReturns(s) == Move(s, "fn", "recv")
SeeClosed(s) == chan[s] = <<>> /\ ~open[s] /\ Move(s, "recv", "end")
SeeQuit(s)   == quit[s] /\ Move(s, "recv", "unsub")
UnsubDone(s) == done /\ Move(s, "unsub", "flush")
Flushed(s)   == chan[s] = <<>> /\ ~open[s] /\ Move(s, "flush", "end")

\* After removal was requested the rest of the channel is thrown away.
Flush(s) ==
    /\ spc[s] = "flush" /\ Receive(s)
    /\ UNCHANGED <<actorVars, mailbox, localSubs, open, quit, spc, seen,
                   clientVars, handled, hard>>

Delivery(s) ==
    \/ SubscribeStopped(s) \/ Deliver(s) \/ FnReturns(s) \/ SeeClosed(s)
    \/ SeeQuit(s) \/ UnsubDone(s) \/ Flush(s) \/ Flushed(s)

-----------------------------------------------------------------------------
(***************************************************************************)
(* Clients.                                                                *)
(***************************************************************************)
\* A step of client c that changes nothing but where it stands.
Go(c, from, to) ==
    /\ cpc[c] \in from
    /\ cpc' = [cpc EXCEPT ![c] = to]
    /\ UNCHANGED <<actorVars, mailbox, subVars, sent, ack, owed, handled, hard>>

\* What a call does after its first checks: blocked forever on the nil
\* channels of a machine that is still starting, or on to its select.
Enter(next) == IF pc = "starting" THEN "nil" ELSE next

\* Send and TrySend give up at once on a stopped actor.
SendCall(c) ==
    /\ cpc[c] = "idle" /\ MayCall(c)
    /\ sent[c] < MaxSend
    /\ sent' = [sent EXCEPT ![c] = @ + 1]
    /\ cpc' = [cpc EXCEPT ![c] = IF done THEN "idle" ELSE Enter("send")]
    /\ UNCHANGED <<actorVars, mailbox, subVars, ack, owed, handled, hard>>

TrySendCall(c) ==
    /\ cpc[c] = "idle" /\ MayCall(c)
    /\ sent[c] < MaxSend
    /\ sent' = [sent EXCEPT ![c] = @ + 1]
    /\ cpc' = [cpc EXCEPT ![c] = IF done \/ pc = "starting" THEN "idle" ELSE "try"]
    /\ UNCHANGED <<actorVars, mailbox, subVars, ack, owed, handled, hard>>

\* Wrong: the newest event overtakes the mailbox.
SendEnqueueFirst(c) ==
    /\ cpc[c] \in {"send", "try"} /\ Room
    /\ mailbox' = <<[kind |-> "event", evt |-> [from |-> c, n |-> sent[c]]]>> \o mailbox
    /\ cpc' = [cpc EXCEPT ![c] = "idle"]
    /\ UNCHANGED <<actorVars, subVars, sent, ack, owed, handled, hard>>

SendEnqueue(c) ==
    /\ cpc[c] \in {"send", "try"} /\ Room
    /\ mailbox' = Append(mailbox, [kind |-> "event",
                                   evt |-> [from |-> c, n |-> sent[c]]])
    /\ cpc' = [cpc EXCEPT ![c] = "idle"]
    /\ UNCHANGED <<actorVars, subVars, sent, ack, owed, handled, hard>>

\* Wrong: the select of Send has no case for done.
SendStoppedMissed(c) == ~done /\ Go(c, {"send", "try"}, "idle")

SendStopped(c) == done /\ Go(c, {"send", "try"}, "idle")
TrySendFull(c) == ~Room /\ Go(c, {"try"}, "idle")
SendGiveUp(c)  == c \in Impatient /\ Go(c, {"send", "nil"}, "idle")

\* Wrong: Close waits but does not cancel the loop.
CloseCallOnly(c) ==
    /\ cpc[c] = "idle" /\ MayCall(c)
    /\ cpc' = [cpc EXCEPT ![c] = "closing"]
    /\ UNCHANGED <<actorVars, mailbox, subVars, sent, ack, owed, handled, hard>>

CloseCall(c) ==
    /\ cpc[c] = "idle" /\ MayCall(c)
    /\ cancelled' = TRUE /\ hard' = TRUE
    /\ cpc' = [cpc EXCEPT ![c] = "closing"]
    /\ UNCHANGED <<pc, draining, snap, staged, todo, done, mailbox, subVars,
                   sent, ack, owed, handled>>

CloseReturn(c) == done /\ Go(c, {"closing"}, "ret")

DrainCall(c) ==
    /\ MayCall(c)
    /\ Go(c, {"idle"}, IF done THEN "ret" ELSE Enter("enq"))

DrainEnqueue(c) ==
    /\ cpc[c] = "enq" /\ Room
    /\ mailbox' = Append(mailbox, [kind |-> "drainClose", by |-> c])
    /\ owed' = [owed EXCEPT ![c] = Waiting(mailbox)]
    /\ cpc' = [cpc EXCEPT ![c] = "drainwait"]
    /\ UNCHANGED <<actorVars, subVars, sent, ack, handled, hard>>

DrainStopped(c) == done /\ Go(c, {"enq", "drainwait"}, "ret")

\* The context of CloseAfterDrain expired: hardClose.
DrainGiveUp(c) ==
    /\ c \in Impatient /\ pc # "starting"
    /\ cpc[c] \in {"nil", "enq", "drainwait"}
    /\ cancelled' = TRUE /\ hard' = TRUE
    /\ cpc' = [cpc EXCEPT ![c] = "hardclosing"]
    /\ UNCHANGED <<pc, draining, snap, staged, todo, done, mailbox, subVars,
                   sent, ack, owed, handled>>

HardCloseReturn(c) == done /\ Go(c, {"hardclosing"}, "err")

SettleCall(c) ==
    /\ cpc[c] = "idle" /\ MayCall(c)
    /\ cpc' = [cpc EXCEPT ![c] = Enter("ping")]
    /\ owed' = [owed EXCEPT ![c] = Waiting(mailbox)]
    /\ UNCHANGED <<actorVars, mailbox, subVars, sent, ack, handled, hard>>

\* Wrong: the ping overtakes the events it should wait for.
SettlePingFirst(c) ==
    /\ cpc[c] = "ping" /\ Room
    /\ mailbox' = <<[kind |-> "ping", by |-> c]>> \o mailbox
    /\ ack' = [ack EXCEPT ![c] = "none"]
    /\ cpc' = [cpc EXCEPT ![c] = "pong"]
    /\ UNCHANGED <<actorVars, subVars, sent, owed, handled, hard>>

SettlePing(c) ==
    /\ cpc[c] = "ping" /\ Room
    /\ mailbox' = Append(mailbox, [kind |-> "ping", by |-> c])
    /\ ack' = [ack EXCEPT ![c] = "none"]
    /\ cpc' = [cpc EXCEPT ![c] = "pong"]
    /\ UNCHANGED <<actorVars, subVars, sent, owed, handled, hard>>

SettleAgain(c)   == ack[c] = "busy" /\ Go(c, {"pong"}, "ping")
SettleIdle(c)    == ack[c] = "idle" /\ Go(c, {"pong"}, "settled")
SettleStopped(c) == done /\ Go(c, {"ping", "pong"}, "ret")
SettleGiveUp(c)  == c \in Impatient /\ Go(c, {"nil", "ping", "pong"}, "err")

\* The rest of a call that has begun; a call's expiry is not promised.
SenderStep(c)  == SendEnqueue(c) \/ SendStopped(c) \/ TrySendFull(c)
CloserStep(c)  == CloseReturn(c)
DrainerStep(c) == DrainEnqueue(c) \/ DrainStopped(c) \/ HardCloseReturn(c)
SettlerStep(c) ==
    SettlePing(c) \/ SettleAgain(c) \/ SettleIdle(c) \/ SettleStopped(c)

-----------------------------------------------------------------------------
\* The actor goroutine (and the goroutine in Start, before it exists).
Actor ==
    \/ MakeChannels
    \/ \E final \in BOOLEAN : Stage(final)
    \/ ObserversApprove \/ ObserversAbort \/ AlwaysLoop \/ Quiescent
    \/ (\E s \in Sub : Notify(s)) \/ Notified
    \/ LoopCancelled
    \/ (\E s \in Sub : LoopSubscribe(s) \/ LoopUnsubscribe(s))
    \/ LoopEvent \/ LoopPing \/ LoopDrainClose
    \/ DrainEvent \/ DrainPing \/ DrainSentinel \/ DrainEmpty
    \/ Shutdown \/ CloseChannels

\* What the surroundings may do at any time, or never.
Environment ==
    \/ Start \/ ParentCancel
    \/ \E s \in Sub : Subscribe(s) \/ CancelSub(s)
    \/ \E c \in Sender : SendCall(c) \/ TrySendCall(c) \/ SendGiveUp(c)
    \/ \E c \in Closer : CloseCall(c)
    \/ \E c \in Drainer : DrainCall(c) \/ DrainGiveUp(c)
    \/ \E c \in Settler : SettleCall(c) \/ SettleGiveUp(c)

\* Nobody is inside a call and the actor waits for the next one or is gone.
Rest ==
    /\ pc \in {"off", "select", "exit"}
    /\ cancelled => done
    /\ mailbox = <<>> \/ done
    /\ \A c \in Client : cpc[c] \in {"idle", "ret", "err", "settled"}
    /\ \A s \in Sub : /\ spc[s] \in {"none", "queued", "recv", "end", "refused"}
                      /\ spc[s] = "recv" => chan[s] = <<>> /\ open[s]
    /\ UNCHANGED vars

Next ==
    \/ Actor
    \/ \E s \in Sub : Delivery(s)
    \/ \E c \in Sender : SenderStep(c)
    \/ \E c \in Closer : CloserStep(c)
    \/ \E c \in Drainer : DrainerStep(c)
    \/ \E c \in Settler : SettlerStep(c)
    \/ Environment
    \/ Rest

Spec == Init /\ [][Next]_vars

(***************************************************************************)
(* Every goroutine that can take a step eventually takes one: observers    *)
(* and subscriber callbacks return, the Go scheduler runs every runnable   *)
(* goroutine and a blocked channel operation that stays possible is not    *)
(* passed over for ever.  Nobody is obliged to make a call, to cancel a    *)
(* context or to let a deadline expire.                                    *)
(***************************************************************************)
Fairness ==
    /\ WF_vars(Actor)
    /\ \A s \in Sub : WF_vars(Delivery(s))
    /\ \A c \in Sender : WF_vars(SenderStep(c))
    /\ \A c \in Closer : WF_vars(CloserStep(c))
    /\ \A c \in Drainer : WF_vars(DrainerStep(c))
    /\ \A c \in Settler : WF_vars(SettlerStep(c))

FairSpec == Spec /\ Fairness

-----------------------------------------------------------------------------
(***************************************************************************)
(* Type invariant.                                                         *)
(***************************************************************************)
TypeOK ==
    /\ pc \in {"off", "starting", "stage", "observe", "notify", "select",
               "drain", "stop", "close", "exit"}
    /\ draining \in BOOLEAN /\ cancelled \in BOOLEAN /\ done \in BOOLEAN
    /\ hard \in BOOLEAN
    /\ snap \in Snapshot /\ staged \in Snapshot
    /\ mailbox \in Seq(InboxItem)
    /\ todo \in SUBSET Sub /\ localSubs \in SUBSET Sub
    /\ chan \in [Sub -> Seq(Snapshot)]
    /\ open \in [Sub -> BOOLEAN] /\ quit \in [Sub -> BOOLEAN]
    /\ spc \in [Sub -> {"none", "queued", "offer", "refused", "recv", "fn",
                        "unsub", "flush", "end"}]
    /\ seen \in [Sub -> Nat]
    /\ cpc \in [Client -> {"idle", "nil", "send", "try", "closing", "enq",
                           "drainwait", "hardclosing", "ping", "pong",
                           "settled", "ret", "err"}]
    /\ sent \in [Sender -> Nat]
    /\ ack \in [Settler -> {"none", "idle", "busy"}]
    /\ handled \in Seq(Event)
    /\ owed \in [Drainer \cup Settler -> SUBSET Event]

-----------------------------------------------------------------------------
(***************************************************************************)
(* Safety.                                                                 *)
(***************************************************************************)
\* notifySubs never sends on, and removeSub and shutdown never close again, a
\* channel that is closed (either would panic the actor goroutine): whatever
\* the order of unsubscriptions and shutdown, a registered subscriber's
\* channel is open, and only registered subscribers are still to be notified.
RegisteredOpen ==
    /\ \A s \in localSubs : open[s]
    /\ todo \subseteq localSubs
    /\ \A s \in Sub : spc[s] = "unsub" => s \in localSubs \/ ~open[s]

\* Strong delivery, one half: a subscriber sees every version once and in
\* order from the first one published after its registration, also across
\* cancellation, a drain and the shutdown.
DeliveredInOrder ==
    [][\A s \in Sub : spc[s] = "recv" /\ spc'[s] = "fn"
                         => seen'[s] = seen[s] + 1]_vars

\* Strong delivery, the other half: a delivery goroutine that ends although
\* its context was never cancelled has delivered the terminal snapshot.
NothingMissed ==
    \A s \in Sub : spc[s] = "end" /\ ~quit[s]
        => snap.status \in Terminal /\ seen[s] = snap.version

\* No event leaves the mailbox but to the engine: pings, sentinels, the drain
\* and the shutdown never swallow one.
NothingDropped ==
    [][Waiting(mailbox) \ Waiting(mailbox') \subseteq {handled'[i] : i \in DOMAIN handled'}]_vars

\* The engine is offered each sender's events in the order of its calls, and
\* none of them twice, although calls may fail in between.
HandledInOrder ==
    \A i, j \in DOMAIN handled :
        i < j /\ handled[i].from = handled[j].from => handled[i].n < handled[j].n

\* The sentinels of the drains that have not been reached.
Unreached == {mailbox[i].by : i \in {j \in DOMAIN mailbox :
                                        mailbox[j].kind = "drainClose"}}

\* CloseAfterDrain, having returned nil from an actor that a drain stopped and
\* that nobody told to stop harder, has left no event unhandled: not those
\* ahead of its sentinel, nor those behind it when drainAndClose began.  (A
\* sentinel enqueued after another drain found the mailbox empty is never
\* reached, and its caller is promised nothing.)
DrainedBacklog ==
    \A c \in Drainer :
        cpc[c] = "ret" /\ snap.status = "Stopped" /\ ~hard /\ c \notin Unreached
            => owed[c] \subseteq Handled

\* Settle, having returned because the actor said it was idle, has waited for
\* every event that was in the mailbox when it was called.
SettledBacklog ==
    \A c \in Settler : cpc[c] = "settled" => owed[c] \subseteq Handled

\* The actor keeps the promise of Lifecycle to its readers and waiters.
Life == INSTANCE Lifecycle
            WITH status <- snap.status, version <- snap.version, stopped <- done
LifeSafety == Life!LifeSafety
LifeSpec   == Life!LifeSpec

(***************************************************************************)
(* Why it holds: the inductive invariant behind the properties of the      *)
(* actor goroutine and its subscribers.                                    *)
(***************************************************************************)
\* The snapshot's status, by where the actor stands.
PhaseInv ==
    /\ pc \in {"off", "starting"} => snap.status = "Starting" /\ snap.version = 0
    /\ pc \in {"stage", "observe"} => snap.status \in {"Starting", "Running"}
    /\ pc = "observe" => staged.status \in {"Running", "Done"}
                         /\ staged.version = snap.version + 1
    /\ pc \in {"select", "drain"} => snap.status = "Running"
    /\ pc = "notify" => snap.status # "Starting"
    /\ pc = "stop" => snap.status \in {"Running", "Done", "Error"}
    /\ pc \in {"close", "exit"} => snap.status \in Terminal
    /\ done <=> pc = "exit"
    /\ pc # "notify" => todo = {}

\* Which subscribers are registered, and whose channels are closed.
RegistryInv ==
    /\ todo \subseteq localSubs
    /\ pc = "exit" => localSubs = {}
    /\ \A s \in localSubs : open[s] /\ spc[s] \in {"queued", "recv", "fn", "unsub"}
    /\ \A s \in Sub \ localSubs :
          spc[s] \in {"recv", "fn", "unsub", "end"} => ~open[s]
    /\ \A s \in Sub :
          /\ spc[s] = "queued" => s \in localSubs /\ pc \in {"off", "starting"}
          /\ spc[s] \in {"recv", "fn", "unsub"} => pc \notin {"off", "starting"}
          /\ spc[s] \in {"recv", "fn", "unsub"} /\ ~open[s] => pc = "exit"
          /\ spc[s] \in {"unsub", "flush"} => quit[s]
          /\ spc[s] = "end" /\ ~quit[s] => pc = "exit"
          /\ spc[s] \in {"none", "queued", "offer", "refused"}
                => chan[s] = <<>> /\ open[s]
          /\ spc[s] = "none" => seen[s] = 0

\* The versions buffered for a subscriber follow the one it has seen without a
\* gap, up to the snapshot it was last notified of.
FeedInv ==
    \A s \in Sub : spc[s] \in {"queued", "recv", "fn", "unsub"} =>
        /\ seen[s] + Len(chan[s]) + (IF s \in todo THEN 1 ELSE 0) = snap.version
        /\ \A i \in 1 .. Len(chan[s]) : chan[s][i].version = seen[s] + i

DeliveryInv == PhaseInv /\ RegistryInv /\ FeedInv /\ NothingMissed

-----------------------------------------------------------------------------
(***************************************************************************)
(* Liveness.                                                               *)
(***************************************************************************)
\* Close waits for the actor, and the actor always comes to an end.
CloseReturns ==
    \A c \in Closer : cpc[c] = "closing" ~> cpc[c] = "ret"

\* A call that waits for the actor is released when the actor stops.
StopReleases ==
    \A c \in Client : done /\ cpc[c] # "idle" ~> cpc[c] \in {"idle", "ret", "err", "settled"}

\* Settle returns: the events are bounded, and its own pings do not keep the
\* mailbox from being seen empty.
SettleReturns ==
    \A c \in Settler : cpc[c] = "ping" ~> cpc[c] \in {"settled", "ret", "err"}
=============================================================================
