-------------------------- MODULE ActorLoopProofs --------------------------
(***************************************************************************)
(* Proofs about ActorLoop, for every set of clients and subscribers and    *)
(* every bound.                                                            *)
(***************************************************************************)
EXTENDS ActorLoop, SequenceTheorems, TLAPS

-----------------------------------------------------------------------------
(***************************************************************************)
(* Mailbox items.                                                          *)
(***************************************************************************)

\* The events of a well-typed mailbox are events.
LEMMA WaitingType ==
    ASSUME NEW box \in Seq(InboxItem)
    PROVE  Waiting(box) \subseteq Event
  BY DEF Waiting, InboxItem, EventItem, PingItem, DrainItem

\* What is at the head of a non-empty mailbox, by its kind.
LEMMA HeadType ==
    ASSUME NEW box \in Seq(InboxItem), box # <<>>
    PROVE  /\ Tail(box) \in Seq(InboxItem)
           /\ Head(box).kind = "event" => Head(box).evt \in Event
           /\ Head(box).kind = "ping" => Head(box).by \in Settler
           /\ Head(box).kind = "drainClose" => Head(box).by \in Drainer
  <1>1. Head(box) \in InboxItem /\ Tail(box) \in Seq(InboxItem)
    OBVIOUS
  <1>2. QED
    BY <1>1 DEF InboxItem, EventItem, PingItem, DrainItem

-----------------------------------------------------------------------------
(***************************************************************************)
(* Type correctness.                                                       *)
(***************************************************************************)
LEMMA TypeInit == Init => TypeOK
  <1> SUFFICES ASSUME Init PROVE TypeOK
    OBVIOUS
  <1>1. snap \in Snapshot /\ staged \in Snapshot
    BY DEF Init, Snapshot, Status
  <1>2. mailbox \in Seq(InboxItem) /\ handled \in Seq(Event)
    BY DEF Init
  <1>3. chan \in [Sub -> Seq(Snapshot)]
    BY DEF Init
  <1>4. QED
    BY <1>1, <1>2, <1>3 DEF Init, TypeOK

\* The actor goroutine's steps keep the types.
LEMMA TypeActor == TypeOK /\ Actor => TypeOK'
  <1> SUFFICES ASSUME TypeOK, Actor PROVE TypeOK'
    OBVIOUS
  <1> USE DEF TypeOK, actorVars, subVars, clientVars
  <1>0. /\ \A st \in Status : NextSnap(st) \in Snapshot
        /\ {"Done", "Running", "Error", "Stopped"} \subseteq Status
    BY DEF NextSnap, Snapshot, Status, Terminal
  <1>1. CASE MakeChannels
    BY <1>1 DEF MakeChannels
  <1>2. ASSUME NEW final \in BOOLEAN, Stage(final) PROVE TypeOK'
    BY <1>0, <1>2 DEF Stage
  <1>3. CASE ObserversApprove
    BY <1>3 DEF ObserversApprove, PublishSnap
  <1>4. CASE ObserversAbort
    BY <1>0, <1>4 DEF ObserversAbort, PublishSnap
  <1>5. CASE AlwaysLoop
    BY <1>0, <1>5 DEF AlwaysLoop, PublishSnap
  <1>6. CASE Quiescent
    BY <1>6 DEF Quiescent
  <1>7. ASSUME NEW s \in Sub, Notify(s) PROVE TypeOK'
    BY <1>7 DEF Notify
  <1>8. CASE Notified
    BY <1>8 DEF Notified
  <1>9. CASE LoopCancelled
    BY <1>9 DEF LoopCancelled
  <1>10. ASSUME NEW s \in Sub, LoopSubscribe(s) PROVE TypeOK'
    BY <1>10 DEF LoopSubscribe, Snapshot
  <1>11. ASSUME NEW s \in Sub, LoopUnsubscribe(s) PROVE TypeOK'
    BY <1>11 DEF LoopUnsubscribe
  <1>12. ASSUME TakeEvent PROVE TypeOK'
    BY <1>12, HeadType DEF TakeEvent, Take
  <1>13. ASSUME NEW b \in BOOLEAN, Answer(b) PROVE TypeOK'
    BY <1>13, HeadType DEF Answer, Take
  <1>14. CASE LoopDrainClose
    BY <1>14, HeadType, WaitingType DEF LoopDrainClose, Take
  <1>15. CASE DrainSentinel
    BY <1>15, HeadType DEF DrainSentinel, Take
  <1>16. CASE DrainEmpty
    BY <1>16 DEF DrainEmpty
  <1>17. CASE Shutdown
    BY <1>0, <1>17 DEF Shutdown, PublishSnap
  <1>18. CASE CloseChannels
    BY <1>18 DEF CloseChannels
  <1>19. QED
    BY <1>1, <1>2, <1>3, <1>4, <1>5, <1>6, <1>7, <1>8, <1>9, <1>10, <1>11,
       <1>12, <1>13, <1>14, <1>15, <1>16, <1>17, <1>18
       DEF Actor, LoopEvent, LoopPing, DrainEvent, DrainPing

\* So do those of the subscribers' goroutines ...
LEMMA TypeDelivery ==
    ASSUME TypeOK, NEW s \in Sub, Delivery(s)
    PROVE  TypeOK'
  <1> USE DEF TypeOK, actorVars, subVars, clientVars
  <1>1. ASSUME NEW from,
               NEW to \in {"none", "queued", "offer", "refused", "recv", "fn",
                           "unsub", "flush", "end"},
               Move(s, from, to)
        PROVE  TypeOK'
    BY <1>1 DEF Move
  <1>2. CASE SubscribeStopped(s)
    BY <1>2 DEF SubscribeStopped
  <1>3. ASSUME Receive(s)
        PROVE  /\ chan' \in [Sub -> Seq(Snapshot)]
               /\ Head(chan[s]).version \in Nat
    <2>1. chan[s] \in Seq(Snapshot) /\ chan[s] # <<>>
      BY <1>3 DEF Receive
    <2>2. Tail(chan[s]) \in Seq(Snapshot) /\ Head(chan[s]) \in Snapshot
      BY <2>1
    <2>3. QED
      BY <1>3, <2>2 DEF Receive, Snapshot
  <1>4. CASE Deliver(s)
    BY <1>3, <1>4 DEF Deliver
  <1>5. CASE Flush(s)
    BY <1>3, <1>5 DEF Flush
  <1>6. QED
    BY <1>1, <1>2, <1>4, <1>5
       DEF Delivery, FnReturns, SeeClosed, SeeQuit, UnsubDone, Flushed

\* ... of the clients inside a call ...
LEMMA TypeClient ==
    ASSUME TypeOK,
           \/ \E c \in Sender : SenderStep(c)
           \/ \E c \in Closer : CloserStep(c)
           \/ \E c \in Drainer : DrainerStep(c)
           \/ \E c \in Settler : SettlerStep(c)
    PROVE  TypeOK'
  <1> USE DEF TypeOK, actorVars, subVars, clientVars, Client
  <1>1. ASSUME NEW c \in Client, NEW from,
               NEW to \in {"idle", "nil", "enq", "ping", "settled", "ret", "err"},
               Go(c, from, to)
        PROVE  TypeOK'
    BY <1>1 DEF Go
  <1>2. ASSUME NEW c \in Sender, SendEnqueue(c) PROVE TypeOK'
    <2>1. [kind |-> "event", evt |-> [from |-> c, n |-> sent[c]]] \in InboxItem
      BY DEF InboxItem, EventItem, Event
    <2>2. QED
      BY <1>2, <2>1 DEF SendEnqueue
  <1>3. ASSUME NEW c \in Drainer, DrainEnqueue(c) PROVE TypeOK'
    <2>1. [kind |-> "drainClose", by |-> c] \in InboxItem
      BY DEF InboxItem, DrainItem
    <2>2. QED
      BY <1>3, <2>1, WaitingType DEF DrainEnqueue
  <1>4. ASSUME NEW c \in Settler, SettlePing(c) PROVE TypeOK'
    <2>1. [kind |-> "ping", by |-> c] \in InboxItem
      BY DEF InboxItem, PingItem
    <2>2. QED
      BY <1>4, <2>1 DEF SettlePing
  <1>5. QED
    BY <1>1, <1>2, <1>3, <1>4
       DEF SenderStep, CloserStep, DrainerStep, SettlerStep, SendStopped,
           TrySendFull, CloseReturn, DrainStopped, HardCloseReturn,
           SettleAgain, SettleIdle, SettleStopped

\* ... and of the surroundings.
LEMMA TypeEnvironment == TypeOK /\ Environment => TypeOK'
  <1> SUFFICES ASSUME TypeOK, Environment PROVE TypeOK'
    OBVIOUS
  <1> USE DEF TypeOK, actorVars, subVars, clientVars, Client
  <1>1. CASE Start
    BY <1>1 DEF Start
  <1>2. CASE ParentCancel
    BY <1>2 DEF ParentCancel
  <1>3. ASSUME NEW s \in Sub, Subscribe(s) \/ CancelSub(s) PROVE TypeOK'
    <2>1. CASE Subscribe(s)
      <3>1. localSubs' \in SUBSET Sub
        BY <2>1 DEF Subscribe
      <3>2. PICK p \in {"queued", "offer"} : spc' = [spc EXCEPT ![s] = p]
        BY <2>1 DEF Subscribe
      <3>3. UNCHANGED <<actorVars, mailbox, chan, open, quit, seen, clientVars,
                        handled, hard>>
        BY <2>1, Zenon DEF Subscribe
      <3>4. QED
        BY <3>1, <3>2, <3>3
    <2>2. CASE CancelSub(s)
      BY <2>2 DEF CancelSub
    <2>3. QED
      BY <1>3, <2>1, <2>2
  <1>4. ASSUME NEW c \in Sender, SendCall(c) \/ TrySendCall(c) \/ SendGiveUp(c)
        PROVE TypeOK'
    <2>1. CASE SendCall(c) \/ TrySendCall(c)
      <3>1. PICK p \in {"idle", "nil", "send", "try"} : cpc' = [cpc EXCEPT ![c] = p]
        <4>1. CASE SendCall(c)
          BY <4>1 DEF SendCall, Enter
        <4>2. CASE TrySendCall(c)
          BY <4>2 DEF TrySendCall
        <4>3. QED
          BY <2>1, <4>1, <4>2
      <3>2. sent' = [sent EXCEPT ![c] = sent[c] + 1]
        BY <2>1, Zenon DEF SendCall, TrySendCall
      <3>3. UNCHANGED <<actorVars, mailbox, subVars, ack, owed, handled, hard>>
        BY <2>1, Zenon DEF SendCall, TrySendCall
      <3>4. QED
        BY <3>1, <3>2, <3>3
    <2>2. CASE SendGiveUp(c)
      BY <2>2 DEF SendGiveUp, Go
    <2>3. QED
      BY <1>4, <2>1, <2>2
  <1>5. ASSUME NEW c \in Closer, CloseCall(c) PROVE TypeOK'
    BY <1>5 DEF CloseCall
  <1>6. ASSUME NEW c \in Drainer, DrainCall(c) \/ DrainGiveUp(c) PROVE TypeOK'
    BY <1>6 DEF DrainCall, DrainGiveUp, Go, Enter
  <1>7. ASSUME NEW c \in Settler, SettleCall(c) \/ SettleGiveUp(c) PROVE TypeOK'
    <2>1. Waiting(mailbox) \subseteq Event
      BY WaitingType
    <2>2. CASE SettleCall(c)
      <3>1. PICK p \in {"nil", "ping"} : cpc' = [cpc EXCEPT ![c] = p]
        BY <2>2 DEF SettleCall, Enter
      <3>2. owed' = [owed EXCEPT ![c] = Waiting(mailbox)]
        BY <2>2, Zenon DEF SettleCall
      <3>3. UNCHANGED <<actorVars, mailbox, subVars, sent, ack, handled, hard>>
        BY <2>2, Zenon DEF SettleCall
      <3>4. QED
        BY <2>1, <3>1, <3>2, <3>3
    <2>3. CASE SettleGiveUp(c)
      BY <2>3 DEF SettleGiveUp, Go
    <2>4. QED
      BY <1>7, <2>2, <2>3
  <1>8. QED
    BY <1>1, <1>2, <1>3, <1>4, <1>5, <1>6, <1>7 DEF Environment

LEMMA TypeStep == TypeOK /\ [Next]_vars => TypeOK'
  <1> SUFFICES ASSUME TypeOK, [Next]_vars PROVE TypeOK'
    OBVIOUS
  <1>1. CASE UNCHANGED vars
    BY <1>1 DEF vars, actorVars, subVars, clientVars, TypeOK
  <1>2. QED
    BY <1>1, TypeActor, TypeDelivery, TypeClient, TypeEnvironment DEF Next, Rest

\* Every variable has its type in every reachable state: mailbox items are
\* events, pings or sentinels, subscriber channels hold snapshots, and the
\* goroutines stand where the code can stand.
THEOREM TypeCorrect == Spec => []TypeOK
  <1>1. QED
    BY TypeInit, TypeStep, PTL DEF Spec

-----------------------------------------------------------------------------
(***************************************************************************)
(* The actor goroutine and its subscribers: DeliveryInv is inductive.      *)
(***************************************************************************)
IInv == TypeOK /\ DeliveryInv

LEMMA DeliveryInit == Init => DeliveryInv
  BY DEF Init, DeliveryInv, PhaseInv, RegistryInv, FeedInv, NothingMissed

\* Nothing in the invariant speaks of clients, the mailbox or loopCtx.
LEMMA DeliveryFrame ==
    ASSUME DeliveryInv, UNCHANGED <<pc, snap, staged, todo, done, subVars>>
    PROVE  DeliveryInv'
  BY DEF DeliveryInv, PhaseInv, RegistryInv, FeedInv, NothingMissed, subVars

\* A step of the actor that leaves the snapshot, the subscribers and done
\* alone only has to stand at a place that fits the snapshot.
LEMMA DeliveryMove ==
    ASSUME TypeOK, DeliveryInv,
           pc \notin {"off", "starting", "observe", "close", "exit"},
           pc' \in {"stage", "select", "drain", "stop"},
           pc' \in {"select", "drain"} => snap.status = "Running",
           pc' = "stage" => snap.status = "Running",
           pc' = "stop" => snap.status \in {"Running", "Done", "Error"},
           todo = {},
           UNCHANGED <<snap, staged, todo, done, subVars>>
    PROVE  DeliveryInv'
  <1> USE DEF DeliveryInv
  <1>1. PhaseInv'
    BY DEF PhaseInv
  <1>2. RegistryInv'
    BY DEF RegistryInv, subVars
  <1>3. FeedInv'
    BY DEF FeedInv, subVars
  <1>4. NothingMissed'
    BY DEF NothingMissed, subVars
  <1>5. QED
    BY <1>1, <1>2, <1>3, <1>4

\* A publication by an actor that has not begun to stop: everybody registered
\* is one version behind, and is to be notified.
LEMMA DeliveryPublish ==
    ASSUME TypeOK, DeliveryInv, NEW st \in Status \ {"Starting"},
           pc \in {"stage", "observe", "stop"},
           PublishSnap(NextSnap(st)),
           UNCHANGED <<staged, done, subVars>>
    PROVE  DeliveryInv'
  <1> USE DEF DeliveryInv
  <1>0. /\ snap' = [status |-> st, version |-> snap.version + 1]
        /\ todo' = localSubs /\ pc' = "notify" /\ todo = {}
        /\ snap.version \in Nat
    BY DEF PublishSnap, NextSnap, PhaseInv, TypeOK, Snapshot
  <1>1. PhaseInv'
    BY <1>0 DEF PhaseInv
  <1>2. RegistryInv'
    BY <1>0 DEF RegistryInv, subVars
  <1>3. FeedInv'
    <2> SUFFICES ASSUME NEW s \in Sub, spc[s] \in {"queued", "recv", "fn", "unsub"}
                 PROVE  /\ seen[s] + Len(chan[s]) + 1 = snap.version + 1
                        /\ s \in localSubs
                        /\ \A i \in 1 .. Len(chan[s]) :
                              chan[s][i].version = seen[s] + i
      BY <1>0 DEF FeedInv, subVars
    <2>1. s \in localSubs
      BY DEF RegistryInv, PhaseInv, TypeOK
    <2>2. seen[s] \in Nat /\ Len(chan[s]) \in Nat
      BY DEF TypeOK
    <2>3. QED
      BY <1>0, <2>1, <2>2 DEF FeedInv
  <1>4. NothingMissed'
    BY DEF NothingMissed, RegistryInv, subVars, PhaseInv
  <1>5. QED
    BY <1>1, <1>2, <1>3, <1>4

LEMMA DeliveryActor == IInv /\ Actor => DeliveryInv'
  <1> SUFFICES ASSUME TypeOK, DeliveryInv, Actor PROVE DeliveryInv'
    BY DEF IInv
  <1> USE DEF actorVars, subVars, clientVars, DeliveryInv
  <1>1. CASE MakeChannels
    <2>1. PhaseInv'
      BY <1>1 DEF MakeChannels, PhaseInv
    <2>2. RegistryInv'
      BY <1>1 DEF MakeChannels, PhaseInv, RegistryInv, TypeOK
    <2>3. FeedInv'
      BY <1>1 DEF MakeChannels, RegistryInv, FeedInv, TypeOK
    <2>4. NothingMissed'
      BY <1>1 DEF MakeChannels, NothingMissed, RegistryInv, TypeOK
    <2>5. QED
      BY <2>1, <2>2, <2>3, <2>4
  <1>2. ASSUME NEW final \in BOOLEAN, Stage(final) PROVE DeliveryInv'
    <2>1. PhaseInv'
      BY <1>2 DEF Stage, NextSnap, PhaseInv, TypeOK, Snapshot
    <2>2. RegistryInv' /\ FeedInv' /\ NothingMissed'
      BY <1>2 DEF Stage, RegistryInv, FeedInv, NothingMissed
    <2>3. QED
      BY <2>1, <2>2
  <1>3. CASE ObserversApprove
    <2>1. PICK st \in {"Running", "Done"} : staged = NextSnap(st)
      BY <1>3 DEF ObserversApprove, NextSnap, PhaseInv, TypeOK, Snapshot
    <2>2. QED
      BY <1>3, <2>1, DeliveryPublish DEF ObserversApprove, Status, Terminal
  <1>4. CASE ObserversAbort
    BY <1>4, DeliveryPublish DEF ObserversAbort, Status, Terminal
  <1>5. CASE AlwaysLoop
    BY <1>5, DeliveryPublish DEF AlwaysLoop, Status, Terminal
  <1>6. CASE Quiescent
    BY <1>6, DeliveryMove DEF Quiescent, PhaseInv
  <1>7. ASSUME NEW s \in Sub, Notify(s) PROVE DeliveryInv'
    <2>1. PhaseInv'
      BY <1>7 DEF Notify, PhaseInv
    <2>2. s \in localSubs /\ spc[s] \in {"queued", "recv", "fn", "unsub"}
      BY <1>7 DEF Notify, RegistryInv
    <2>3. RegistryInv'
      BY <1>7, <2>2 DEF Notify, RegistryInv, PhaseInv, TypeOK
    <2>4. FeedInv'
      <3>1. /\ chan[s] \in Seq(Snapshot) /\ seen[s] \in Nat
            /\ snap \in Snapshot /\ snap.version \in Nat
        BY DEF TypeOK, Snapshot
      <3>2. /\ seen[s] + Len(chan[s]) + 1 = snap.version
            /\ \A i \in 1 .. Len(chan[s]) : chan[s][i].version = seen[s] + i
        BY <1>7, <2>2 DEF Notify, FeedInv
      <3>3. /\ seen[s] + Len(Append(chan[s], snap)) = snap.version
            /\ \A i \in 1 .. Len(Append(chan[s], snap)) :
                  Append(chan[s], snap)[i].version = seen[s] + i
        <4>1. /\ Len(Append(chan[s], snap)) = Len(chan[s]) + 1
              /\ Len(chan[s]) \in Nat
              /\ \A i \in 1 .. Len(chan[s]) : Append(chan[s], snap)[i] = chan[s][i]
              /\ Append(chan[s], snap)[Len(chan[s]) + 1] = snap
          BY <3>1
        <4> DEFINE longer == Append(chan[s], snap)
        <4> HIDE DEF longer
        <4>2. ASSUME NEW i \in 1 .. Len(longer)
              PROVE  longer[i].version = seen[s] + i
          <5>1. CASE i = Len(chan[s]) + 1
            <6>1. longer[i] = snap
              BY <4>1, <5>1 DEF longer
            <6>2. snap.version = seen[s] + (Len(chan[s]) + 1)
              BY <3>1, <3>2, <4>1
            <6>3. QED
              BY <5>1, <6>1, <6>2
          <5>2. CASE i # Len(chan[s]) + 1
            <6>1. i \in 1 .. Len(chan[s])
              BY <4>1, <5>2 DEF longer
            <6>2. QED
              BY <3>2, <4>1, <6>1 DEF longer
          <5>3. QED
            BY <5>1, <5>2
        <4>3. seen[s] + Len(longer) = snap.version
          BY <3>1, <3>2, <4>1 DEF longer
        <4>4. QED
          BY <4>2, <4>3 DEF longer
      <3>4. /\ chan'[s] = Append(chan[s], snap) /\ s \notin todo'
            /\ \A x \in Sub \ {s} : chan'[x] = chan[x] /\ (x \in todo' <=> x \in todo)
            /\ UNCHANGED <<spc, seen, snap>>
        BY <1>7 DEF Notify, TypeOK
      <3>5. ASSUME NEW x \in Sub, spc'[x] \in {"queued", "recv", "fn", "unsub"}
            PROVE  /\ seen'[x] + Len(chan'[x]) + (IF x \in todo' THEN 1 ELSE 0)
                        = snap'.version
                   /\ \A i \in 1 .. Len(chan'[x]) : chan'[x][i].version = seen'[x] + i
        <4>1. CASE x # s
          BY <3>4, <3>5, <4>1 DEF FeedInv
        <4>2. CASE x = s
          <5>1. /\ seen'[x] = seen[s] /\ chan'[x] = Append(chan[s], snap)
                /\ snap' = snap /\ x \notin todo'
            BY <3>4, <4>2
          <5>2. Len(Append(chan[s], snap)) \in Nat
            BY <3>1
          <5>3. \A i \in 1 .. Len(chan'[x]) : chan'[x][i].version = seen'[x] + i
            BY <3>3, <5>1
          <5>4. seen'[x] + Len(chan'[x]) = snap'.version
            BY <3>3, <5>1
          <5>5. seen'[x] + Len(chan'[x]) \in Nat
            BY <3>1, <5>1, <5>2
          <5>6. QED
            BY <5>1, <5>3, <5>4, <5>5
        <4>3. QED
          BY <4>1, <4>2
      <3>6. QED
        BY <3>5 DEF FeedInv
    <2>5. NothingMissed'
      BY <1>7 DEF Notify, NothingMissed
    <2>6. QED
      BY <2>1, <2>3, <2>4, <2>5
  <1>8. CASE Notified
    <2>1. CASE snap.status \in {"Running", "Done", "Error"}
      BY <1>8, <2>1, DeliveryMove DEF Notified
    <2>2. CASE snap.status = "Stopped"
      <3>1. PhaseInv'
        BY <1>8, <2>2 DEF Notified, PhaseInv, Terminal
      <3>2. RegistryInv' /\ FeedInv' /\ NothingMissed'
        BY <1>8, <2>2 DEF Notified, RegistryInv, FeedInv, NothingMissed
      <3>3. QED
        BY <3>1, <3>2
    <2>3. QED
      BY <1>8, <2>1, <2>2
         DEF Notified, PhaseInv, TypeOK, Snapshot, Status, Terminal
  <1>9. CASE LoopCancelled
    BY <1>9, DeliveryMove DEF LoopCancelled, PhaseInv
  <1>10. ASSUME NEW s \in Sub, LoopSubscribe(s) PROVE DeliveryInv'
    <2>1. PhaseInv' /\ NothingMissed'
      BY <1>10 DEF LoopSubscribe, PhaseInv, NothingMissed, TypeOK
    <2>2. s \notin localSubs
      BY <1>10 DEF LoopSubscribe, RegistryInv
    <2>3. RegistryInv'
      BY <1>10, <2>2 DEF LoopSubscribe, RegistryInv, PhaseInv, TypeOK
    <2>4. FeedInv'
      BY <1>10, <2>2 DEF LoopSubscribe, RegistryInv, PhaseInv, FeedInv, TypeOK, Snapshot
    <2>5. QED
      BY <2>1, <2>3, <2>4
  <1>11. ASSUME NEW s \in Sub, LoopUnsubscribe(s) PROVE DeliveryInv'
    <2>1. PhaseInv' /\ NothingMissed'
      BY <1>11 DEF LoopUnsubscribe, PhaseInv, NothingMissed, TypeOK
    <2>2. RegistryInv' /\ FeedInv'
      BY <1>11 DEF LoopUnsubscribe, RegistryInv, PhaseInv, FeedInv, TypeOK
    <2>3. QED
      BY <2>1, <2>2
  <1>12. ASSUME TakeEvent, pc \in {"select", "drain"} PROVE DeliveryInv'
    BY <1>12, DeliveryMove DEF TakeEvent, PhaseInv
  <1>13. ASSUME NEW b \in BOOLEAN, Answer(b) PROVE DeliveryInv'
    BY <1>13, DeliveryFrame DEF Answer
  <1>14. CASE LoopDrainClose
    BY <1>14, DeliveryMove DEF LoopDrainClose, PhaseInv
  <1>15. CASE DrainSentinel
    BY <1>15, DeliveryFrame DEF DrainSentinel
  <1>16. CASE DrainEmpty
    BY <1>16, DeliveryMove DEF DrainEmpty, PhaseInv
  <1>17. CASE Shutdown
    <2>1. CASE snap.status \in Terminal
      <3>1. PhaseInv'
        BY <1>17, <2>1 DEF Shutdown, PhaseInv
      <3>2. RegistryInv' /\ FeedInv' /\ NothingMissed'
        BY <1>17, <2>1 DEF Shutdown, RegistryInv, FeedInv, NothingMissed
      <3>3. QED
        BY <3>1, <3>2
    <2>2. CASE snap.status \notin Terminal
      BY <1>17, <2>2, DeliveryPublish DEF Shutdown, Status, Terminal
    <2>3. QED
      BY <2>1, <2>2
  <1>18. CASE CloseChannels
    <2>1. PhaseInv'
      BY <1>18 DEF CloseChannels, PhaseInv
    <2>2. RegistryInv'
      BY <1>18 DEF CloseChannels, RegistryInv, PhaseInv, TypeOK
    <2>3. FeedInv' /\ NothingMissed'
      BY <1>18 DEF CloseChannels, FeedInv, NothingMissed, PhaseInv
    <2>4. QED
      BY <2>1, <2>2, <2>3
  <1>19. QED
    BY <1>1, <1>2, <1>3, <1>4, <1>5, <1>6, <1>7, <1>8, <1>9, <1>10, <1>11,
       <1>12, <1>13, <1>14, <1>15, <1>16, <1>17, <1>18
       DEF Actor, LoopEvent, LoopPing, DrainEvent, DrainPing

\* A receive takes the snapshot that follows the one the subscriber has seen.
LEMMA NextInLine ==
    ASSUME TypeOK, FeedInv, NEW s \in Sub, spc[s] = "recv", chan[s] # <<>>
    PROVE  /\ Head(chan[s]).version = seen[s] + 1
           /\ Len(Tail(chan[s])) + 1 = Len(chan[s])
           /\ \A i \in 1 .. Len(Tail(chan[s])) :
                 Tail(chan[s])[i].version = (seen[s] + 1) + i
  <1> DEFINE c == chan[s]
  <1>1. c \in Seq(Snapshot) /\ seen[s] \in Nat
    BY DEF TypeOK
  <1>2. \A i \in 1 .. Len(c) : c[i].version = seen[s] + i
    BY DEF FeedInv
  <1>3. /\ Len(c) \in Nat \ {0}
        /\ Len(Tail(c)) = Len(c) - 1
        /\ Head(c) = c[1]
        /\ \A i \in 1 .. Len(Tail(c)) : Tail(c)[i] = c[i + 1]
    BY <1>1
  <1> HIDE DEF c
  <1>4. ASSUME NEW i \in 1 .. Len(Tail(c))
        PROVE  Tail(c)[i].version = (seen[s] + 1) + i
    <2>1. i + 1 \in 1 .. Len(c)
      BY <1>3
    <2>2. c[i + 1].version = seen[s] + (i + 1)
      BY <1>2, <2>1
    <2>3. QED
      BY <1>1, <1>3, <2>2
  <1>5. QED
    BY <1>1, <1>2, <1>3, <1>4 DEF c

LEMMA DeliveryDelivery ==
    ASSUME IInv, NEW s \in Sub, Delivery(s)
    PROVE  DeliveryInv'
  <1> USE DEF IInv, DeliveryInv, actorVars
  <1>1. PhaseInv'
    BY DEF Delivery, SubscribeStopped, Deliver, FnReturns, SeeClosed, SeeQuit,
           UnsubDone, Flush, Flushed, Move, PhaseInv
  <1>2. CASE Deliver(s)
    <2>1. /\ spc[s] = "recv" /\ chan[s] # <<>>
          /\ chan' = [chan EXCEPT ![s] = Tail(chan[s])]
          /\ spc' = [spc EXCEPT ![s] = "fn"]
          /\ seen' = [seen EXCEPT ![s] = Head(chan[s]).version]
          /\ UNCHANGED <<actorVars, localSubs, open, quit>>
      BY <1>2 DEF Deliver, Receive
    <2>2. RegistryInv'
      BY <2>1 DEF RegistryInv, TypeOK
    <2>3. FeedInv'
      <3>1. /\ chan'[s] = Tail(chan[s]) /\ seen'[s] = seen[s] + 1
            /\ \A x \in Sub \ {s} : /\ chan'[x] = chan[x] /\ seen'[x] = seen[x]
                                    /\ spc'[x] = spc[x]
        BY <2>1, NextInLine DEF TypeOK
      <3>2. /\ Len(chan[s]) \in Nat /\ Len(Tail(chan[s])) \in Nat
            /\ seen[s] \in Nat /\ snap.version \in Nat
        BY <2>1 DEF TypeOK, Snapshot
      <3>3. /\ Len(Tail(chan[s])) + 1 = Len(chan[s])
            /\ \A i \in 1 .. Len(Tail(chan[s])) :
                  Tail(chan[s])[i].version = (seen[s] + 1) + i
        BY <2>1, NextInLine
      <3>4. seen[s] + Len(chan[s]) + (IF s \in todo THEN 1 ELSE 0) = snap.version
        BY <2>1 DEF FeedInv
      <3>5. seen'[s] + Len(chan'[s]) + (IF s \in todo THEN 1 ELSE 0) = snap.version
        <4> DEFINE due == IF s \in todo THEN 1 ELSE 0
        <4>1. due \in Nat /\ seen[s] + Len(chan[s]) + due = snap.version
          BY <3>4
        <4>2. Len(Tail(chan[s])) + 1 = Len(chan[s])
          BY <3>3
        <4> HIDE DEF due
        <4>3. (seen[s] + 1) + Len(Tail(chan[s])) + due = snap.version
          BY <3>2, <4>1, <4>2
        <4>4. seen'[s] = seen[s] + 1 /\ Len(chan'[s]) = Len(Tail(chan[s]))
          BY <3>1
        <4>5. seen'[s] + Len(chan'[s]) + due = snap.version
          BY <4>3, <4>4
        <4>6. QED
          BY <4>5 DEF due
      <3>6. \A i \in 1 .. Len(chan'[s]) : chan'[s][i].version = seen'[s] + i
        BY <3>1, <3>3
      <3>7. QED
        BY <2>1, <3>1, <3>5, <3>6 DEF FeedInv
    <2>4. NothingMissed'
      BY <2>1 DEF NothingMissed, TypeOK
    <2>5. QED
      BY <1>1, <2>2, <2>3, <2>4
  <1>3. CASE SeeClosed(s)
    <2>1. /\ spc[s] = "recv" /\ chan[s] = <<>> /\ ~open[s]
          /\ spc' = [spc EXCEPT ![s] = "end"]
          /\ UNCHANGED <<actorVars, localSubs, chan, open, quit, seen>>
      BY <1>3 DEF SeeClosed, Move
    <2>2. pc = "exit" /\ todo = {} /\ snap.status \in Terminal
      BY <2>1 DEF RegistryInv, PhaseInv
    <2>3. seen[s] = snap.version
      BY <2>1, <2>2 DEF FeedInv, TypeOK
    <2>4. RegistryInv' /\ FeedInv' /\ NothingMissed'
      BY <2>1, <2>2, <2>3 DEF RegistryInv, FeedInv, NothingMissed, TypeOK
    <2>5. QED
      BY <1>1, <2>4
  <1>4. CASE Flush(s)
    BY <1>1, <1>4 DEF Flush, Receive, RegistryInv, FeedInv, NothingMissed, TypeOK
  <1>5. CASE Flushed(s)
    BY <1>1, <1>5 DEF Flushed, Move, RegistryInv, FeedInv, NothingMissed, TypeOK
  <1>6. CASE SubscribeStopped(s)
    BY <1>1, <1>6 DEF SubscribeStopped, RegistryInv, FeedInv, NothingMissed, TypeOK
  <1>7. ASSUME NEW from \in {"fn", "recv"}, NEW to \in {"recv", "unsub"},
               Move(s, from, to), to = "unsub" => quit[s]
        PROVE  DeliveryInv'
    <2>1. RegistryInv'
      BY <1>7 DEF Move, RegistryInv, TypeOK
    <2>2. FeedInv' /\ NothingMissed'
      BY <1>7 DEF Move, FeedInv, NothingMissed, TypeOK
    <2>3. QED
      BY <1>1, <2>1, <2>2
  <1>8. CASE UnsubDone(s)
    BY <1>1, <1>8
       DEF UnsubDone, Move, PhaseInv, RegistryInv, FeedInv, NothingMissed, TypeOK
  <1>9. QED
    BY <1>2, <1>3, <1>4, <1>5, <1>6, <1>7, <1>8 DEF Delivery, FnReturns, SeeQuit

LEMMA DeliveryOthers ==
    ASSUME IInv,
           \/ Environment
           \/ \E c \in Sender : SenderStep(c)
           \/ \E c \in Closer : CloserStep(c)
           \/ \E c \in Drainer : DrainerStep(c)
           \/ \E c \in Settler : SettlerStep(c)
    PROVE  DeliveryInv'
  <1> USE DEF IInv, actorVars
  <1>1. ASSUME NEW c, NEW from, NEW to, Go(c, from, to)
        PROVE  DeliveryInv'
    BY <1>1, DeliveryFrame DEF Go
  <1>2. ASSUME NEW c \in Sender,
               SenderStep(c) \/ SendCall(c) \/ TrySendCall(c) \/ SendGiveUp(c)
        PROVE  DeliveryInv'
    BY <1>1, <1>2, DeliveryFrame
       DEF SenderStep, SendEnqueue, SendStopped, TrySendFull, SendCall,
           TrySendCall, SendGiveUp
  <1>3. ASSUME NEW c \in Closer, CloserStep(c) \/ CloseCall(c)
        PROVE  DeliveryInv'
    BY <1>1, <1>3, DeliveryFrame DEF CloserStep, CloseReturn, CloseCall
  <1>4. ASSUME NEW c \in Drainer, DrainerStep(c) \/ DrainCall(c) \/ DrainGiveUp(c)
        PROVE  DeliveryInv'
    BY <1>1, <1>4, DeliveryFrame
       DEF DrainerStep, DrainEnqueue, DrainStopped, HardCloseReturn, DrainCall,
           DrainGiveUp
  <1>5. ASSUME NEW c \in Settler, SettlerStep(c) \/ SettleCall(c) \/ SettleGiveUp(c)
        PROVE  DeliveryInv'
    BY <1>1, <1>5, DeliveryFrame
       DEF SettlerStep, SettlePing, SettleAgain, SettleIdle, SettleStopped,
           SettleCall, SettleGiveUp
  <1>6. CASE Start
    BY <1>6 DEF Start, subVars, DeliveryInv, PhaseInv, RegistryInv, FeedInv,
                NothingMissed
  <1>7. CASE ParentCancel
    BY <1>7, DeliveryFrame DEF ParentCancel
  <1>8. ASSUME NEW s \in Sub, Subscribe(s) PROVE DeliveryInv'
    <2>1. PhaseInv' /\ NothingMissed'
      BY <1>8 DEF Subscribe, DeliveryInv, PhaseInv, NothingMissed, TypeOK
    <2>2. /\ spc[s] = "none" /\ pc # "starting"
          /\ UNCHANGED <<actorVars, chan, open, quit, seen>>
          /\ \A x \in Sub \ {s} : spc'[x] = spc[x]
          /\ pc = "off" => spc'[s] = "queued" /\ localSubs' = localSubs \cup {s}
          /\ pc # "off" => spc'[s] = "offer" /\ UNCHANGED localSubs
      BY <1>8 DEF Subscribe, TypeOK
    <2>3. /\ s \notin localSubs /\ chan[s] = <<>> /\ open[s] /\ seen[s] = 0
          /\ pc \in {"off", "starting"} => snap.version = 0
          /\ pc # "notify" => todo = {}
          /\ localSubs \subseteq Sub
      BY <2>2 DEF DeliveryInv, RegistryInv, PhaseInv, TypeOK
    <2>4. RegistryInv'
      BY <2>2, <2>3 DEF DeliveryInv, RegistryInv
    <2>5. FeedInv'
      BY <2>2, <2>3 DEF DeliveryInv, FeedInv
    <2>6. QED
      BY <2>1, <2>4, <2>5 DEF DeliveryInv
  <1>9. ASSUME NEW s \in Sub, CancelSub(s) PROVE DeliveryInv'
    <2>1. /\ UNCHANGED <<actorVars, localSubs, chan, open, spc, seen>>
          /\ \A x \in Sub : quit[x] => quit'[x]
      BY <1>9 DEF CancelSub, TypeOK
    <2>2. QED
      BY <2>1 DEF DeliveryInv, PhaseInv, RegistryInv, FeedInv, NothingMissed
  <1>10. QED
    BY <1>2, <1>3, <1>4, <1>5, <1>6, <1>7, <1>8, <1>9 DEF Environment

LEMMA IInvStep == IInv /\ [Next]_vars => IInv'
  <1> SUFFICES ASSUME IInv, [Next]_vars PROVE IInv'
    OBVIOUS
  <1>1. TypeOK'
    BY TypeStep DEF IInv
  <1>2. CASE UNCHANGED vars
    BY <1>1, <1>2, DeliveryFrame DEF vars, actorVars, IInv
  <1>3. CASE Next
    BY <1>1, <1>2, <1>3, DeliveryActor, DeliveryDelivery, DeliveryOthers
       DEF Next, Rest, IInv
  <1>4. QED
    BY <1>2, <1>3

LEMMA Invariance == Spec => []IInv
  <1>1. Init => IInv
    BY TypeInit, DeliveryInit DEF IInv
  <1>2. QED
    BY <1>1, IInvStep, PTL DEF Spec

-----------------------------------------------------------------------------
(***************************************************************************)
(* What follows for the subscribers.                                       *)
(***************************************************************************)

\* notifySubs, removeSub and shutdown never touch a closed channel: the actor
\* goroutine cannot panic there, whatever the interleaving.
THEOREM ChannelSafety == Spec => []RegisteredOpen
  <1>1. IInv => RegisteredOpen
    BY DEF IInv, TypeOK, DeliveryInv, RegistryInv, RegisteredOpen
  <1>2. QED
    BY <1>1, Invariance, PTL

\* A subscriber whose context is never cancelled gets every snapshot up to the
\* terminal one.
THEOREM CompleteDelivery == Spec => []NothingMissed
  <1>1. IInv => NothingMissed
    BY DEF IInv, DeliveryInv
  <1>2. QED
    BY <1>1, Invariance, PTL

\* Every delivery is of the version after the previous one.
THEOREM OrderedDelivery == Spec => DeliveredInOrder
  <1> DEFINE InOrder == \A s \in Sub : spc[s] = "recv" /\ spc'[s] = "fn"
                                         => seen'[s] = seen[s] + 1
  <1>1. IInv /\ [Next]_vars => [InOrder]_vars
    <2> SUFFICES ASSUME IInv, Next, NEW s \in Sub, spc[s] = "recv", spc'[s] = "fn"
                 PROVE  seen'[s] = seen[s] + 1
      OBVIOUS
    <2> USE DEF IInv, actorVars, subVars, clientVars
    <2>1. CASE Deliver(s)
      <3>1. FeedInv /\ chan[s] # <<>> /\ seen'[s] = Head(chan[s]).version
        BY <2>1 DEF Deliver, Receive, DeliveryInv, TypeOK
      <3>2. QED
        BY <3>1, NextInLine
    <2>2. ASSUME NEW x \in Sub, Delivery(x), ~Deliver(s) PROVE FALSE
      BY <2>2 DEF Delivery, SubscribeStopped, Deliver, FnReturns, SeeClosed,
                  SeeQuit, UnsubDone, Flush, Flushed, Move, TypeOK
    <2>3. CASE Actor
      BY <2>3
         DEF Actor, MakeChannels, Stage, ObserversApprove, ObserversAbort,
             AlwaysLoop, Quiescent, Notify, Notified, LoopCancelled,
             LoopSubscribe, LoopUnsubscribe, LoopEvent, LoopPing,
             LoopDrainClose, DrainEvent, DrainPing, DrainSentinel, DrainEmpty,
             TakeEvent, Answer, Shutdown, CloseChannels, TypeOK
    <2>4. CASE \/ \E c \in Sender : SenderStep(c)
               \/ \E c \in Closer : CloserStep(c)
               \/ \E c \in Drainer : DrainerStep(c)
               \/ \E c \in Settler : SettlerStep(c)
      BY <2>4
         DEF SenderStep, CloserStep, DrainerStep, SettlerStep, SendEnqueue,
             SendStopped, TrySendFull, CloseReturn, DrainEnqueue, DrainStopped,
             HardCloseReturn, SettlePing, SettleAgain, SettleIdle,
             SettleStopped, Go
    <2>5. CASE Environment
      BY <2>5
         DEF Environment, Start, ParentCancel, Subscribe, CancelSub, SendCall,
             TrySendCall, SendGiveUp, CloseCall, DrainCall, DrainGiveUp,
             SettleCall, SettleGiveUp, Go, TypeOK
    <2>6. CASE Rest
      BY <2>6 DEF Rest, vars
    <2>7. QED
      BY <2>1, <2>2, <2>3, <2>4, <2>5, <2>6 DEF Next
  <1>2. QED
    BY <1>1, Invariance, PTL DEF Spec, DeliveredInOrder

-----------------------------------------------------------------------------
(***************************************************************************)
(* What follows for readers of Snapshot and for waiters: ActorLoop         *)
(* implements Lifecycle.                                                   *)
(***************************************************************************)

\* Steps that leave the snapshot and done alone are stutters of Lifecycle.
LEMMA LifeStutter ==
    ASSUME UNCHANGED <<snap, done>>
    PROVE  UNCHANGED Life!lifeVars
  BY DEF Life!lifeVars

LEMMA LifePublish ==
    ASSUME IInv, NEW st \in Status, PublishSnap(NextSnap(st)), UNCHANGED done,
           snap.status \in {"Starting", "Running"},
           \/ st \in {"Running", "Done", "Error"}
           \/ snap.status = "Running" /\ st = "Stopped"
    PROVE  Life!LifeNext
  <1>1. snap'.version = snap.version + 1 /\ snap'.status = st
    BY DEF PublishSnap, NextSnap
  <1>2. Life!Publish
    BY <1>1 DEF Life!Publish, Life!Live
  <1>3. QED
    BY <1>2 DEF Life!LifeNext

LEMMA LifeActor == IInv /\ Actor => [Life!LifeNext]_(Life!lifeVars)
  <1> SUFFICES ASSUME IInv, Actor PROVE [Life!LifeNext]_(Life!lifeVars)
    OBVIOUS
  <1> USE DEF IInv, DeliveryInv, actorVars
  <1>1. CASE ObserversApprove
    <2>1. PICK st \in {"Running", "Done"} : staged = NextSnap(st)
      BY <1>1 DEF ObserversApprove, NextSnap, PhaseInv, TypeOK, Snapshot
    <2>2. QED
      BY <1>1, <2>1, LifePublish
         DEF ObserversApprove, PhaseInv, Status, Terminal
  <1>2. CASE ObserversAbort
    BY <1>2, LifePublish DEF ObserversAbort, PhaseInv, Status, Terminal
  <1>3. CASE AlwaysLoop
    BY <1>3, LifePublish DEF AlwaysLoop, PhaseInv, Status, Terminal
  <1>4. CASE Shutdown
    <2>1. CASE snap.status \in Terminal
      BY <1>4, <2>1, LifeStutter DEF Shutdown
    <2>2. CASE snap.status \notin Terminal
      <3>1. snap.status = "Running"
        BY <1>4, <2>2 DEF Shutdown, PhaseInv, Terminal
      <3>2. QED
        BY <1>4, <2>2, <3>1, LifePublish DEF Shutdown, Status, Terminal
    <2>3. QED
      BY <2>1, <2>2
  <1>5. CASE CloseChannels
    <2>1. ~done /\ done' = TRUE /\ snap' = snap /\ snap.status \in Terminal
      BY <1>5 DEF CloseChannels, PhaseInv
    <2>2. Life!Release
      BY <2>1 DEF Life!Release, Life!Terminal, Terminal
    <2>3. QED
      BY <2>2 DEF Life!LifeNext
  <1>6. CASE UNCHANGED <<snap, done>>
    BY <1>6, LifeStutter
  <1>7. QED
    BY <1>1, <1>2, <1>3, <1>4, <1>5, <1>6
       DEF Actor, MakeChannels, Stage, Quiescent, Notify, Notified,
           LoopCancelled, LoopSubscribe, LoopUnsubscribe, LoopEvent, LoopPing,
           LoopDrainClose, DrainEvent, DrainPing, DrainSentinel, DrainEmpty,
           TakeEvent, Answer

\* A reader sees versions rise one at a time and the terminal snapshot stay;
\* whoever waits for the actor is released only once that snapshot is readable.
THEOREM KeepsPromise == Spec => LifeSafety
  <1>1. Init => Life!LifeInit
    BY DEF Init, Life!LifeInit
  <1>2. IInv /\ [Next]_vars => [Life!LifeNext]_(Life!lifeVars)
    <2> SUFFICES ASSUME IInv, [Next]_vars PROVE [Life!LifeNext]_(Life!lifeVars)
      OBVIOUS
    <2> USE DEF actorVars
    <2>1. ASSUME NEW s \in Sub, Delivery(s) PROVE UNCHANGED <<snap, done>>
      BY <2>1 DEF Delivery, SubscribeStopped, Deliver, FnReturns, SeeClosed,
                  SeeQuit, UnsubDone, Flush, Flushed, Move
    <2>2. ASSUME \/ \E c \in Sender : SenderStep(c)
                 \/ \E c \in Closer : CloserStep(c)
                 \/ \E c \in Drainer : DrainerStep(c)
                 \/ \E c \in Settler : SettlerStep(c)
          PROVE  UNCHANGED <<snap, done>>
      BY <2>2
         DEF SenderStep, CloserStep, DrainerStep, SettlerStep, SendEnqueue,
             SendStopped, TrySendFull, CloseReturn, DrainEnqueue, DrainStopped,
             HardCloseReturn, SettlePing, SettleAgain, SettleIdle,
             SettleStopped, Go
    <2>3. CASE Environment
      BY <2>3, LifeStutter
         DEF Environment, Start, ParentCancel, Subscribe, CancelSub, SendCall,
             TrySendCall, SendGiveUp, CloseCall, DrainCall, DrainGiveUp,
             SettleCall, SettleGiveUp, Go
    <2>4. CASE UNCHANGED vars
      BY <2>4, LifeStutter DEF vars
    <2>5. QED
      BY <2>1, <2>2, <2>3, <2>4, LifeActor, LifeStutter DEF Next, Rest
  <1>3. QED
    BY <1>1, <1>2, Invariance, PTL DEF Spec, LifeSafety, Life!LifeSafety

-----------------------------------------------------------------------------
(***************************************************************************)
(* The clients: what becomes of the events they send, and what             *)
(* CloseAfterDrain and Settle promise when they return.                    *)
(***************************************************************************)

\* An event of a sender is followed, in that order, by those it sent later, and
\* is older than the one it is about to enqueue.
Before(e, f) == e.from = f.from => e.n < f.n
Fresh(e) ==
    /\ e.n <= sent[e.from]
    /\ cpc[e.from] \in {"send", "try"} => e.n < sent[e.from]

EventsOf(box) == {j \in DOMAIN box : box[j].kind = "event"}

OrderInv ==
    /\ HandledInOrder
    /\ \A i \in DOMAIN handled : Fresh(handled[i])
    /\ \A j \in EventsOf(mailbox) :
          /\ Fresh(mailbox[j].evt)
          /\ \A i \in DOMAIN handled : Before(handled[i], mailbox[j].evt)
          /\ \A i \in EventsOf(mailbox) : i < j => Before(mailbox[i].evt, mailbox[j].evt)

\* The events ahead of place k of a mailbox, and the places where client c has
\* its ping or sentinel.
Earlier(box, k) == {box[i].evt : i \in {j \in 1 .. (k - 1) : box[j].kind = "event"}}
Asks(box, c) == {k \in DOMAIN box : box[k].kind # "event" /\ box[k].by = c}

\* What a drain or settle is owed has been handled or is still waiting, and all
\* of it is ahead of the ping or sentinel.
BacklogInv ==
    \A c \in Drainer \cup Settler :
        /\ owed[c] \subseteq Handled \cup Waiting(mailbox)
        /\ \A k \in Asks(mailbox, c) : owed[c] \subseteq Handled \cup Earlier(mailbox, k)
        /\ cpc[c] \in {"idle", "enq"} => Asks(mailbox, c) = {}
        /\ c \in Drainer => \A k, l \in Asks(mailbox, c) : k = l

\* A ping was answered after what it waits for.
AckInv ==
    \A c \in Settler :
        /\ ack[c] # "none" => owed[c] \subseteq Handled /\ cpc[c] # "idle"
        /\ cpc[c] = "settled" => owed[c] \subseteq Handled

\* The actor has left its loop without a failure or a final state.  If nobody
\* asked for a hard stop, a drain found the mailbox empty.
Over == snap.status = "Stopped" \/ (pc = "stop" /\ snap.status = "Running")

OverInv ==
    /\ cancelled => hard \/ snap.status \in Terminal
    /\ Over /\ ~hard => \A c \in Drainer \ Unreached : owed[c] \subseteq Handled

ClientInv == IInv /\ OrderInv /\ BacklogInv /\ AckInv /\ OverInv

-----------------------------------------------------------------------------
(***************************************************************************)
(* What is done to the mailbox.                                            *)
(***************************************************************************)
\* The first item is taken, and given to the engine if it is an event ...
Taken ==
    /\ mailbox # <<>> /\ mailbox' = Tail(mailbox)
    /\ handled' = IF Head(mailbox).kind = "event"
                  THEN Append(handled, Head(mailbox).evt) ELSE handled

\* ... or one is added.
Added(item) == mailbox' = Append(mailbox, item) /\ handled' = handled

\* The places of a sequence without its head.
LEMMA TailPlaces ==
    ASSUME NEW S, NEW s \in Seq(S), s # <<>>
    PROVE  /\ Len(s) \in Nat /\ Len(s) > 0 /\ DOMAIN s = 1 .. Len(s)
           /\ Head(s) = s[1] /\ s[1] \in S
           /\ Tail(s) \in Seq(S) /\ DOMAIN Tail(s) = 1 .. (Len(s) - 1)
           /\ \A k \in DOMAIN Tail(s) : k + 1 \in DOMAIN s /\ Tail(s)[k] = s[k + 1]
  BY HeadTailProperties, LenProperties, EmptySeq

\* The places of a sequence with one more element.
LEMMA AppendPlaces ==
    ASSUME NEW S, NEW s \in Seq(S), NEW x \in S
    PROVE  /\ Len(s) \in Nat /\ DOMAIN s = 1 .. Len(s)
           /\ Append(s, x) \in Seq(S) /\ Len(Append(s, x)) = Len(s) + 1
           /\ DOMAIN Append(s, x) = 1 .. (Len(s) + 1)
           /\ \A k \in DOMAIN s : Append(s, x)[k] = s[k]
           /\ Append(s, x)[Len(s) + 1] = x
  BY AppendProperties, LenProperties

\* Of what was handled or waiting nothing is lost when an item is taken, and
\* everything ahead of a place stays ahead of it.
LEMMA TakenKeeps ==
    ASSUME TypeOK, Taken
    PROVE  /\ Handled \subseteq Handled'
           /\ Handled \cup Waiting(mailbox) \subseteq Handled' \cup Waiting(mailbox')
           /\ Earlier(mailbox, 1) = {}
           /\ \A k \in DOMAIN mailbox' :
                 /\ k + 1 \in DOMAIN mailbox /\ mailbox'[k] = mailbox[k + 1]
                 /\ Handled \cup Earlier(mailbox, k + 1)
                       \subseteq Handled' \cup Earlier(mailbox', k)
  <1>1. /\ Len(mailbox) \in Nat /\ Len(mailbox) > 0
        /\ DOMAIN mailbox = 1 .. Len(mailbox)
        /\ Head(mailbox) = mailbox[1] /\ mailbox[1] \in InboxItem
        /\ DOMAIN mailbox' = 1 .. (Len(mailbox) - 1)
        /\ \A k \in DOMAIN mailbox' : k + 1 \in DOMAIN mailbox
                                      /\ mailbox'[k] = mailbox[k + 1]
    BY TailPlaces DEF Taken, TypeOK
  <1>2. /\ Handled \subseteq Handled'
        /\ mailbox[1].kind = "event" => mailbox[1].evt \in Handled'
    <2>1. CASE mailbox[1].kind = "event"
      <3>1. mailbox[1].evt \in Event
        BY <1>1, <2>1 DEF InboxItem, EventItem, PingItem, DrainItem
      <3>2. /\ DOMAIN handled = 1 .. Len(handled) /\ Len(handled) \in Nat
            /\ DOMAIN handled' = 1 .. (Len(handled) + 1)
            /\ \A k \in DOMAIN handled : handled'[k] = handled[k]
            /\ handled'[Len(handled) + 1] = mailbox[1].evt
        BY <1>1, <2>1, <3>1, AppendPlaces DEF Taken, TypeOK
      <3>3. QED
        BY <3>2 DEF Handled
    <2>2. CASE mailbox[1].kind # "event"
      BY <1>1, <2>2 DEF Taken, Handled
    <2>3. QED
      BY <2>1, <2>2
  <1>3. \A k \in 1 .. Len(mailbox) :
            k = 1 \/ (k - 1 \in DOMAIN mailbox' /\ mailbox'[k - 1] = mailbox[k])
    BY <1>1
  <1>4. Waiting(mailbox) \subseteq Handled' \cup Waiting(mailbox')
    <2> SUFFICES ASSUME NEW i \in DOMAIN mailbox, mailbox[i].kind = "event",
                        i # 1
                 PROVE  mailbox[i].evt \in Waiting(mailbox')
      BY <1>2 DEF Waiting
    <2>1. i - 1 \in DOMAIN mailbox' /\ mailbox'[i - 1] = mailbox[i]
      BY <1>1, <1>3
    <2>2. QED
      BY <2>1 DEF Waiting
  <1>5. Earlier(mailbox, 1) = {}
    BY DEF Earlier
  <1>6. ASSUME NEW k \in DOMAIN mailbox'
        PROVE  Earlier(mailbox, k + 1) \subseteq Handled' \cup Earlier(mailbox', k)
    <2> SUFFICES ASSUME NEW i \in 1 .. k, mailbox[i].kind = "event", i # 1
                 PROVE  mailbox[i].evt \in Earlier(mailbox', k)
      BY <1>1, <1>2, <1>6 DEF Earlier
    <2>1. i - 1 \in 1 .. (k - 1) /\ mailbox'[i - 1] = mailbox[i]
      BY <1>1, <1>3
    <2>2. QED
      BY <2>1 DEF Earlier
  <1>7. QED
    BY <1>1, <1>2, <1>4, <1>5, <1>6

\* Adding an item changes nothing ahead of it, and all of the mailbox is.
LEMMA AddedKeeps ==
    ASSUME TypeOK, NEW item \in InboxItem, Added(item)
    PROVE  /\ Handled' = Handled /\ Len(mailbox) \in Nat
           /\ DOMAIN mailbox = 1 .. Len(mailbox)
           /\ DOMAIN mailbox' = 1 .. (Len(mailbox) + 1)
           /\ mailbox'[Len(mailbox) + 1] = item
           /\ Waiting(mailbox) \subseteq Waiting(mailbox')
           /\ Earlier(mailbox', Len(mailbox) + 1) = Waiting(mailbox)
           /\ \A k \in DOMAIN mailbox :
                 /\ mailbox'[k] = mailbox[k]
                 /\ Earlier(mailbox', k) = Earlier(mailbox, k)
  <1>1. /\ Len(mailbox) \in Nat /\ DOMAIN mailbox = 1 .. Len(mailbox)
        /\ DOMAIN mailbox' = 1 .. (Len(mailbox) + 1)
        /\ \A k \in DOMAIN mailbox : mailbox'[k] = mailbox[k]
        /\ mailbox'[Len(mailbox) + 1] = item
    BY AppendPlaces DEF Added, TypeOK
  <1>2. Handled' = Handled
    BY DEF Added, Handled
  <1>3. Waiting(mailbox) \subseteq Waiting(mailbox')
    <2>1. \A i \in DOMAIN mailbox : i \in DOMAIN mailbox' /\ mailbox'[i] = mailbox[i]
      BY <1>1
    <2>2. QED
      BY <2>1 DEF Waiting
  <1>4. \A k \in DOMAIN mailbox : Earlier(mailbox', k) = Earlier(mailbox, k)
    <2> TAKE k \in DOMAIN mailbox
    <2>1. \A i \in 1 .. (k - 1) : mailbox'[i] = mailbox[i]
      BY <1>1
    <2>2. QED
      BY <2>1 DEF Earlier
  <1>5. Earlier(mailbox', Len(mailbox) + 1) = Waiting(mailbox)
    <2>1. 1 .. ((Len(mailbox) + 1) - 1) = DOMAIN mailbox
      BY <1>1
    <2>2. QED
      BY <1>1, <2>1 DEF Earlier, Waiting
  <1>6. QED
    BY <1>1, <1>2, <1>3, <1>4, <1>5

-----------------------------------------------------------------------------
(***************************************************************************)
(* What a step does to the clients.                                        *)
(***************************************************************************)
\* It leaves the mailbox alone, and no client comes to a place from which it
\* sends, asks or has been answered, but in the ways named here.
Quiet ==
    /\ UNCHANGED <<mailbox, handled, sent, ack, owed>>
    /\ \A c \in Client :
          \/ cpc'[c] = cpc[c]
          \/ cpc'[c] \notin {"idle", "send", "try", "enq", "settled"}
          \/ c \in Sender /\ cpc'[c] = "idle"
          \/ c \in Drainer /\ cpc[c] = "idle" /\ cpc'[c] = "enq"
          \/ c \in Settler /\ ack[c] = "idle" /\ cpc'[c] = "settled"

\* Or a call begins, an item is added, or one is taken.
Asking ==
    \/ \E c \in Sender : SendCall(c) \/ TrySendCall(c) \/ SendEnqueue(c)
    \/ \E c \in Drainer : DrainEnqueue(c)
    \/ \E c \in Settler : SettleCall(c) \/ SettlePing(c)

Answering ==
    \/ LoopEvent \/ LoopPing \/ DrainEvent \/ DrainPing
    \/ LoopDrainClose \/ DrainSentinel

LEMMA GoQuiet ==
    ASSUME TypeOK, NEW c \in Client, NEW from,
           NEW to \in {"idle", "nil", "enq", "ping", "settled", "ret", "err"},
           Go(c, from, to),
           to = "idle" => c \in Sender,
           to = "enq" => c \in Drainer /\ cpc[c] = "idle",
           to = "settled" => c \in Settler /\ ack[c] = "idle"
    PROVE  Quiet
  <1>1. \A d \in Client : cpc'[d] = IF d = c THEN to ELSE cpc[d]
    BY DEF Go, TypeOK
  <1>2. UNCHANGED <<mailbox, handled, sent, ack, owed>>
    BY DEF Go
  <1>3. QED
    BY <1>1, <1>2 DEF Quiet

LEMMA Classes == TypeOK /\ [Next]_vars => Quiet \/ Asking \/ Answering
  <1> SUFFICES ASSUME TypeOK, [Next]_vars PROVE Quiet \/ Asking \/ Answering
    OBVIOUS
  <1> USE DEF clientVars
  <1>1. ASSUME UNCHANGED <<mailbox, handled, clientVars>> PROVE Quiet
    BY <1>1 DEF Quiet
  <1>2. CASE Actor
    BY <1>1, <1>2
       DEF Answering, Actor, MakeChannels, Stage, ObserversApprove, ObserversAbort,
           AlwaysLoop, Quiescent, Notify, Notified, LoopCancelled, LoopSubscribe,
           LoopUnsubscribe, DrainEmpty, Shutdown, CloseChannels
  <1>3. CASE \E s \in Sub : Delivery(s)
    BY <1>1, <1>3 DEF Delivery, SubscribeStopped, Deliver, FnReturns, SeeClosed,
                      SeeQuit, UnsubDone, Flush, Flushed, Move
  <1>4. ASSUME NEW c \in Sender, SenderStep(c) \/ SendGiveUp(c) PROVE Quiet \/ Asking
    <2>1. CASE SendEnqueue(c)
      BY <2>1 DEF Asking
    <2>2. CASE SendStopped(c) \/ TrySendFull(c) \/ SendGiveUp(c)
      BY <2>2, GoQuiet DEF SendStopped, TrySendFull, SendGiveUp, Client
    <2>3. QED
      BY <1>4, <2>1, <2>2 DEF SenderStep
  <1>5. ASSUME NEW c \in Closer, CloserStep(c) \/ CloseCall(c) PROVE Quiet
    <2>1. CASE CloserStep(c)
      BY <2>1, GoQuiet DEF CloserStep, CloseReturn, Client
    <2>2. CASE CloseCall(c)
      BY <2>2 DEF CloseCall, Quiet, TypeOK, Client
    <2>3. QED
      BY <1>5, <2>1, <2>2
  <1>6. ASSUME NEW c \in Drainer, DrainerStep(c) \/ DrainCall(c) \/ DrainGiveUp(c)
        PROVE  Quiet \/ Asking
    <2>1. CASE DrainEnqueue(c)
      BY <2>1 DEF Asking
    <2>2. CASE DrainStopped(c) \/ HardCloseReturn(c)
      BY <2>2, GoQuiet DEF DrainStopped, HardCloseReturn, Client
    <2>3. CASE DrainCall(c)
      <3>1. PICK to \in {"ret", "nil", "enq"} : Go(c, {"idle"}, to)
        BY <2>3 DEF DrainCall, Enter
      <3>2. cpc[c] = "idle"
        BY <3>1 DEF Go
      <3>3. QED
        BY <3>1, <3>2, GoQuiet DEF Client
    <2>4. CASE DrainGiveUp(c)
      BY <2>4 DEF DrainGiveUp, Quiet, TypeOK, Client
    <2>5. QED
      BY <1>6, <2>1, <2>2, <2>3, <2>4 DEF DrainerStep
  <1>7. ASSUME NEW c \in Settler, SettlerStep(c) \/ SettleGiveUp(c)
        PROVE  Quiet \/ Asking
    <2>1. CASE SettlePing(c)
      BY <2>1 DEF Asking
    <2>2. CASE SettleAgain(c) \/ SettleIdle(c) \/ SettleStopped(c) \/ SettleGiveUp(c)
      BY <2>2, GoQuiet DEF SettleAgain, SettleIdle, SettleStopped, SettleGiveUp, Client
    <2>3. QED
      BY <1>7, <2>1, <2>2 DEF SettlerStep
  <1>8. CASE Environment
    <2>1. CASE Start \/ ParentCancel \/ \E s \in Sub : Subscribe(s) \/ CancelSub(s)
      BY <1>1, <2>1 DEF Start, ParentCancel, Subscribe, CancelSub
    <2>2. QED
      BY <1>4, <1>5, <1>6, <1>7, <1>8, <2>1 DEF Environment, Asking
  <1>9. CASE UNCHANGED vars
    BY <1>1, <1>9 DEF vars
  <1>10. QED
    BY <1>2, <1>3, <1>4, <1>5, <1>6, <1>7, <1>8, <1>9 DEF Next, Rest

\* What is taken by each of the steps that answer.
LEMMA AnsweringTakes ==
    ASSUME TypeOK, Answering
    PROVE  /\ Taken /\ UNCHANGED <<cpc, sent>>
           /\ pc \in {"select", "drain"}
           /\ \/ UNCHANGED <<ack, owed>>
              \/ /\ Head(mailbox).kind = "ping" /\ UNCHANGED owed
                 /\ \E reply \in {"idle", "busy"} :
                       ack' = [ack EXCEPT ![Head(mailbox).by] = reply]
              \/ /\ Head(mailbox).kind = "drainClose" /\ UNCHANGED ack
                 /\ owed' = [owed EXCEPT ![Head(mailbox).by] = @ \cup Waiting(mailbox)]
  <1> USE DEF Take, Taken, clientVars
  <1>1. CASE LoopEvent \/ DrainEvent
    BY <1>1 DEF LoopEvent, DrainEvent, TakeEvent
  <1>2. ASSUME NEW idle \in BOOLEAN, Answer(idle)
        PROVE  /\ Taken /\ UNCHANGED <<cpc, sent, owed>>
               /\ Head(mailbox).kind = "ping"
               /\ \E reply \in {"idle", "busy"} :
                     ack' = [ack EXCEPT ![Head(mailbox).by] = reply]
    BY <1>2 DEF Answer
  <1>3. CASE LoopPing \/ DrainPing
    BY <1>2, <1>3 DEF LoopPing, DrainPing
  <1>4. CASE LoopDrainClose
    BY <1>4 DEF LoopDrainClose
  <1>5. CASE DrainSentinel
    BY <1>5 DEF DrainSentinel
  <1>6. QED
    BY <1>1, <1>3, <1>4, <1>5 DEF Answering

-----------------------------------------------------------------------------
(***************************************************************************)
(* Every sender's events stay in order.                                    *)
(***************************************************************************)
\* What was handled and what waits are events.
LEMMA EventTypes ==
    ASSUME TypeOK
    PROVE  /\ \A i \in DOMAIN handled : handled[i] \in Event
           /\ \A j \in DOMAIN mailbox : mailbox[j] \in InboxItem
           /\ \A j \in EventsOf(mailbox) : mailbox[j].evt \in Event
  <1>1. \A i \in DOMAIN handled : handled[i] \in Event
    <2>1. handled \in Seq(Event)
      BY DEF TypeOK
    <2>2. QED
      BY <2>1, LenProperties
  <1>2. \A j \in DOMAIN mailbox : mailbox[j] \in InboxItem
    <2>1. mailbox \in Seq(InboxItem)
      BY DEF TypeOK
    <2>2. QED
      BY <2>1, LenProperties
  <1>3. \A j \in EventsOf(mailbox) : mailbox[j].evt \in Event
    BY <1>2 DEF EventsOf, InboxItem, EventItem, PingItem, DrainItem
  <1>4. QED
    BY <1>1, <1>2, <1>3

\* The next step of a sender's call keeps every event older than its own.
LEMMA OrderQuiet ==
    ASSUME TypeOK, OrderInv, UNCHANGED <<mailbox, handled>>,
           \A c \in Sender : \/ sent'[c] = sent[c] + 1
                             \/ /\ sent'[c] = sent[c]
                                /\ cpc'[c] \in {"send", "try"} => cpc'[c] = cpc[c]
    PROVE  OrderInv'
  <1>1. ASSUME NEW e \in Event, Fresh(e) PROVE Fresh(e)'
    <2>1. e.from \in Sender /\ e.n \in Nat /\ sent[e.from] \in Nat
      BY DEF Event, TypeOK
    <2>2. QED
      BY <1>1, <2>1 DEF Fresh
  <1>2. QED
    BY <1>1, EventTypes DEF OrderInv, HandledInOrder, Before, EventsOf

LEMMA OrderAsking == TypeOK /\ OrderInv /\ Asking => OrderInv'
  <1> SUFFICES ASSUME TypeOK, OrderInv, Asking PROVE OrderInv'
    OBVIOUS
  <1>1. ASSUME NEW c \in Sender, SendCall(c) \/ TrySendCall(c) PROVE OrderInv'
    <2>1. /\ UNCHANGED <<mailbox, handled>>
          /\ \A d \in Sender : sent'[d] = IF d = c THEN sent[d] + 1 ELSE sent[d]
          /\ \A d \in Sender \ {c} : cpc'[d] = cpc[d]
      BY <1>1 DEF SendCall, TrySendCall, TypeOK, Client
    <2>2. QED
      BY <2>1, OrderQuiet
  <1>2. ASSUME NEW item \in InboxItem, item.kind # "event", Added(item),
               UNCHANGED sent,
               \A c \in Sender : cpc'[c] = cpc[c]
        PROVE  OrderInv'
    <2>1. /\ Len(mailbox) \in Nat /\ DOMAIN mailbox = 1 .. Len(mailbox)
          /\ DOMAIN mailbox' = 1 .. (Len(mailbox) + 1)
          /\ mailbox'[Len(mailbox) + 1] = item
          /\ \A k \in DOMAIN mailbox : mailbox'[k] = mailbox[k]
      BY <1>2, AddedKeeps
    <2>2. /\ EventsOf(mailbox') = EventsOf(mailbox)
          /\ \A j \in EventsOf(mailbox) : mailbox'[j] = mailbox[j]
      BY <1>2, <2>1 DEF EventsOf
    <2>3. /\ \A i \in DOMAIN handled : handled[i] \in Event
          /\ \A j \in EventsOf(mailbox) : mailbox[j].evt \in Event
      BY EventTypes
    <2>4. \A e \in Event : Fresh(e) => Fresh(e)'
      BY <1>2 DEF Fresh, Event
    <2>5. UNCHANGED handled
      BY <1>2 DEF Added
    <2>6. QED
      BY <2>2, <2>3, <2>4, <2>5 DEF OrderInv, HandledInOrder, Before
  <1>3. ASSUME NEW c \in Sender, SendEnqueue(c) PROVE OrderInv'
    <2> DEFINE new  == [from |-> c, n |-> sent[c]]
               item == [kind |-> "event", evt |-> new]
               last == Len(mailbox) + 1
               NowFresh(e) == /\ e.n <= sent'[e.from]
                              /\ cpc'[e.from] \in {"send", "try"} => e.n < sent'[e.from]
    <2>1. new \in Event /\ item \in InboxItem /\ item.evt = new /\ item.kind = "event"
      BY DEF Event, EventItem, InboxItem, TypeOK
    <2>2. /\ cpc[c] \in {"send", "try"} /\ Added(item) /\ UNCHANGED <<sent, handled>>
          /\ \A d \in Sender : cpc'[d] = IF d = c THEN "idle" ELSE cpc[d]
      BY <1>3 DEF SendEnqueue, Added, TypeOK, Client
    <2>3. /\ Len(mailbox) \in Nat /\ DOMAIN mailbox = 1 .. Len(mailbox)
          /\ DOMAIN mailbox' = 1 .. last /\ mailbox'[last] = item
          /\ \A k \in DOMAIN mailbox : mailbox'[k] = mailbox[k]
      BY <2>1, <2>2, AddedKeeps
    <2>4. /\ \A i \in DOMAIN handled : handled[i] \in Event
          /\ \A j \in EventsOf(mailbox) : mailbox[j].evt \in Event
      BY EventTypes
    <2>5. ASSUME NEW e \in Event, Fresh(e)
          PROVE  NowFresh(e) /\ Before(e, new)
      <3>1. e.from \in Sender /\ e.n \in Nat /\ sent[e.from] \in Nat
        BY DEF Event, TypeOK
      <3>2. QED
        BY <2>2, <2>5, <3>1 DEF Fresh, Before
    <2>6. NowFresh(new)
      BY <2>2 DEF TypeOK
    <2> HIDE DEF new, item, last
    <2>7. \A j \in EventsOf(mailbox') :
              \/ j \in EventsOf(mailbox) /\ mailbox'[j] = mailbox[j] /\ j < last
              \/ j = last /\ mailbox'[j].evt = new
      BY <2>1, <2>3 DEF EventsOf, last
    <2>8. \A i, j \in EventsOf(mailbox') :
              i < j => i \in EventsOf(mailbox) /\ mailbox'[i] = mailbox[i]
      BY <2>3, <2>7 DEF EventsOf, last
    <2>9. HandledInOrder' /\ \A i \in DOMAIN handled : NowFresh(handled[i])
      BY <2>2, <2>4, <2>5 DEF OrderInv, HandledInOrder
    <2>10. \A j \in EventsOf(mailbox') :
               /\ NowFresh(mailbox'[j].evt)
               /\ \A i \in DOMAIN handled : Before(handled[i], mailbox'[j].evt)
               /\ \A i \in EventsOf(mailbox') :
                     i < j => Before(mailbox'[i].evt, mailbox'[j].evt)
      <3> TAKE j \in EventsOf(mailbox')
      <3>1. CASE j \in EventsOf(mailbox) /\ mailbox'[j] = mailbox[j]
        <4>1. \A i \in EventsOf(mailbox') :
                  i < j => Before(mailbox'[i].evt, mailbox'[j].evt)
          BY <2>8, <3>1 DEF OrderInv
        <4>2. NowFresh(mailbox'[j].evt)
          BY <2>4, <2>5, <3>1 DEF OrderInv
        <4>3. \A i \in DOMAIN handled : Before(handled[i], mailbox'[j].evt)
          BY <3>1 DEF OrderInv
        <4>4. QED
          BY <4>1, <4>2, <4>3
      <3>2. CASE j = last /\ mailbox'[j].evt = new
        <4>1. \A i \in EventsOf(mailbox') : i < j => Before(mailbox'[i].evt, new)
          BY <2>4, <2>5, <2>8, <3>2 DEF OrderInv
        <4>2. \A i \in DOMAIN handled : Before(handled[i], new)
          BY <2>4, <2>5 DEF OrderInv
        <4>3. QED
          BY <2>6, <3>2, <4>1, <4>2
      <3>3. QED
        BY <2>7, <3>1, <3>2
    <2>11. QED
      BY <2>2, <2>9, <2>10 DEF OrderInv, Before, Fresh
  <1>4. ASSUME NEW c \in Drainer, DrainEnqueue(c) PROVE OrderInv'
    <2>1. [kind |-> "drainClose", by |-> c] \in InboxItem
      BY DEF InboxItem, DrainItem
    <2>2. UNCHANGED sent /\ \A d \in Sender : cpc'[d] = cpc[d]
      BY <1>4, ClientAssumption DEF DrainEnqueue
    <2>3. Added([kind |-> "drainClose", by |-> c])
      BY <1>4 DEF DrainEnqueue, Added
    <2>4. QED
      BY <1>2, <2>1, <2>2, <2>3
  <1>5. ASSUME NEW c \in Settler, SettlePing(c) PROVE OrderInv'
    <2>1. [kind |-> "ping", by |-> c] \in InboxItem
      BY DEF InboxItem, PingItem
    <2>2. UNCHANGED sent /\ \A d \in Sender : cpc'[d] = cpc[d]
      BY <1>5, ClientAssumption DEF SettlePing
    <2>3. Added([kind |-> "ping", by |-> c])
      BY <1>5 DEF SettlePing, Added
    <2>4. QED
      BY <1>2, <2>1, <2>2, <2>3
  <1>6. ASSUME NEW c \in Settler, SettleCall(c) PROVE OrderInv'
    <2>1. /\ UNCHANGED <<mailbox, handled, sent>>
          /\ \A d \in Sender : cpc'[d] = cpc[d]
      BY <1>6, ClientAssumption DEF SettleCall
    <2>2. QED
      BY <2>1, OrderQuiet
  <1>7. QED
    BY <1>1, <1>3, <1>4, <1>5, <1>6 DEF Asking

\* The item taken was ahead of all the others.
LEMMA OrderAnswering == TypeOK /\ OrderInv /\ Answering => OrderInv'
  <1> SUFFICES ASSUME TypeOK, OrderInv, Answering PROVE OrderInv'
    OBVIOUS
  <1>1. Taken /\ UNCHANGED <<cpc, sent>>
    BY AnsweringTakes
  <1>2. /\ DOMAIN mailbox = 1 .. Len(mailbox) /\ Len(mailbox) \in Nat /\ Len(mailbox) > 0
        /\ Head(mailbox) = mailbox[1] /\ mailbox[1] \in InboxItem
        /\ DOMAIN mailbox' = 1 .. (Len(mailbox) - 1)
        /\ \A k \in DOMAIN mailbox' : k + 1 \in DOMAIN mailbox
                                      /\ mailbox'[k] = mailbox[k + 1]
    BY <1>1, TailPlaces DEF Taken, TypeOK
  <1>3. \A e : Fresh(e)' <=> Fresh(e)
    BY <1>1 DEF Fresh
  <1>4. \A j \in EventsOf(mailbox') :
            j \in Nat /\ j + 1 \in EventsOf(mailbox) /\ mailbox'[j] = mailbox[j + 1]
    BY <1>2 DEF EventsOf
  <1>5. \A i, j \in EventsOf(mailbox') :
            i < j => Before(mailbox'[i].evt, mailbox'[j].evt)
    <2> TAKE i, j \in EventsOf(mailbox')
    <2>1. i < j => i + 1 < j + 1
      BY <1>4
    <2>2. QED
      BY <1>4, <2>1 DEF OrderInv
  <1>6. \A j \in EventsOf(mailbox') :
            /\ Fresh(mailbox'[j].evt)
            /\ \A i \in DOMAIN handled : Before(handled[i], mailbox'[j].evt)
    BY <1>4 DEF OrderInv
  <1>7. CASE mailbox[1].kind # "event"
    <2>1. UNCHANGED handled
      BY <1>1, <1>2, <1>7 DEF Taken
    <2>2. QED
      BY <1>3, <1>5, <1>6, <2>1 DEF OrderInv, HandledInOrder, Before
  <1>8. CASE mailbox[1].kind = "event"
    <2> DEFINE new == mailbox[1].evt
    <2>1. new \in Event
      BY <1>2, <1>8 DEF InboxItem, EventItem, PingItem, DrainItem
    <2>2. /\ DOMAIN handled = 1 .. Len(handled) /\ Len(handled) \in Nat
          /\ DOMAIN handled' = 1 .. (Len(handled) + 1)
          /\ \A k \in DOMAIN handled : handled'[k] = handled[k]
          /\ handled'[Len(handled) + 1] = new
      BY <1>1, <1>2, <1>8, <2>1, AppendPlaces DEF Taken, TypeOK
    <2>3. 1 \in EventsOf(mailbox)
      BY <1>2, <1>8 DEF EventsOf
    <2>4. /\ Fresh(new) /\ \A i \in DOMAIN handled : Before(handled[i], new)
          /\ \A j \in EventsOf(mailbox') : Before(new, mailbox'[j].evt)
      <3>1. \A j \in EventsOf(mailbox') : 1 < j + 1
        BY <1>2 DEF EventsOf
      <3>2. QED
        BY <1>4, <2>3, <3>1 DEF OrderInv
    <2> HIDE DEF new
    <2>5. HandledInOrder'
      <3> SUFFICES ASSUME NEW i \in DOMAIN handled', NEW j \in DOMAIN handled', i < j
                   PROVE  Before(handled'[i], handled'[j])
        BY DEF HandledInOrder, Before
      <3>1. i \in DOMAIN handled
        BY <2>2
      <3>2. CASE j \in DOMAIN handled
        BY <2>2, <3>1, <3>2 DEF OrderInv, HandledInOrder, Before
      <3>3. CASE j = Len(handled) + 1
        BY <2>2, <2>4, <3>1, <3>3
      <3>4. QED
        BY <2>2, <3>2, <3>3
    <2>6. \A i \in DOMAIN handled' : Fresh(handled'[i])
      BY <2>2, <2>4 DEF OrderInv
    <2>7. \A j \in EventsOf(mailbox') : \A i \in DOMAIN handled' :
              Before(handled'[i], mailbox'[j].evt)
      BY <1>6, <2>2, <2>4
    <2>8. QED
      BY <1>3, <1>5, <1>6, <2>5, <2>6, <2>7 DEF OrderInv, Before
  <1>9. QED
    BY <1>7, <1>8

LEMMA OrderStep == TypeOK /\ OrderInv /\ [Next]_vars => OrderInv'
  <1> SUFFICES ASSUME TypeOK, OrderInv, [Next]_vars PROVE OrderInv'
    OBVIOUS
  <1>1. CASE Quiet
    <2>1. /\ UNCHANGED <<mailbox, handled, sent>>
          /\ \A c \in Sender : cpc'[c] \in {"send", "try"} => cpc'[c] = cpc[c]
      BY <1>1, ClientAssumption DEF Quiet, Client
    <2>2. QED
      BY <2>1, OrderQuiet
  <1>2. QED
    BY <1>1, Classes, OrderAsking, OrderAnswering

-----------------------------------------------------------------------------
(***************************************************************************)
(* What is owed to a drain or a settle stays ahead of it.                  *)
(***************************************************************************)
LEMMA BacklogQuiet == BacklogInv /\ Quiet => BacklogInv'
  <1> SUFFICES ASSUME BacklogInv, Quiet, NEW c \in Drainer \cup Settler
               PROVE  cpc'[c] \in {"idle", "enq"} => cpc[c] \in {"idle", "enq"}
    BY DEF BacklogInv, Quiet, Handled
  <1>1. QED
    BY ClientAssumption DEF Quiet, Client

\* An item is added: what is ahead of its place is all that waits.
LEMMA BacklogAdded ==
    ASSUME TypeOK, BacklogInv, NEW item \in InboxItem, Added(item),
           \A d \in Drainer \cup Settler :
              /\ \/ owed'[d] = owed[d]
                 \/ owed'[d] = Waiting(mailbox) /\ Asks(mailbox, d) = {}
              /\ cpc'[d] \in {"idle", "enq"} =>
                    cpc'[d] = cpc[d] /\ (item.kind = "event" \/ item.by # d)
              /\ d \in Drainer /\ item.kind # "event" /\ item.by = d =>
                    Asks(mailbox, d) = {}
    PROVE  BacklogInv'
  <1> DEFINE last == Len(mailbox) + 1
  <1>1. /\ Handled' = Handled /\ Len(mailbox) \in Nat
        /\ DOMAIN mailbox = 1 .. Len(mailbox) /\ DOMAIN mailbox' = 1 .. last
        /\ mailbox'[last] = item /\ Waiting(mailbox) \subseteq Waiting(mailbox')
        /\ Earlier(mailbox', last) = Waiting(mailbox)
        /\ \A k \in DOMAIN mailbox :
              mailbox'[k] = mailbox[k] /\ Earlier(mailbox', k) = Earlier(mailbox, k)
    BY AddedKeeps
  <1> HIDE DEF last
  <1>2. \A d : Asks(mailbox', d) \subseteq Asks(mailbox, d) \cup
                  (IF item.kind # "event" /\ item.by = d THEN {last} ELSE {})
    <2>1. \A k \in DOMAIN mailbox' : k = last \/ k \in DOMAIN mailbox
      BY <1>1 DEF last
    <2>2. QED
      BY <1>1, <2>1 DEF Asks
  <1> SUFFICES ASSUME NEW c \in Drainer \cup Settler
               PROVE  /\ owed'[c] \subseteq Handled \cup Waiting(mailbox')
                      /\ \A k \in Asks(mailbox', c) :
                            owed'[c] \subseteq Handled \cup Earlier(mailbox', k)
                      /\ cpc'[c] \in {"idle", "enq"} => Asks(mailbox', c) = {}
                      /\ c \in Drainer => \A k, l \in Asks(mailbox', c) : k = l
    BY <1>1 DEF BacklogInv
  <1>3. owed'[c] \subseteq Handled \cup Waiting(mailbox)
    BY DEF BacklogInv
  <1>4. \A k \in Asks(mailbox', c) :
            owed'[c] \subseteq Handled \cup Earlier(mailbox', k)
    <2> TAKE k \in Asks(mailbox', c)
    <2>1. CASE k = last
      BY <1>1, <1>3, <2>1
    <2>2. CASE k \in Asks(mailbox, c)
      <3>1. k \in DOMAIN mailbox /\ owed'[c] = owed[c]
        BY <2>2 DEF Asks
      <3>2. QED
        BY <1>1, <2>2, <3>1 DEF BacklogInv
    <2>3. QED
      BY <1>2, <2>1, <2>2
  <1>5. cpc'[c] \in {"idle", "enq"} => Asks(mailbox', c) = {}
    BY <1>2 DEF BacklogInv
  <1>6. c \in Drainer => \A k, l \in Asks(mailbox', c) : k = l
    BY <1>2 DEF BacklogInv
  <1>7. QED
    BY <1>1, <1>3, <1>4, <1>5, <1>6

LEMMA BacklogAsking == TypeOK /\ BacklogInv /\ Asking => BacklogInv'
  <1> SUFFICES ASSUME TypeOK, BacklogInv, Asking PROVE BacklogInv'
    OBVIOUS
  <1>1. ASSUME NEW c \in Sender, SendCall(c) \/ TrySendCall(c) PROVE BacklogInv'
    <2>1. /\ UNCHANGED <<mailbox, handled, owed>>
          /\ \A d \in Drainer \cup Settler : cpc'[d] = cpc[d]
      BY <1>1, ClientAssumption DEF SendCall, TrySendCall, TypeOK, Client
    <2>2. QED
      BY <2>1 DEF BacklogInv, Handled
  <1>2. ASSUME NEW c \in Sender, SendEnqueue(c) PROVE BacklogInv'
    <2> DEFINE item == [kind |-> "event", evt |-> [from |-> c, n |-> sent[c]]]
    <2>1. item \in InboxItem /\ item.kind = "event" /\ Added(item)
      BY <1>2 DEF Event, EventItem, InboxItem, TypeOK, SendEnqueue, Added
    <2>2. UNCHANGED owed /\ \A d \in Drainer \cup Settler : cpc'[d] = cpc[d]
      BY <1>2, ClientAssumption DEF SendEnqueue
    <2> HIDE DEF item
    <2>3. QED
      BY <2>1, <2>2, BacklogAdded
  <1>3. ASSUME NEW c \in Drainer, DrainEnqueue(c) PROVE BacklogInv'
    <2> DEFINE item == [kind |-> "drainClose", by |-> c]
    <2>1. item \in InboxItem /\ item.by = c /\ Added(item)
      BY <1>3 DEF DrainItem, InboxItem, DrainEnqueue, Added
    <2>2. /\ \A d \in Drainer \cup Settler :
                /\ owed'[d] = IF d = c THEN Waiting(mailbox) ELSE owed[d]
                /\ cpc'[d] = IF d = c THEN "drainwait" ELSE cpc[d]
          /\ cpc[c] = "enq"
      BY <1>3 DEF DrainEnqueue, TypeOK, Client
    <2>3. Asks(mailbox, c) = {}
      BY <2>2 DEF BacklogInv
    <2> HIDE DEF item
    <2>4. QED
      BY <2>1, <2>2, <2>3, BacklogAdded
  <1>4. ASSUME NEW c \in Settler, SettlePing(c) PROVE BacklogInv'
    <2> DEFINE item == [kind |-> "ping", by |-> c]
    <2>1. item \in InboxItem /\ item.by = c /\ Added(item) /\ c \notin Drainer
      BY <1>4, ClientAssumption DEF PingItem, InboxItem, SettlePing, Added
    <2>2. /\ UNCHANGED owed
          /\ \A d \in Drainer \cup Settler :
                cpc'[d] = IF d = c THEN "pong" ELSE cpc[d]
      BY <1>4 DEF SettlePing, TypeOK, Client
    <2> HIDE DEF item
    <2>3. QED
      BY <2>1, <2>2, BacklogAdded
  <1>5. ASSUME NEW c \in Settler, SettleCall(c) PROVE BacklogInv'
    <2>1. /\ UNCHANGED <<mailbox, handled>> /\ cpc[c] = "idle"
          /\ \A d \in Drainer \cup Settler :
                /\ owed'[d] = IF d = c THEN Waiting(mailbox) ELSE owed[d]
                /\ d # c => cpc'[d] = cpc[d]
      BY <1>5 DEF SettleCall, TypeOK, Client
    <2>2. Asks(mailbox, c) = {}
      BY <2>1 DEF BacklogInv
    <2>3. QED
      BY <2>1, <2>2 DEF BacklogInv, Handled
  <1>6. QED
    BY <1>1, <1>2, <1>3, <1>4, <1>5 DEF Asking

LEMMA BacklogAnswering == TypeOK /\ BacklogInv /\ Answering => BacklogInv'
  <1> SUFFICES ASSUME TypeOK, BacklogInv, Answering PROVE BacklogInv'
    OBVIOUS
  <1>1. Taken /\ UNCHANGED cpc
    BY AnsweringTakes
  <1>2. /\ Handled \subseteq Handled'
        /\ Handled \cup Waiting(mailbox) \subseteq Handled' \cup Waiting(mailbox')
        /\ \A k \in DOMAIN mailbox' :
              /\ k \in Nat
              /\ k + 1 \in DOMAIN mailbox /\ mailbox'[k] = mailbox[k + 1]
              /\ Handled \cup Earlier(mailbox, k + 1)
                    \subseteq Handled' \cup Earlier(mailbox', k)
    BY <1>1, TakenKeeps, TailPlaces DEF Taken, TypeOK
  <1>3. \A d : \A k \in Asks(mailbox', d) : k \in Nat /\ k + 1 \in Asks(mailbox, d)
    BY <1>2 DEF Asks
  <1>4. ASSUME NEW c \in Drainer \cup Settler
        PROVE  \/ owed'[c] = owed[c]
               \/ /\ owed'[c] = owed[c] \cup Waiting(mailbox)
                  /\ Asks(mailbox', c) = {}
    <2>1. CASE UNCHANGED owed
      BY <2>1
    <2>2. CASE /\ Head(mailbox).kind = "drainClose"
               /\ owed' = [owed EXCEPT ![Head(mailbox).by] = @ \cup Waiting(mailbox)]
               /\ c = Head(mailbox).by
      <3>1. c \in Drainer
        BY <1>1, <2>2, HeadType DEF Taken, TypeOK
      <3>2. 1 \in Asks(mailbox, c)
        BY <1>1, <2>2, TailPlaces DEF Taken, TypeOK, Asks
      <3>3. \A k \in Asks(mailbox', c) : k + 1 # 1 /\ k \in DOMAIN mailbox' /\ k + 1 = 1
        <4>1. \A k \in Asks(mailbox', c) : k \in DOMAIN mailbox' /\ k > 0
          BY <1>1, TailPlaces DEF Asks, Taken, TypeOK
        <4>2. QED
          BY <1>3, <3>1, <3>2, <4>1 DEF BacklogInv
      <3>4. QED
        BY <2>2, <3>3 DEF TypeOK
    <2>3. CASE /\ owed' = [owed EXCEPT ![Head(mailbox).by] = @ \cup Waiting(mailbox)]
               /\ c # Head(mailbox).by
      BY <2>3 DEF TypeOK
    <2>4. QED
      BY <2>1, <2>2, <2>3, AnsweringTakes
  <1> SUFFICES ASSUME NEW c \in Drainer \cup Settler
               PROVE  /\ owed'[c] \subseteq Handled' \cup Waiting(mailbox')
                      /\ \A k \in Asks(mailbox', c) :
                            owed'[c] \subseteq Handled' \cup Earlier(mailbox', k)
                      /\ cpc'[c] \in {"idle", "enq"} => Asks(mailbox', c) = {}
                      /\ c \in Drainer => \A k, l \in Asks(mailbox', c) : k = l
    BY DEF BacklogInv
  <1>5. owed'[c] \subseteq Handled' \cup Waiting(mailbox')
    BY <1>2, <1>4 DEF BacklogInv
  <1>6. \A k \in Asks(mailbox', c) : owed'[c] \subseteq Handled' \cup Earlier(mailbox', k)
    <2> TAKE k \in Asks(mailbox', c)
    <2>1. /\ k \in DOMAIN mailbox' /\ owed'[c] = owed[c]
          /\ owed[c] \subseteq Handled \cup Earlier(mailbox, k + 1)
      BY <1>3, <1>4 DEF Asks, BacklogInv
    <2>2. QED
      BY <1>2, <2>1
  <1>7. cpc'[c] \in {"idle", "enq"} => Asks(mailbox', c) = {}
    BY <1>1, <1>3 DEF BacklogInv
  <1>8. c \in Drainer => \A k, l \in Asks(mailbox', c) : k = l
    <2> SUFFICES ASSUME c \in Drainer, NEW k \in Asks(mailbox', c),
                        NEW l \in Asks(mailbox', c)
                 PROVE  k = l
      OBVIOUS
    <2>1. k + 1 = l + 1 /\ k \in Nat /\ l \in Nat
      BY <1>3 DEF BacklogInv
    <2>2. QED
      BY <2>1
  <1>9. QED
    BY <1>5, <1>6, <1>7, <1>8

LEMMA BacklogStep == TypeOK /\ BacklogInv /\ [Next]_vars => BacklogInv'
  BY Classes, BacklogQuiet, BacklogAsking, BacklogAnswering

\* The actor answers a ping when everything ahead of it has been handled.
LEMMA AckStep == TypeOK /\ BacklogInv /\ AckInv /\ [Next]_vars => AckInv'
  <1> SUFFICES ASSUME TypeOK, BacklogInv, AckInv, [Next]_vars, NEW c \in Settler
               PROVE  /\ ack'[c] # "none" => owed'[c] \subseteq Handled' /\ cpc'[c] # "idle"
                      /\ cpc'[c] = "settled" => owed'[c] \subseteq Handled'
    BY DEF AckInv
  <1>1. CASE Quiet
    <2>1. /\ UNCHANGED <<ack, owed>> /\ Handled' = Handled
          /\ cpc'[c] = "idle" => cpc[c] = "idle"
          /\ cpc'[c] = "settled" => cpc[c] = "settled" \/ ack[c] = "idle"
      BY <1>1, ClientAssumption DEF Quiet, Client, Handled
    <2>2. QED
      BY <2>1 DEF AckInv
  <1>2. CASE Asking
    <2>1. CASE \/ \E d \in Sender : SendCall(d) \/ TrySendCall(d) \/ SendEnqueue(d)
               \/ \E d \in Drainer : DrainEnqueue(d)
      <3>1. /\ UNCHANGED <<ack, handled>> /\ cpc'[c] = cpc[c] /\ owed'[c] = owed[c]
        <4>1. ASSUME NEW d \in Sender, SendCall(d) \/ TrySendCall(d) \/ SendEnqueue(d)
              PROVE  UNCHANGED <<ack, handled, cpc[c], owed[c]>>
          BY <4>1, ClientAssumption
             DEF SendCall, TrySendCall, SendEnqueue, TypeOK, Client
        <4>2. ASSUME NEW d \in Drainer, DrainEnqueue(d)
              PROVE  UNCHANGED <<ack, handled, cpc[c], owed[c]>>
          BY <4>2, ClientAssumption DEF DrainEnqueue, TypeOK, Client
        <4>3. QED
          BY <2>1, <4>1, <4>2
      <3>2. QED
        BY <3>1 DEF AckInv, Handled
    <2>2. ASSUME NEW d \in Settler, SettleCall(d) \/ SettlePing(d), d # c
          PROVE  UNCHANGED <<ack[c], cpc[c], owed[c], handled>>
      BY <2>2 DEF SettleCall, SettlePing, TypeOK, Client
    <2>3. CASE SettleCall(c)
      <3>1. ack'[c] = ack[c] /\ cpc[c] = "idle" /\ cpc'[c] # "settled"
        BY <2>3 DEF SettleCall, Enter, TypeOK, Client
      <3>2. QED
        BY <3>1 DEF AckInv
    <2>4. CASE SettlePing(c)
      <3>1. ack'[c] = "none" /\ cpc'[c] = "pong"
        BY <2>4 DEF SettlePing, TypeOK, Client
      <3>2. QED
        BY <3>1
    <2>5. QED
      BY <1>2, <2>1, <2>2, <2>3, <2>4 DEF Asking, AckInv, Handled
  <1>3. CASE Answering
    <2>1. Taken /\ UNCHANGED cpc /\ Handled \subseteq Handled'
      BY <1>3, AnsweringTakes, TakenKeeps
    <2>2. owed'[c] = owed[c]
      <3>1. CASE Head(mailbox).kind = "drainClose"
        BY <1>3, <2>1, <3>1, AnsweringTakes, HeadType, ClientAssumption
           DEF Taken, TypeOK
      <3>2. CASE Head(mailbox).kind # "drainClose"
        BY <1>3, <3>2, AnsweringTakes
      <3>3. QED
        BY <3>1, <3>2
    <2>3. CASE ack'[c] = ack[c]
      BY <2>1, <2>2, <2>3 DEF AckInv
    <2>4. CASE ack'[c] # ack[c]
      <3>1. Head(mailbox).kind = "ping" /\ Head(mailbox).by = c
        BY <1>3, <2>4, AnsweringTakes DEF TypeOK
      <3>2. 1 \in Asks(mailbox, c)
        BY <2>1, <3>1, TailPlaces DEF Taken, TypeOK, Asks
      <3>3. owed[c] \subseteq Handled /\ cpc[c] # "idle"
        BY <2>1, <3>2, TakenKeeps DEF BacklogInv
      <3>4. QED
        BY <2>1, <2>2, <3>3
    <2>5. QED
      BY <2>3, <2>4
  <1>4. QED
    BY <1>1, <1>2, <1>3, Classes

-----------------------------------------------------------------------------
(***************************************************************************)
(* How the actor's loop comes to its end.                                  *)
(***************************************************************************)
\* A terminal status stays, loopCtx is cancelled by a hard stop or the shutdown,
\* and the loop is left for shutdown by cancellation or from an empty drain.
EndStep ==
    /\ hard => hard'
    /\ cancelled' => cancelled \/ hard' \/ snap'.status \in Terminal
    /\ snap.status \in Terminal => snap'.status = snap.status
    /\ Over' => \/ Over
                \/ snap.status = "Running" /\ cancelled /\ UNCHANGED hard
                \/ DrainEmpty

LEMMA EndFrame ==
    ASSUME UNCHANGED <<pc, snap, cancelled, hard>>
    PROVE  EndStep
  BY DEF EndStep, Over

LEMMA EndActor == IInv /\ Actor => EndStep
  <1> SUFFICES ASSUME TypeOK, PhaseInv, Actor PROVE EndStep
    BY DEF IInv, DeliveryInv
  <1> USE DEF actorVars, EndStep, Over, Terminal
  <1>1. CASE MakeChannels
    BY <1>1 DEF MakeChannels
  <1>2. ASSUME NEW final \in BOOLEAN, Stage(final) PROVE EndStep
    BY <1>2 DEF Stage
  <1>3. CASE ObserversApprove
    BY <1>3 DEF ObserversApprove, PublishSnap, PhaseInv
  <1>4. CASE ObserversAbort
    BY <1>4 DEF ObserversAbort, PublishSnap, NextSnap, PhaseInv
  <1>5. CASE AlwaysLoop
    BY <1>5 DEF AlwaysLoop, PublishSnap, NextSnap
  <1>6. CASE Quiescent
    BY <1>6 DEF Quiescent
  <1>7. ASSUME NEW s \in Sub, Notify(s) \/ LoopSubscribe(s) \/ LoopUnsubscribe(s)
        PROVE  EndStep
    BY <1>7, EndFrame DEF Notify, LoopSubscribe, LoopUnsubscribe
  <1>8. CASE Notified
    BY <1>8 DEF Notified
  <1>9. CASE LoopCancelled
    BY <1>9 DEF LoopCancelled, PhaseInv
  <1>10. CASE Answering
    <2>1. UNCHANGED <<snap, cancelled, hard>> /\ pc' \in {"stage", "select", "drain"}
      BY <1>10 DEF Answering, LoopEvent, LoopPing, DrainEvent, DrainPing, Answer,
                   LoopDrainClose, DrainSentinel, TakeEvent
    <2>2. QED
      BY <2>1
  <1>11. CASE DrainEmpty
    BY <1>11 DEF DrainEmpty
  <1>12. CASE Shutdown
    <2>1. snap.status \in {"Running", "Done", "Error"} /\ pc = "stop" /\ UNCHANGED hard
      BY <1>12 DEF Shutdown, PhaseInv
    <2>2. CASE snap.status \in Terminal
      BY <1>12, <2>1, <2>2 DEF Shutdown
    <2>3. CASE snap.status \notin Terminal
      BY <1>12, <2>1, <2>3 DEF Shutdown, PublishSnap, NextSnap
    <2>4. QED
      BY <2>2, <2>3
  <1>13. CASE CloseChannels
    BY <1>13 DEF CloseChannels
  <1>14. QED
    BY <1>1, <1>2, <1>3, <1>4, <1>5, <1>6, <1>7, <1>8, <1>9, <1>10, <1>11, <1>12,
       <1>13 DEF Actor, Answering

LEMMA EndSteps == IInv /\ [Next]_vars => EndStep
  <1> SUFFICES ASSUME IInv, [Next]_vars PROVE EndStep
    OBVIOUS
  <1>1. ASSUME NEW c, NEW from, NEW to, Go(c, from, to) PROVE EndStep
    BY <1>1, EndFrame DEF Go, actorVars
  <1>2. ASSUME UNCHANGED <<pc, snap>>, hard' PROVE EndStep
    BY <1>2 DEF EndStep, Over
  <1>3. CASE Asking
    BY <1>3, EndFrame DEF Asking, SendCall, TrySendCall, SendEnqueue, DrainEnqueue,
                          SettleCall, SettlePing, actorVars
  <1>4. CASE \E s \in Sub : Delivery(s)
    BY <1>4, EndFrame
       DEF Delivery, SubscribeStopped, Deliver, FnReturns, SeeClosed, SeeQuit,
           UnsubDone, Flush, Flushed, Move, actorVars
  <1>5. CASE Start
    BY <1>5 DEF Start, EndStep, Over
  <1>6. CASE \E s \in Sub : Subscribe(s) \/ CancelSub(s)
    BY <1>6, EndFrame DEF Subscribe, CancelSub, actorVars
  <1>7. CASE ParentCancel
    BY <1>2, <1>7 DEF ParentCancel
  <1>8. ASSUME NEW c \in Client,
               \/ SendStopped(c) \/ TrySendFull(c) \/ SendGiveUp(c) \/ CloserStep(c)
               \/ DrainStopped(c) \/ HardCloseReturn(c) \/ DrainCall(c)
               \/ SettleAgain(c) \/ SettleIdle(c) \/ SettleStopped(c)
               \/ SettleGiveUp(c)
        PROVE  EndStep
    BY <1>1, <1>8 DEF SendStopped, TrySendFull, SendGiveUp, CloserStep, CloseReturn,
         DrainStopped, HardCloseReturn, DrainCall, SettleAgain, SettleIdle,
         SettleStopped, SettleGiveUp
  <1>9. ASSUME NEW c \in Client, CloseCall(c) \/ DrainGiveUp(c) PROVE EndStep
    BY <1>2, <1>9 DEF CloseCall, DrainGiveUp
  <1>10. CASE UNCHANGED vars
    BY <1>10, EndFrame DEF vars, actorVars
  <1>11. CASE \/ \E c \in Sender : SenderStep(c)
              \/ \E c \in Closer : CloserStep(c)
              \/ \E c \in Drainer : DrainerStep(c)
              \/ \E c \in Settler : SettlerStep(c)
    BY <1>3, <1>8, <1>11 DEF SenderStep, DrainerStep, SettlerStep, Asking, Client
  <1>12. CASE Environment
    BY <1>3, <1>5, <1>6, <1>7, <1>8, <1>9, <1>12 DEF Environment, Asking, Client
  <1>13. QED
    BY <1>4, <1>10, <1>11, <1>12, EndActor DEF Next, Rest

\* Once the loop has been left no item is taken any more: a sentinel that is
\* enqueued is never reached, and what was owed before stays handled.
LEMMA OverKeeps ==
    ASSUME IInv, [Next]_vars, Over, NEW c \in Drainer, c \notin Unreached',
           c \notin Unreached => owed[c] \subseteq Handled
    PROVE  owed'[c] \subseteq Handled'
  <1>1. pc \notin {"select", "drain"} /\ TypeOK
    BY DEF Over, IInv, DeliveryInv, PhaseInv
  <1>2. ASSUME UNCHANGED <<mailbox, handled>>, owed'[c] = owed[c]
        PROVE  owed'[c] \subseteq Handled'
    BY <1>2 DEF Unreached, Handled
  <1>3. ASSUME NEW item \in InboxItem, Added(item)
        PROVE  /\ Handled' = Handled /\ c \notin Unreached
               /\ item.kind # "drainClose" \/ item.by # c
    <2>1. /\ Handled' = Handled /\ Len(mailbox) \in Nat
          /\ DOMAIN mailbox = 1 .. Len(mailbox)
          /\ DOMAIN mailbox' = 1 .. (Len(mailbox) + 1)
          /\ mailbox'[Len(mailbox) + 1] = item
          /\ \A k \in DOMAIN mailbox : mailbox'[k] = mailbox[k]
      BY <1>1, <1>3, AddedKeeps
    <2>2. \A k \in DOMAIN mailbox' : mailbox'[k].kind = "drainClose" => mailbox'[k].by # c
      BY DEF Unreached
    <2>3. \A k \in DOMAIN mailbox : k \in DOMAIN mailbox'
      BY <2>1
    <2>4. Len(mailbox) + 1 \in DOMAIN mailbox'
      BY <2>1
    <2>5. QED
      BY <2>1, <2>2, <2>3, <2>4 DEF Unreached
  <1>4. CASE Quiet
    BY <1>2, <1>4 DEF Quiet
  <1>5. CASE Asking
    <2>1. ASSUME NEW d \in Sender, SendCall(d) \/ TrySendCall(d)
          PROVE  owed'[c] \subseteq Handled'
      BY <1>2, <2>1 DEF SendCall, TrySendCall
    <2>2. ASSUME NEW d \in Sender, SendEnqueue(d) PROVE owed'[c] \subseteq Handled'
      <3>1. [kind |-> "event", evt |-> [from |-> d, n |-> sent[d]]] \in InboxItem
        BY <1>1 DEF Event, EventItem, InboxItem, TypeOK
      <3>2. Added([kind |-> "event", evt |-> [from |-> d, n |-> sent[d]]])
            /\ UNCHANGED owed
        BY <2>2 DEF SendEnqueue, Added
      <3>3. QED
        BY <1>3, <3>1, <3>2
    <2>3. ASSUME NEW d \in Drainer, DrainEnqueue(d) PROVE owed'[c] \subseteq Handled'
      <3>1. [kind |-> "drainClose", by |-> d] \in InboxItem
        BY DEF DrainItem, InboxItem
      <3>2. Added([kind |-> "drainClose", by |-> d])
        BY <2>3 DEF DrainEnqueue, Added
      <3>3. c # d /\ c \notin Unreached /\ Handled' = Handled
        BY <1>3, <3>1, <3>2
      <3>4. owed'[c] = owed[c]
        BY <1>1, <2>3, <3>3 DEF DrainEnqueue, TypeOK
      <3>5. QED
        BY <3>3, <3>4
    <2>4. ASSUME NEW d \in Settler, SettleCall(d) PROVE owed'[c] \subseteq Handled'
      <3>1. owed'[c] = owed[c]
        BY <1>1, <2>4, ClientAssumption DEF SettleCall, TypeOK
      <3>2. QED
        BY <1>2, <2>4, <3>1 DEF SettleCall
    <2>5. ASSUME NEW d \in Settler, SettlePing(d) PROVE owed'[c] \subseteq Handled'
      <3>1. [kind |-> "ping", by |-> d] \in InboxItem
        BY DEF PingItem, InboxItem
      <3>2. Added([kind |-> "ping", by |-> d]) /\ UNCHANGED owed
        BY <2>5 DEF SettlePing, Added
      <3>3. QED
        BY <1>3, <3>1, <3>2
    <2>6. QED
      BY <1>5, <2>1, <2>2, <2>3, <2>4, <2>5 DEF Asking
  <1>6. CASE Answering
    BY <1>1, <1>6, AnsweringTakes
  <1>7. QED
    BY <1>1, <1>4, <1>5, <1>6, Classes

LEMMA OverStep == IInv /\ BacklogInv /\ OverInv /\ [Next]_vars => OverInv'
  <1> SUFFICES ASSUME IInv, BacklogInv, OverInv, [Next]_vars PROVE OverInv'
    OBVIOUS
  <1>1. EndStep
    BY EndSteps
  <1>2. cancelled' => hard' \/ snap'.status \in Terminal
    BY <1>1 DEF OverInv, EndStep
  <1>3. ASSUME Over', ~hard', NEW c \in Drainer \ Unreached'
        PROVE  owed'[c] \subseteq Handled'
    <2>1. ~hard
      BY <1>1, <1>3 DEF EndStep
    <2>2. CASE Over
      BY <1>3, <2>1, <2>2, OverKeeps DEF OverInv
    <2>3. CASE DrainEmpty
      <3>1. mailbox = <<>> /\ UNCHANGED <<handled, owed>>
        BY <2>3 DEF DrainEmpty, clientVars
      <3>2. Waiting(mailbox) = {}
        BY <3>1 DEF Waiting
      <3>3. QED
        BY <3>1, <3>2 DEF BacklogInv, Handled
    <2>4. CASE snap.status = "Running" /\ cancelled
      BY <2>1, <2>4 DEF OverInv, Terminal
    <2>5. QED
      BY <1>1, <1>3, <2>2, <2>3, <2>4 DEF EndStep
  <1>4. QED
    BY <1>2, <1>3 DEF OverInv

-----------------------------------------------------------------------------
(***************************************************************************)
(* ClientInv is inductive, and what it says.                               *)
(***************************************************************************)
LEMMA ClientInit == Init => OrderInv /\ BacklogInv /\ AckInv /\ OverInv
  <1> SUFFICES ASSUME Init PROVE OrderInv /\ BacklogInv /\ AckInv /\ OverInv
    OBVIOUS
  <1>1. DOMAIN handled = {} /\ DOMAIN mailbox = {}
    BY DEF Init
  <1>2. OrderInv
    BY <1>1 DEF OrderInv, HandledInOrder, EventsOf
  <1>3. BacklogInv
    BY <1>1 DEF Init, BacklogInv, Asks
  <1>4. AckInv
    BY DEF Init, AckInv, Client
  <1>5. OverInv
    BY DEF Init, OverInv, Over
  <1>6. QED
    BY <1>2, <1>3, <1>4, <1>5

\* The clients' invariant holds in every behaviour, together with the one of the
\* actor and its subscribers.
THEOREM ClientInvariance == Spec => []ClientInv
  <1>1. Init => IInv
    BY TypeInit, DeliveryInit DEF IInv
  <1>2. Init => ClientInv
    BY <1>1, ClientInit DEF ClientInv
  <1>3. ClientInv /\ [Next]_vars => ClientInv'
    BY IInvStep, OrderStep, BacklogStep, AckStep, OverStep DEF ClientInv, IInv
  <1>4. QED
    BY <1>2, <1>3, PTL DEF Spec

\* The engine is offered each sender's events once and in the order of its calls.
THEOREM SenderOrder == Spec => []HandledInOrder
  <1>1. ClientInv => HandledInOrder
    BY DEF ClientInv, OrderInv
  <1>2. QED
    BY <1>1, ClientInvariance, PTL

\* CloseAfterDrain that returned nil from a drained actor left nothing behind.
THEOREM DrainPromise == Spec => []DrainedBacklog
  <1>1. ClientInv => DrainedBacklog
    BY DEF ClientInv, OverInv, Over, DrainedBacklog
  <1>2. QED
    BY <1>1, ClientInvariance, PTL

\* Settle that returned idle waited for everything that was in the mailbox when
\* it was called.
THEOREM SettlePromise == Spec => []SettledBacklog
  <1>1. ClientInv => SettledBacklog
    BY DEF ClientInv, AckInv, SettledBacklog
  <1>2. QED
    BY <1>1, ClientInvariance, PTL

\* An event that leaves the mailbox is given to the engine in the same step.
THEOREM EventsKept == Spec => NothingDropped
  <1>1. ASSUME TypeOK, [Next]_vars
        PROVE  Waiting(mailbox) \ Waiting(mailbox') \subseteq Handled'
    <2>1. CASE Quiet
      BY <2>1 DEF Quiet
    <2>2. CASE Asking
      <3>1. UNCHANGED mailbox \/ \E item \in InboxItem : Added(item)
        <4>1. ASSUME NEW c \in Sender, SendEnqueue(c)
              PROVE  \E item \in InboxItem : Added(item)
          <5>1. [kind |-> "event", evt |-> [from |-> c, n |-> sent[c]]] \in InboxItem
            BY <1>1 DEF Event, EventItem, InboxItem, TypeOK
          <5>2. QED
            BY <4>1, <5>1 DEF SendEnqueue, Added
        <4>2. ASSUME NEW c \in Drainer, DrainEnqueue(c)
              PROVE  \E item \in InboxItem : Added(item)
          <5>1. [kind |-> "drainClose", by |-> c] \in InboxItem
            BY DEF DrainItem, InboxItem
          <5>2. QED
            BY <4>2, <5>1 DEF DrainEnqueue, Added
        <4>3. ASSUME NEW c \in Settler, SettlePing(c)
              PROVE  \E item \in InboxItem : Added(item)
          <5>1. [kind |-> "ping", by |-> c] \in InboxItem
            BY DEF PingItem, InboxItem
          <5>2. QED
            BY <4>3, <5>1 DEF SettlePing, Added
        <4>4. QED
          BY <2>2, <4>1, <4>2, <4>3 DEF Asking, SendCall, TrySendCall, SettleCall
      <3>2. QED
        BY <1>1, <3>1, AddedKeeps
    <2>3. CASE Answering
      BY <1>1, <2>3, AnsweringTakes, TakenKeeps
    <2>4. QED
      BY <1>1, <2>1, <2>2, <2>3, Classes
  <1>2. TypeOK /\ [Next]_vars =>
            [Waiting(mailbox) \ Waiting(mailbox') \subseteq
                {handled'[i] : i \in DOMAIN handled'}]_vars
    BY <1>1 DEF Handled
  <1>3. QED
    BY <1>2, TypeCorrect, PTL DEF Spec, NothingDropped
============================================================================
