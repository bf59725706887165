--------------------------- MODULE WorkflowProofs ---------------------------
(***************************************************************************)
(* The safety of the issue workflow, for every budget, mailbox and number  *)
(* of comments.                                                            *)
(***************************************************************************)
EXTENDS Workflow, TLAPS

Waiting == {"waitingToCollect", "waitingToSync"}
Synced  == {"posting", "waitingToSync"} \cup Final

\* Every handled event moves the budget on by what NextAttempt says.
BudgetInv ==
    /\ leaf \in Leaves
    /\ attempt \in 0..MaxRetries /\ reads \in Nat /\ syncs \in Nat
    /\ leaf \in Waiting => attempt < MaxRetries
    /\ reads + syncs <= attempt + (IF leaf \in Synced THEN 2 ELSE 1)

-----------------------------------------------------------------------------
(***************************************************************************)
(* The chart.                                                              *)
(***************************************************************************)
\* The initial budget: one read of the issue, and no retry.
LEMMA BudgetInit == Init => BudgetInv
BY WorkflowAssumption DEF WorkflowAssumption, Init, BudgetInv, Leaves, Waiting, Synced, Final

\* The edges a leaf has, those on its two kinds of retry among them.
LEMMA EdgeTable ==
    ASSUME NEW e
    PROVE  /\ Edges("fetching", e) \in
                 {<<>>, <<"classifying">>, <<"waitingToCollect", "failed">>, <<"failed">>}
           /\ Edges("waitingToCollect", e) \in {<<>>, <<"fetching">>, <<"failed">>}
           /\ Edges("classifying", e) \in
                 {<<>>, <<"investigating", "summarising">>, <<"failed">>}
           /\ Edges("investigating", e) \in {<<>>, <<"summarising">>, <<"fixing">>}
           /\ Edges("fixing", e) \in {<<>>, <<"summarising">>}
           /\ Edges("summarising", e) \in {<<>>, <<"posting">>, <<"failed">>}
           /\ Edges("posting", e) \in
                 {<<>>, <<"finished">>, <<"waitingToSync", "failed">>, <<"failed">>}
           /\ Edges("waitingToSync", e) \in {<<>>, <<"posting">>, <<"failed">>}
           /\ \A s \in Final : Edges(s, e) = <<>>
  <1> USE DEF Edges, TimersOf, InvokeOf, Parent, Final
  <1>1. Edges("fetching", e) \in
           {<<>>, <<"classifying">>, <<"waitingToCollect", "failed">>, <<"failed">>}
    OBVIOUS
  <1>2. Edges("waitingToCollect", e) \in {<<>>, <<"fetching">>, <<"failed">>}
    OBVIOUS
  <1>3. Edges("classifying", e) \in {<<>>, <<"investigating", "summarising">>, <<"failed">>}
    OBVIOUS
  <1>4. Edges("investigating", e) \in {<<>>, <<"summarising">>, <<"fixing">>}
    OBVIOUS
  <1>5. Edges("fixing", e) \in {<<>>, <<"summarising">>}
    OBVIOUS
  <1>6. Edges("summarising", e) \in {<<>>, <<"posting">>, <<"failed">>}
    OBVIOUS
  <1>7. Edges("posting", e) \in
           {<<>>, <<"finished">>, <<"waitingToSync", "failed">>, <<"failed">>}
    OBVIOUS
  <1>8. Edges("waitingToSync", e) \in {<<>>, <<"posting">>, <<"failed">>}
    OBVIOUS
  <1>9. \A s \in Final : Edges(s, e) = <<>>
    OBVIOUS
  <1>10. QED
    BY <1>1, <1>2, <1>3, <1>4, <1>5, <1>6, <1>7, <1>8, <1>9

\* Only a backoff leads back to the call that failed, and it leads nowhere else.
LEMMA BackoffEdges ==
    ASSUME NEW e
    PROVE  /\ Edges("waitingToCollect", e) = <<"fetching">> => e.of = "CollectBackoff"
           /\ Edges("waitingToSync", e) = <<"posting">> => e.of = "SyncBackoff"
           /\ NextAttempt(e) = 1 => \A s \in Leaves :
                 Edges(s, e) = <<>>
                 \/ (s = "waitingToCollect" /\ Edges(s, e) = <<"fetching">>)
                 \/ (s = "waitingToSync" /\ Edges(s, e) = <<"posting">>)
  <1> USE DEF Edges, TimersOf, Parent, NextAttempt
  <1>1. /\ Edges("waitingToCollect", e) = <<"fetching">> => e.of = "CollectBackoff"
        /\ Edges("waitingToSync", e) = <<"posting">> => e.of = "SyncBackoff"
    OBVIOUS
  <1>2. ASSUME NextAttempt(e) = 1, NEW s \in Leaves
        PROVE  \/ Edges(s, e) = <<>>
               \/ (s = "waitingToCollect" /\ Edges(s, e) = <<"fetching">>)
               \/ (s = "waitingToSync" /\ Edges(s, e) = <<"posting">>)
    BY <1>2, SMTT(30) DEF Leaves, Final, InvokeOf
  <1>3. QED
    BY <1>1, <1>2

\* The first of two edges is guarded, by the budget wherever it retries.
LEMMA GuardedTarget ==
    ASSUME NEW e, NEW a, NEW b
    PROVE  /\ Edges(leaf, e) = <<a>> => Target(e) = a
           /\ Edges(leaf, e) = <<a, b>> =>
                 Target(e) = b \/ (Target(e) = a /\ Guard(e))
           /\ Guard(e) => attempt < MaxRetries \/ e.of = "classify"
  BY DEF Target, Guard, ShouldRetry, IsActionable, HasAttemptsLeft

\* The answer of the classifier is no event of a call that is retried.
LEMMA NotClassify ==
    ASSUME NEW e, leaf \in {"fetching", "posting"}, e.of = "classify"
    PROVE  Edges(leaf, e) = <<>>
  BY DEF Edges, TimersOf, InvokeOf, Parent

\* Where an edge leads, by the leaf it leaves: to a retry only within the budget,
\* and back to a call only by its backoff, or for the first time.
LEMMA Targets ==
    ASSUME leaf \in Leaves, NEW e, Edges(leaf, e) # <<>>
    PROVE  /\ Target(e) \in Leaves
           /\ Target(e) \in Waiting => attempt < MaxRetries
           /\ Target(e) \in Synced \ {"posting"} => leaf \in Synced \/ Target(e) = "failed"
           /\ Target(e) = "posting" =>
                 \/ leaf = "summarising" /\ NextAttempt(e) = 0
                 \/ leaf = "waitingToSync" /\ NextAttempt(e) = 1
           /\ Target(e) = "fetching" =>
                 leaf = "waitingToCollect" /\ NextAttempt(e) = 1
           /\ leaf \in Synced => Target(e) \in Synced
           /\ NextAttempt(e) \in {0, 1}
           /\ NextAttempt(e) = 1 => leaf \in Waiting /\ Target(e) \in {"fetching", "posting"}
  <1> USE EdgeTable, BackoffEdges, GuardedTarget DEF Leaves, Waiting, Synced, Final
  <1>0. NextAttempt(e) \in {0, 1}
    BY DEF NextAttempt
  <1>a. /\ e.of = "CollectBackoff" => NextAttempt(e) = 1
        /\ e.of = "SyncBackoff" => NextAttempt(e) = 1
    BY DEF NextAttempt
  <1>1. CASE leaf = "fetching"
    BY <1>0, <1>1, NotClassify
  <1>2. CASE leaf = "waitingToCollect"
    BY <1>0, <1>a, <1>2
  <1>3. CASE leaf = "classifying"
    BY <1>0, <1>3
  <1>4. CASE leaf = "investigating"
    BY <1>0, <1>4
  <1>5. CASE leaf = "fixing"
    BY <1>0, <1>5
  <1>6. CASE leaf = "summarising"
    BY <1>0, <1>6
  <1>7. CASE leaf = "posting"
    BY <1>0, <1>7, NotClassify
  <1>8. CASE leaf = "waitingToSync"
    BY <1>0, <1>a, <1>8
  <1>9. CASE leaf \in Final
    BY <1>9
  <1>10. QED
    BY <1>1, <1>2, <1>3, <1>4, <1>5, <1>6, <1>7, <1>8, <1>9

-----------------------------------------------------------------------------
(***************************************************************************)
(* The budget.                                                             *)
(***************************************************************************)
LEMMA BudgetHandle == BudgetInv /\ Handle => BudgetInv'
  <1> SUFFICES ASSUME BudgetInv, Handle PROVE BudgetInv'
    OBVIOUS
  <1> DEFINE e == Head(mailbox)
             s == Target(e)
  <1>1. CASE Edges(leaf, e) = <<>>
    BY <1>1 DEF Handle, BudgetInv, chartVars
  <1>2. CASE Edges(leaf, e) # <<>>
    <2>1. /\ leaf' = s /\ attempt' = attempt + NextAttempt(e)
          /\ reads' = IF s = "fetching" THEN reads + 1 ELSE reads
          /\ syncs' = IF s = "posting" THEN syncs + 1 ELSE syncs
      BY <1>2 DEF Handle, Enter
    <2>2. /\ s \in Leaves
          /\ s \in Waiting => attempt < MaxRetries
          /\ s \in Synced \ {"posting"} => leaf \in Synced \/ s = "failed"
          /\ s = "posting" => \/ leaf = "summarising" /\ NextAttempt(e) = 0
                              \/ leaf = "waitingToSync" /\ NextAttempt(e) = 1
          /\ s = "fetching" => leaf = "waitingToCollect" /\ NextAttempt(e) = 1
          /\ leaf \in Synced => s \in Synced
          /\ NextAttempt(e) \in {0, 1}
          /\ NextAttempt(e) = 1 => leaf \in Waiting /\ s \in {"fetching", "posting"}
      BY <1>2, Targets DEF BudgetInv
    <2>3. attempt' \in 0..MaxRetries /\ reads' \in Nat /\ syncs' \in Nat
      BY <2>1, <2>2, WorkflowAssumption DEF WorkflowAssumption, BudgetInv
    <2>4. leaf' \in Waiting => attempt' < MaxRetries
      BY <2>1, <2>2, WorkflowAssumption DEF WorkflowAssumption, BudgetInv, Waiting
    <2>5. reads' + syncs' <= attempt' + (IF leaf' \in Synced THEN 2 ELSE 1)
      BY <2>1, <2>2 DEF BudgetInv, Waiting, Synced, Final
    <2>6. QED
      BY <2>1, <2>2, <2>3, <2>4, <2>5 DEF BudgetInv
  <1>3. QED
    BY <1>1, <1>2

LEMMA BudgetNext == BudgetInv /\ [Next]_vars => BudgetInv'
  <1> SUFFICES ASSUME BudgetInv, [Next]_vars PROVE BudgetInv'
    OBVIOUS
  <1>1. CASE Handle
    BY <1>1, BudgetHandle
  <1>2. CASE UNCHANGED <<leaf, attempt, reads, syncs>>
    BY <1>2 DEF BudgetInv
  <1>3. UNCHANGED <<leaf, attempt, reads, syncs>> \/ Handle
    BY DEF Next, Fire, Calls, Answer, Investigate, Edit, Test, Lookup, PostComment,
           CallOnly, Report, ReportLate, Land, Expire, MainDone, MainExpired, Exit,
           vars, chartVars
  <1>4. QED
    BY <1>1, <1>2, <1>3

\* The workflow never reads the issue and syncs the comment more often than the
\* one budget of retries allows, whatever the budget is.
THEOREM Budget == Spec => []SharedBudget
  <1>1. BudgetInv => SharedBudget
    BY WorkflowAssumption DEF WorkflowAssumption, BudgetInv, SharedBudget
  <1>2. BudgetInv /\ [Next \/ Done]_vars => BudgetInv'
    BY BudgetNext DEF Done
  <1>3. QED
    BY <1>1, <1>2, BudgetInit, PTL DEF Spec

-----------------------------------------------------------------------------
(***************************************************************************)
(* Posts.                                                                  *)
(***************************************************************************)
Phase   == {"idle", "running", "editing", "testing", "lookup", "sent", "checked"}
Outcome == {"", "full", "empty", "bug", "question"} \cup Failure
Invoke  == {"none", "collect", "classify", "investigate", "fix", "summarise", "sync"}
Call == [of : Invoke, pc : Phase, out : Outcome, tries : Nat]

\* The call is about to look for the marker or to post, and it is about to post.
Calling == IF Up /\ call.pc \in {"lookup", "sent"} THEN 1 ELSE 0
Sending == IF Up /\ call.pc = "sent" THEN 1 ELSE 0

\* Of c comments, f on the first page, b before the run, w on their way, k cut off,
\* y calls, s that sends and l that calls: what is on its way was cut off, and only
\* a call that found nothing posts.  Where the lookup sees all there is, that is
\* where nothing was before the run and nothing but cut posts since.
Count(c, f, b, w, k, y, s, l) ==
    /\ f <= c /\ b <= c /\ w <= k
    /\ f = c /\ b = 0 => c + w + s <= 1 + k
    /\ f = c /\ b > 0 => c = b /\ w = 0 /\ s = 0
    /\ c + w + l <= b + y

HubInv ==
    /\ comments \in Nat /\ onFirst \in Nat /\ before \in Nat
    /\ onTheWay \in Nat /\ cut \in Nat /\ syncs \in Nat
    /\ Count(comments, onFirst, before, onTheWay, cut, syncs, Sending, Calling)

PostInv == call \in Call /\ HubInv

\* A runner that is started has not posted yet.
LEMMA SpawnedCall ==
    ASSUME NEW s \in Leaves
    PROVE  /\ Spawned(s) \in Call /\ Spawned(s).pc # "sent"
           /\ Spawned(s).pc = "lookup" => s = "posting"
  <1> DEFINE p == CASE InvokeOf(s) = "none" -> "idle"
                    [] InvokeOf(s) = "fix"  -> "editing"
                    [] InvokeOf(s) = "sync" -> "lookup"
                    [] OTHER                -> "running"
  <1>1. p \in Phase \ {"sent"}
    BY DEF Phase
  <1>2. Spawned(s) = [of |-> InvokeOf(s), out |-> "", tries |-> 0, pc |-> p]
    BY DEF Spawned
  <1>3. p = "lookup" => s = "posting"
    BY DEF InvokeOf
  <1> HIDE DEF p
  <1>4. InvokeOf(s) \in Invoke
    BY DEF InvokeOf, Invoke
  <1>5. "" \in Outcome /\ 0 \in Nat /\ p \in Phase
    BY <1>1 DEF Outcome
  <1> DEFINE r == [of |-> InvokeOf(s), out |-> "", tries |-> 0, pc |-> p]
  <1>6. r \in Call /\ r.pc = p
    BY <1>4, <1>5 DEF Call
  <1>7. QED
    BY <1>1, <1>2, <1>3, <1>6

LEMMA PostInit == Init => PostInv
  <1> SUFFICES ASSUME Init PROVE PostInv
    OBVIOUS
  <1>1. call \in Call
    BY SpawnedCall DEF Init, Leaves
  <1>2. Sending = 0 /\ Calling = 0
    BY DEF Init, Sending, Calling, Spawned, InvokeOf
  <1>3. QED
    BY <1>1, <1>2, WorkflowAssumption DEF WorkflowAssumption, Init, PostInv, HubInv, Count

\* A call posts, or looks, or does neither.
LEMMA Counted ==
    /\ Sending \in {0, 1} /\ Calling \in {0, 1} /\ Sending <= Calling
    /\ Sending' \in {0, 1} /\ Calling' \in {0, 1}
  BY DEF Sending, Calling

\* A step that leaves GitHub alone and begins no post.
LEMMA Quiet ==
    ASSUME HubInv, UNCHANGED <<hub, before, onTheWay, cut, syncs>>,
           Sending' <= Sending, Calling' <= Calling
    PROVE  HubInv'
  <1>1. PICK s \in {0, 1}, l \in {0, 1}, t \in {0, 1}, m \in {0, 1} :
           s = Sending /\ l = Calling /\ t = Sending' /\ m = Calling'
    BY Counted
  <1>2. Count(comments, onFirst, before, onTheWay, cut, syncs, s, l) /\ t <= s /\ m <= l
    BY <1>1 DEF HubInv
  <1>3. Count(comments, onFirst, before, onTheWay, cut, syncs, t, m)
    BY <1>2 DEF HubInv, Count
  <1>4. QED
    BY <1>1, <1>3 DEF HubInv, hub

\* A call that is cut off, by a new one or by the end of the command.
LEMMA CutOff ==
    ASSUME HubInv, UNCHANGED <<hub, before>>, Sending' = 0, NEW n \in {0, 1},
           onTheWay' = onTheWay + Sending, cut' = cut + Sending,
           syncs' = syncs + n, Calling' <= n
    PROVE  HubInv'
  <1>1. PICK s \in {0, 1}, l \in {0, 1}, m \in {0, 1} :
           s = Sending /\ l = Calling /\ m = Calling' /\ s <= l
    BY Counted
  <1>2. Count(comments, onFirst, before, onTheWay, cut, syncs, s, l) /\ s <= l /\ m <= n
    BY <1>1 DEF HubInv
  <1>3. Count(comments, onFirst, before, onTheWay + s, cut + s, syncs + n, 0, m)
    <2>1. CASE s = 0
      BY <1>2, <2>1 DEF HubInv, Count
    <2>2. CASE s = 1
      <3>1. /\ onFirst <= comments /\ before <= comments /\ onTheWay <= cut
            /\ onFirst = comments => before = 0 /\ comments + onTheWay <= cut
            /\ comments + onTheWay + 1 <= before + syncs
        BY <1>2, <2>2 DEF HubInv, Count
      <3>2. QED
        BY <1>2, <2>2, <3>1 DEF HubInv, Count
    <2>3. QED
      BY <2>1, <2>2
  <1>4. onTheWay + s \in Nat /\ cut + s \in Nat /\ syncs + n \in Nat
    BY DEF HubInv
  <1>5. QED
    BY <1>1, <1>3, <1>4 DEF HubInv, hub

\* A comment that reaches GitHub was on its way there, or was being posted.
LEMMA Landed ==
    ASSUME HubInv, Lands \/ UNCHANGED hub, UNCHANGED <<before, cut, syncs>>,
           onTheWay' \in Nat, onTheWay' <= onTheWay,
           onTheWay' + Sending' + 1 <= onTheWay + Sending,
           onTheWay' + Calling' + 1 <= onTheWay + Calling
    PROVE  HubInv'
  <1>1. PICK s \in {0, 1}, l \in {0, 1}, t \in {0, 1}, m \in {0, 1} :
           s = Sending /\ l = Calling /\ t = Sending' /\ m = Calling'
    BY Counted
  <1>2. PICK v \in Nat : v = onTheWay'
    OBVIOUS
  <1>3. /\ Count(comments, onFirst, before, onTheWay, cut, syncs, s, l)
        /\ v <= onTheWay /\ v + t + 1 <= onTheWay + s /\ v + m + 1 <= onTheWay + l
    BY <1>1, <1>2 DEF HubInv
  <1>4. PICK c \in Nat, f \in Nat :
           /\ c = comments' /\ f = onFirst'
           /\ \/ c = comments /\ f = onFirst
              \/ c = comments + 1 /\ (f = onFirst \/ (onFirst = comments /\ f = c))
    BY DEF HubInv, Lands, hub
  <1>5. Count(c, f, before, v, cut, syncs, t, m)
    <2>1. CASE c = comments /\ f = onFirst
      BY <1>3, <2>1 DEF HubInv, Count
    <2>2. CASE c = comments + 1 /\ f = onFirst
      BY <1>3, <2>2 DEF HubInv, Count
    <2>3. CASE c = comments + 1 /\ onFirst = comments /\ f = c
      BY <1>3, <2>3 DEF HubInv, Count
    <2>4. QED
      BY <1>4, <2>1, <2>2, <2>3
  <1>6. QED
    BY <1>1, <1>2, <1>4, <1>5 DEF HubInv

\* Leaving a state with its post on the way.
LEMMA PostHandle == BudgetInv /\ PostInv /\ Handle => PostInv'
  <1> SUFFICES ASSUME BudgetInv, PostInv, Handle PROVE PostInv'
    OBVIOUS
  <1> DEFINE e == Head(mailbox)
  <1>0. Up /\ Up' /\ before' = before
    BY DEF Handle, Up, given
  <1>1. CASE Edges(leaf, e) = <<>>
    <2>1. UNCHANGED <<call, hub, onTheWay, cut, syncs>>
      BY <1>1 DEF Handle, hubVars
    <2>2. Sending' = Sending /\ Calling' = Calling
      BY <1>0, <2>1 DEF Sending, Calling
    <2>3. QED
      BY <1>0, <2>1, <2>2, Counted, Quiet DEF PostInv
  <1>2. CASE Edges(leaf, e) # <<>>
    <2>1. /\ CancelCall /\ call' = Spawned(Target(e))
          /\ syncs' = IF Target(e) = "posting" THEN syncs + 1 ELSE syncs
      BY <1>2 DEF Handle, Enter
    <2>2. /\ call' \in Call /\ call'.pc # "sent"
          /\ call'.pc = "lookup" => Target(e) = "posting"
      BY <1>2, <2>1, SpawnedCall, Targets DEF BudgetInv
    <2> DEFINE k == IF Target(e) = "posting" THEN 1 ELSE 0
    <2>3. Sending' = 0 /\ Calling' <= k
      BY <2>2 DEF Sending, Calling
    <2>4. /\ onTheWay' = onTheWay + Sending /\ cut' = cut + Sending
          /\ UNCHANGED hub /\ syncs' = syncs + k
      BY <1>0, <2>1 DEF CancelCall, Sending, PostInv, HubInv
    <2>5. k \in {0, 1}
      OBVIOUS
    <2> HIDE DEF k
    <2>6. HubInv'
      BY <1>0, <2>3, <2>4, <2>5, CutOff DEF PostInv
    <2>7. QED
      BY <2>2, <2>6 DEF PostInv
  <1>3. QED
    BY <1>1, <1>2

\* What a function returns is an outcome.
LEMMA ReturnedCall ==
    ASSUME NEW outs \in SUBSET Outcome, call \in Call, Returns(outs)
    PROVE  call' \in Call /\ call'.pc = "checked" /\ call'.of = call.of /\ call'.out \in outs
  BY DEF Returns, Call, Phase

\* The calls: only SyncIssue touches GitHub.
LEMMA PostCalls == PostInv /\ Calls => PostInv'
  <1> SUFFICES ASSUME PostInv, Calls PROVE PostInv'
    OBVIOUS
  <1> USE DEF CallOnly
  <1>0. call \in Call /\ call.pc \in Phase
    BY DEF PostInv, Call
  <1>d. Up /\ Up' /\ UNCHANGED <<before, onTheWay, cut, syncs>>
    BY DEF Calls, Answer, Investigate, Edit, Test, Lookup, PostComment, Up, given
  <1>a. ASSUME call' \in Call, call'.pc \notin {"lookup", "sent"}, UNCHANGED hub
        PROVE  PostInv'
    <2>1. Sending' = 0 /\ Calling' = 0
      BY <1>a DEF Sending, Calling
    <2>2. QED
      BY <1>a, <1>d, <2>1, Counted, Quiet DEF PostInv
  <1>b. ASSUME NEW outs \in SUBSET Outcome, Returns(outs)
        PROVE  call' \in Call /\ call'.pc \notin {"lookup", "sent"}
    BY <1>0, <1>b, ReturnedCall
  <1>c. /\ Failure \in SUBSET Outcome /\ {"full"} \cup Failure \in SUBSET Outcome
        /\ {"bug", "question", "error"} \in SUBSET Outcome
        /\ {"full", "error"} \in SUBSET Outcome /\ {"full", "empty"} \in SUBSET Outcome
        /\ {"full"} \in SUBSET Outcome
        /\ {IF call.tries = 0 THEN "empty" ELSE "full"} \in SUBSET Outcome
    BY DEF Failure, Outcome
  <1>1. CASE Answer
    <2>1. \/ Returns({"full"} \cup Failure) \/ Returns({"bug", "question", "error"})
          \/ Returns({"full", "error"})
      BY <1>1 DEF Answer
    <2>2. QED
      BY <1>1, <1>a, <1>b, <1>c, <2>1 DEF Answer
  <1>2. CASE Investigate
    BY <1>2, <1>a, <1>b, <1>c DEF Investigate
  <1>3. CASE Edit
    <2>1. CASE call' = [call EXCEPT !.pc = "testing"]
      BY <1>0, <2>1, <1>3, <1>a DEF Edit, Call, Phase
    <2>2. QED
      BY <1>3, <1>a, <1>b, <1>c, <2>1 DEF Edit
  <1>4. CASE Test
    <2>1. CASE call' = [call EXCEPT !.pc = "editing", !.tries = @ + 1]
      <3>1. call' \in Call /\ call'.pc \notin {"lookup", "sent"}
        <4>1. call.tries + 1 \in Nat
          BY <1>0 DEF Call
        <4>2. QED
          BY <1>0, <2>1, <4>1 DEF Call, Phase
      <3>2. QED
        BY <1>4, <1>a, <3>1 DEF Test
    <2>2. QED
      BY <1>4, <1>a, <1>b, <1>c, <2>1 DEF Test
  <1>5. CASE Lookup
    <2>1. CASE FALSE \in CommentExists /\ call' = [call EXCEPT !.pc = "sent"]
      <3>1. call' \in Call /\ call'.pc = "sent" /\ call.pc = "lookup"
        BY <1>0, <1>5, <2>1 DEF Lookup, Call, Phase
      <3>2. /\ Sending = 0 /\ Calling = 1 /\ Sending' = 1 /\ Calling' = 1
            /\ onFirst = 0 /\ UNCHANGED hub
        BY <1>5, <1>d, <2>1, <3>1 DEF Lookup, Sending, Calling, CommentExists
      <3>3. HubInv'
        BY <1>d, <3>2 DEF PostInv, HubInv, Count, hub
      <3>4. QED
        BY <3>1, <3>3 DEF PostInv
    <2>2. QED
      BY <1>5, <1>a, <1>b, <1>c, <2>1 DEF Lookup
  <1>6. CASE PostComment
    <2>1. call' \in Call /\ call'.pc \notin {"lookup", "sent"} /\ call.pc = "sent"
      BY <1>6, <1>b, <1>c DEF PostComment
    <2>2. Sending = 1 /\ Calling = 1 /\ Sending' = 0 /\ Calling' = 0
      BY <1>d, <2>1 DEF Sending, Calling
    <2>3. Lands \/ UNCHANGED hub
      BY <1>6 DEF PostComment
    <2>4. onTheWay \in Nat
      BY DEF PostInv, HubInv
    <2>5. HubInv'
      BY <1>d, <2>2, <2>3, <2>4, Landed DEF PostInv
    <2>6. QED
      BY <2>1, <2>5 DEF PostInv
  <1>7. QED
    BY <1>1, <1>2, <1>3, <1>4, <1>5, <1>6 DEF Calls

\* Every step keeps the count of comments and of posts on their way.
LEMMA PostNext == BudgetInv /\ PostInv /\ [Next]_vars => PostInv'
  <1> SUFFICES ASSUME BudgetInv, PostInv, [Next]_vars PROVE PostInv'
    OBVIOUS
  <1>1. CASE Handle
    BY <1>1, PostHandle
  <1>2. CASE Calls
    BY <1>2, PostCalls
  <1>3. CASE Report
    <2>1. /\ call.pc = "checked" /\ call' = [call EXCEPT !.pc = "idle"]
          /\ UNCHANGED <<before, hub, onTheWay, cut, syncs>>
      BY <1>3 DEF Report, given, hubVars
    <2>2. call' \in Call /\ call'.pc = "idle"
      BY <2>1 DEF PostInv, Call, Phase
    <2>3. Sending' = 0 /\ Calling' = 0
      BY <2>2 DEF Sending, Calling
    <2>4. QED
      BY <2>1, <2>2, <2>3, Counted, Quiet DEF PostInv
  <1>4. CASE Land
    <2>1. /\ onTheWay > 0 /\ onTheWay' = onTheWay - 1
          /\ Lands \/ UNCHANGED hub
          /\ UNCHANGED <<call, exit, before, cut, syncs>>
      BY <1>4 DEF Land, given
    <2>2. Sending' = Sending /\ Calling' = Calling
      BY <2>1 DEF Sending, Calling, Up
    <2>3. onTheWay \in Nat /\ onTheWay' \in Nat /\ onTheWay' + 1 = onTheWay
      BY <2>1 DEF PostInv, HubInv
    <2>4. HubInv'
      BY <2>1, <2>2, <2>3, Counted, Landed DEF PostInv
    <2>5. QED
      BY <2>1, <2>4 DEF PostInv
  <1>5. CASE MainDone \/ MainExpired
    <2>1. /\ Up /\ ~Up' /\ UNCHANGED <<call, before, hub, syncs>>
          /\ onTheWay' = IF call.pc = "sent" THEN onTheWay + 1 ELSE onTheWay
          /\ cut' = IF call.pc = "sent" THEN cut + 1 ELSE cut
      BY <1>5 DEF MainDone, MainExpired, Exit, Up, given
    <2>2. /\ Sending' = 0 /\ Calling' = 0
          /\ onTheWay' = onTheWay + Sending /\ cut' = cut + Sending /\ syncs' = syncs + 0
      BY <2>1 DEF Sending, Calling, PostInv, HubInv
    <2>3. HubInv'
      BY <2>1, <2>2, CutOff DEF PostInv
    <2>4. QED
      BY <2>1, <2>3 DEF PostInv
  <1>6. CASE UNCHANGED <<call, exit, before, hub, onTheWay, cut, syncs>>
    <2>1. Sending' = Sending /\ Calling' = Calling
      BY <1>6 DEF Sending, Calling, Up
    <2>2. QED
      BY <1>6, <2>1, Counted, Quiet DEF PostInv
  <1>7. \/ Handle \/ Calls \/ Report \/ Land \/ MainDone \/ MainExpired
        \/ UNCHANGED <<call, exit, before, hub, onTheWay, cut, syncs>>
    BY DEF Next, Fire, ReportLate, Expire, vars, hubVars, given
  <1>8. QED
    BY <1>1, <1>2, <1>3, <1>4, <1>5, <1>6, <1>7

\* While the lookup sees every marker, a comment is posted to an issue without one
\* and again only for posts that were cut off on their way, however often SyncIssue
\* fails and is tried again; and it never posts more often than it is called.
THEOREM Comments == Spec => []NoNeedlessPost
  <1>1. PostInv => NoNeedlessPost
    BY Counted DEF PostInv, HubInv, Count, NoNeedlessPost
  <1>2. BudgetInv /\ PostInv /\ [Next \/ Done]_vars => BudgetInv' /\ PostInv'
    BY BudgetNext, PostNext DEF Done
  <1>3. QED
    BY <1>1, <1>2, BudgetInit, PostInit, PTL DEF Spec

-----------------------------------------------------------------------------
(***************************************************************************)
(* Success.                                                                *)
(***************************************************************************)
Timer == UNION {TimersOf(s) : s \in Leaves \cup {"collecting", "syncing"}}
Item  == [of : Invoke \cup Timer, out : Outcome]

\* There is nothing to sync, or it is synced.
There == dryRun \/ comments > 0

\* Who says that SyncIssue succeeded is right.
Told(of, out) == of = "sync" /\ out \notin Failure => There

\* A post of the mailbox, or of a cancelled call, that claims a sync tells the
\* truth.
ToldMail == mailbox \in Seq(Item) /\ \A i \in 1..Len(mailbox) : Told(mailbox[i].of, mailbox[i].out)
ToldLate == \A e \in late : e.of \in Invoke /\ e.out \in Outcome /\ Told(e.of, e.out)
ToldCall == /\ call.pc \in {"editing", "testing"} => call.of = "fix"
            /\ call.pc = "checked" => Told(call.of, call.out)

SyncInv == /\ ToldMail /\ ToldLate /\ ToldCall
           /\ armed \subseteq Timer
           /\ leaf = "finished" => There
           /\ exit = "success" => There

LEMMA SyncInit == Init => SyncInv
  <1> SUFFICES ASSUME Init PROVE SyncInv
    OBVIOUS
  <1>1. call.pc = "running"
    BY DEF Init, Spawned, InvokeOf
  <1>2. armed \subseteq Timer
    BY DEF Init, Timer, TimersOf, Leaves
  <1>3. mailbox \in Seq(Item) /\ Len(mailbox) = 0
    BY DEF Init
  <1>4. QED
    BY <1>1, <1>2, <1>3 DEF Init, SyncInv, ToldMail, ToldLate, ToldCall

\* What is there stays there.
LEMMA ThereStays ==
    ASSUME There, PostInv, [Next]_vars PROVE There'
  <1>1. dryRun' = dryRun
    BY DEF Next, Handle, Fire, Calls, Answer, Investigate, Edit, Test, Lookup, PostComment,
           CallOnly, Report, ReportLate, Land, Expire, MainDone, MainExpired, Exit, vars,
           given
  <1>2. \/ comments' = comments \/ comments' = comments + 1
    BY DEF Next, Handle, Enter, CancelCall, Fire, Calls, Answer, Investigate, Edit, Test,
           Lookup, PostComment, Report, ReportLate, Land, Expire, MainDone, MainExpired,
           Exit, vars, hubVars, hub, Lands
  <1>3. QED
    BY <1>1, <1>2 DEF There, PostInv, HubInv

\* The only edge to finished is that of a sync which succeeded.
LEMMA FinishedEdge ==
    ASSUME leaf \in Leaves, NEW e, Edges(leaf, e) # <<>>, Target(e) = "finished"
    PROVE  e.of = "sync" /\ e.out \notin Failure
  <1>1. leaf = "posting" /\ Edges("posting", e) = <<"finished">>
    BY EdgeTable, GuardedTarget DEF Leaves, Final
  <1>2. QED
    BY <1>1 DEF Edges, TimersOf, Parent, InvokeOf

\* An event that is posted joins the mailbox.
LEMMA PostedItem ==
    ASSUME SyncInv, NEW e \in Item, Told(e.of, e.out), Post(e), There => There'
    PROVE  ToldMail'
  <1>1. mailbox' = Append(mailbox, e) /\ mailbox \in Seq(Item)
    BY DEF Post, SyncInv, ToldMail
  <1>2. mailbox' \in Seq(Item) /\ Len(mailbox') = Len(mailbox) + 1
    BY <1>1
  <1>3. ASSUME NEW i \in 1..Len(mailbox'), mailbox'[i].of = "sync", mailbox'[i].out \notin Failure
        PROVE  There
    <2>1. CASE i \in 1..Len(mailbox)
      BY <1>1, <1>3, <2>1 DEF SyncInv, ToldMail, Told
    <2>2. CASE i = Len(mailbox) + 1
      BY <1>1, <1>3, <2>2 DEF Told
    <2>3. QED
      BY <1>1, <1>2, <2>1, <2>2
  <1>4. QED
    BY <1>2, <1>3 DEF ToldMail, Told

\* No post in the mailbox becomes wrong.
LEMMA MailKept ==
    ASSUME ToldMail, There => There', mailbox' = mailbox PROVE ToldMail'
  BY DEF ToldMail, Told

\* Nor what cancelled calls still tell.
LEMMA LateKept ==
    ASSUME ToldLate, There => There', late' \subseteq late PROVE ToldLate'
  BY DEF ToldLate, Told

\* Nor what the call is about to tell.
LEMMA CallKept ==
    ASSUME ToldCall, There => There', call' = call PROVE ToldCall'
  BY DEF ToldCall, Told

\* Handling an event enters finished only on a sync that succeeded.
LEMMA SyncHandle ==
    ASSUME SyncInv, There => There', BudgetInv, BudgetInv', PostInv, Handle PROVE SyncInv'
  <1> DEFINE e == Head(mailbox)
  <1>1. /\ e \in Item /\ Told(e.of, e.out)
        /\ mailbox' = Tail(mailbox) /\ mailbox # <<>> /\ exit' = exit
    BY DEF Handle, SyncInv, ToldMail
  <1>2. ToldMail'
    <2>1. /\ mailbox' \in Seq(Item) /\ Len(mailbox') = Len(mailbox) - 1
          /\ \A i \in 1..Len(mailbox') : mailbox'[i] = mailbox[i + 1]
      BY <1>1 DEF SyncInv, ToldMail
    <2>2. \A i \in 1..Len(mailbox') : i + 1 \in 1..Len(mailbox)
      BY <1>1, <2>1 DEF SyncInv, ToldMail
    <2>3. QED
      BY <2>1, <2>2 DEF SyncInv, ToldMail, Told
  <1>3. CASE Edges(leaf, e) = <<>>
    <2>1. UNCHANGED <<leaf, armed, call, late>>
      BY <1>3 DEF Handle, chartVars
    <2>2. QED
      BY <1>1, <1>2, <2>1, LateKept, CallKept DEF SyncInv
  <1>4. CASE Edges(leaf, e) # <<>>
    <2>1. Enter(Target(e), e)
      BY <1>4 DEF Handle
    <2>2. ToldLate'
      <3>1. CASE call.pc = "checked"
        <4>1. late' = late \cup {[of |-> call.of, out |-> call.out, n |-> attempt]}
          BY <2>1, <3>1 DEF Enter, CancelCall
        <4>2. /\ call.of \in Invoke /\ call.out \in Outcome /\ Told(call.of, call.out)
          BY <3>1 DEF SyncInv, ToldCall, PostInv, Call
        <4>3. QED
          BY <4>1, <4>2 DEF SyncInv, ToldLate, Told
      <3>2. CASE call.pc # "checked"
        BY <2>1, <3>2, LateKept DEF Enter, CancelCall, SyncInv
      <3>3. QED
        BY <3>1, <3>2
    <2>3. ToldCall'
      <3>1. call' = Spawned(Target(e))
        BY <2>1 DEF Enter
      <3>2. QED
        BY <3>1 DEF Spawned, ToldCall
    <2>4. (armed \subseteq Timer)'
      <3>1. armed' = Rearmed(Target(e)) /\ armed \subseteq Timer
        BY <2>1 DEF Enter, SyncInv
      <3>2. \A s : TimersOf(s) \subseteq Timer
        BY DEF TimersOf, Timer, Leaves
      <3>3. QED
        BY <3>1, <3>2 DEF Rearmed
    <2>5. leaf' = "finished" => There'
      <3>1. leaf' = Target(e) /\ leaf \in Leaves
        BY <2>1 DEF Enter, BudgetInv
      <3>2. QED
        BY <1>1, <1>4, <3>1, FinishedEdge DEF Told
    <2>6. QED
      BY <1>1, <1>2, <2>2, <2>3, <2>4, <2>5 DEF SyncInv
  <1>5. QED
    BY <1>3, <1>4

\* A call that succeeds in telling GitHub, or has nothing to tell, told the
\* truth.
LEMMA SyncCalls ==
    ASSUME SyncInv, There => There', PostInv, PostInv', Calls PROVE SyncInv'
  <1>1. UNCHANGED <<mailbox, late, armed, leaf, exit>>
    BY DEF Calls, Answer, Investigate, Edit, Test, Lookup, PostComment, CallOnly, chartVars
  <1>2. ToldCall'
    <2>1. CASE Answer
      BY <2>1 DEF Answer, Returns, ToldCall, Told, PostInv, Call
    <2>2. CASE Investigate
      BY <2>2 DEF Investigate, Returns, ToldCall, Told, PostInv, Call
    <2>3. CASE Edit
      BY <2>3 DEF Edit, Returns, SyncInv, ToldCall, Told, PostInv, Call
    <2>4. CASE Test
      BY <2>4 DEF Test, Returns, SyncInv, ToldCall, Told, PostInv, Call
    <2>5. CASE Lookup
      BY <2>5 DEF Lookup, CommentExists, CallOnly, Returns, ToldCall, Told, There,
                PostInv, Call, hub, given
    <2>6. CASE PostComment
      <3>1. comments' = comments + 1 \/ call'.out \in Failure
        BY <2>6 DEF PostComment, Lands, Returns, PostInv, Call
      <3>2. comments \in Nat /\ call'.pc = "checked"
        BY <2>6 DEF PostComment, Returns, PostInv, HubInv, Call
      <3>3. comments' = comments + 1 => comments' > 0
        BY <3>2
      <3>4. QED
        BY <3>1, <3>2, <3>3 DEF ToldCall, Told, There
    <2>7. QED
      BY <2>1, <2>2, <2>3, <2>4, <2>5, <2>6 DEF Calls
  <1>3. QED
    BY <1>1, <1>2, MailKept, LateKept DEF SyncInv

\* Timers and calls post nothing but the truth about a sync.
LEMMA SyncPosts ==
    ASSUME SyncInv, There => There', PostInv, Fire \/ Report \/ ReportLate PROVE SyncInv'
  <1>1. CASE Fire
    <2>1. PICK t \in armed : Post(Event(t, "")) /\ armed' = armed \ {t}
      BY <1>1 DEF Fire
    <2>2. Event(t, "") \in Item /\ Told(Event(t, "").of, Event(t, "").out)
      BY <2>1 DEF SyncInv, Event, Item, Outcome, Told, Timer, TimersOf, Leaves
    <2>3. UNCHANGED <<leaf, call, late, exit>>
      BY <1>1 DEF Fire
    <2>4. QED
      BY <2>1, <2>2, <2>3, PostedItem, LateKept, CallKept DEF SyncInv
  <1>2. CASE Report
    <2>1. Event(call.of, call.out) \in Item /\ Told(Event(call.of, call.out).of, Event(call.of, call.out).out)
      BY <1>2 DEF Report, SyncInv, ToldCall, PostInv, Call, Event, Item
    <2>2. /\ UNCHANGED <<leaf, armed, late, exit>>
          /\ call' = [call EXCEPT !.pc = "idle"] /\ Post(Event(call.of, call.out))
      BY <1>2 DEF Report, chartVars
    <2>3. ToldCall'
      BY <2>2 DEF ToldCall, PostInv, Call
    <2>4. QED
      BY <2>1, <2>2, <2>3, PostedItem, LateKept DEF SyncInv
  <1>3. CASE ReportLate
    <2>1. PICK e \in late : Post(Event(e.of, e.out)) /\ late' = late \ {e}
      BY <1>3 DEF ReportLate
    <2>2. Event(e.of, e.out) \in Item /\ Told(Event(e.of, e.out).of, Event(e.of, e.out).out)
      BY <2>1 DEF SyncInv, ToldLate, Event, Item
    <2>3. UNCHANGED <<leaf, armed, call, exit>>
      BY <1>3 DEF ReportLate, chartVars
    <2>4. QED
      BY <2>1, <2>2, <2>3, PostedItem, LateKept, CallKept DEF SyncInv
  <1>4. QED
    BY <1>1, <1>2, <1>3

\* Every step keeps all of it.
LEMMA SyncNext ==
    ASSUME SyncInv, BudgetInv, BudgetInv', PostInv, PostInv', [Next]_vars PROVE SyncInv'
  <1>1. There => There'
    BY ThereStays
  <1>2. CASE Handle
    BY <1>1, <1>2, SyncHandle
  <1>3. CASE Calls
    BY <1>1, <1>3, SyncCalls
  <1>4. CASE Fire \/ Report \/ ReportLate
    BY <1>1, <1>4, SyncPosts
  <1>5. CASE Land \/ Expire \/ UNCHANGED vars
    <2>1. UNCHANGED <<mailbox, late, armed, leaf, call, exit>>
      BY <1>5 DEF Land, Expire, vars, chartVars
    <2>2. QED
      BY <1>1, <2>1, MailKept, LateKept, CallKept DEF SyncInv
  <1>6. CASE MainDone \/ MainExpired
    <2>1. UNCHANGED <<mailbox, late, armed, leaf, call>>
      BY <1>6 DEF MainDone, MainExpired, Exit, chartVars
    <2>2. exit' = "success" => leaf = "finished"
      BY <1>6 DEF MainDone, MainExpired, Exit, Final
    <2>3. QED
      BY <1>1, <2>1, <2>2, MailKept, LateKept, CallKept DEF SyncInv
  <1>7. QED
    BY <1>2, <1>3, <1>4, <1>5, <1>6 DEF Next

\* issuesctl exits with 0 only when there was nothing to post or the comment is
\* on the issue, whatever is late, lost or posted twice.
THEOREM Success == Spec => []SuccessIsSynced
  <1>1. SyncInv => SuccessIsSynced
    BY DEF SyncInv, There, SuccessIsSynced
  <1>2. /\ BudgetInv /\ PostInv /\ SyncInv /\ [Next \/ Done]_vars
        => BudgetInv' /\ PostInv' /\ SyncInv'
    BY BudgetNext, PostNext, SyncNext DEF Done
  <1>3. QED
    BY <1>1, <1>2, BudgetInit, PostInit, SyncInit, PTL DEF Spec
=============================================================================
