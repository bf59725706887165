------------------------------ MODULE Workflow ------------------------------
(***************************************************************************)
(* The issue workflow (examples/issues): the coordinator's chart with its  *)
(* retry budget, the promises and the two child machines it invokes, the   *)
(* comments on GitHub and the command that runs it once (issuesctl).       *)
(*                                                                         *)
(* Actor, mailbox and timers are those of ActorLoop and Invocation, here   *)
(* reduced to what a host sees: a promise that passed its context check    *)
(* before its state was left still reports, a timer that has fired is      *)
(* still handled, and both may be handled in a later visit.  The child     *)
(* machines run inside their call: their own mailboxes are left out.       *)
(***************************************************************************)
EXTENDS Naturals, Sequences, FiniteSets

CONSTANTS
    MaxRetries,   \* maxRetries: what collecting and syncing share
    FixAttempts,  \* fixAttempts: the budget the fix machine is seeded with
    MailboxCap,   \* WithMailboxCap
    MaxComment    \* bound: comments on the issue before the run

ASSUME WorkflowAssumption ==
    /\ MaxRetries \in Nat /\ FixAttempts \in Nat /\ MaxComment \in Nat
    /\ MailboxCap \in Nat \ {0}

VARIABLES
    dryRun,    \* the --dry-run flag
    leaf,      \* the active atomic state
    attempt,   \* ctx.Attempt
    saved,     \* the fields of the context that are set, of those that matter
    call,      \* the invoked promise or child machine of the leaf
    armed,     \* the timers that are armed
    late,      \* outcomes of calls since cancelled, not posted yet
    mailbox,   \* the mailbox channel
    expired,   \* the --timeout of the run has passed
    exit,      \* the exit of the command, once it has
    before,    \* history: the comments with the issue's marker before the run
    comments,  \* those that are on GitHub
    onFirst,   \* of them those on the first page of the issue's comments
    onTheWay,  \* posts of cancelled calls that GitHub may still apply
    reads,     \* history: calls of CollectIssue
    syncs,     \* history: calls of SyncIssue
    cut        \* history: posts that were cancelled on their way

given     == <<dryRun, before>>
chartVars == <<leaf, attempt, saved, armed>>
hub       == <<comments, onFirst>>
hubVars   == <<hub, onTheWay, cut>>
vars == <<given, chartVars, call, late, mailbox, expired, exit, hubVars,
          reads, syncs>>

-----------------------------------------------------------------------------
(***************************************************************************)
(* The chart.                                                              *)
(***************************************************************************)
Final == {"failed", "finished"}
Leaves == {"fetching", "waitingToCollect", "classifying", "investigating",
           "fixing", "summarising", "posting", "waitingToSync"} \cup Final

\* The compound state around a leaf, "issues" for the root.
Parent(s) == CASE s \in {"fetching", "waitingToCollect"} -> "collecting"
               [] s \in {"posting", "waitingToSync"}     -> "syncing"
               [] OTHER                                  -> "issues"

InvokeOf(s) == CASE s = "fetching"      -> "collect"
                 [] s = "classifying"   -> "classify"
                 [] s = "investigating" -> "investigate"
                 [] s = "fixing"        -> "fix"
                 [] s = "summarising"   -> "summarise"
                 [] s = "posting"       -> "sync"
                 [] OTHER               -> "none"

TimersOf(s) == CASE s = "collecting"       -> {"CollectDeadline"}
                 [] s = "fetching"         -> {"CollectAttemptTimeout"}
                 [] s = "waitingToCollect" -> {"CollectBackoff"}
                 [] s = "classifying"      -> {"ClassifyTimeout"}
                 [] s = "summarising"      -> {"SummariseTimeout"}
                 [] s = "syncing"          -> {"SyncDeadline"}
                 [] s = "posting"          -> {"SyncAttemptTimeout"}
                 [] s = "waitingToSync"    -> {"SyncBackoff"}
                 [] OTHER                  -> {}

Event(of, out) == [of |-> of, out |-> out]
Failure == {"error", "transient"}

\* Edges(s, e): the targets of the edges of s on e, in document order; where
\* there are two the first is guarded.
Edges(s, e) ==
    LET failed == e.out \in Failure
        retry  == IF Parent(s) = "collecting" THEN "waitingToCollect"
                                              ELSE "waitingToSync"
    IN  CASE s = "fetching" /\ e.of = "collect" /\ ~failed -> <<"classifying">>
          [] s = "posting" /\ e.of = "sync" /\ ~failed     -> <<"finished">>
          [] s \in {"fetching", "posting"} /\ e.of = InvokeOf(s) /\ failed
                                                     -> <<retry, "failed">>
          [] s \in {"fetching", "posting"} /\ e.of \in TimersOf(s)
                                                     -> <<retry, "failed">>
          [] s = "waitingToCollect" /\ e.of = "CollectBackoff" -> <<"fetching">>
          [] s = "waitingToSync" /\ e.of = "SyncBackoff"       -> <<"posting">>
          [] e.of \in TimersOf(Parent(s))                  -> <<"failed">>
          [] s = "classifying" /\ e.of = "classify" /\ ~failed
                                              -> <<"investigating", "summarising">>
          [] s = "investigating" /\ e.of = "investigate"
                              -> <<IF failed THEN "summarising" ELSE "fixing">>
          [] s = "fixing" /\ e.of = "fix"                  -> <<"summarising">>
          [] s = "summarising" /\ e.of = "summarise" /\ ~failed -> <<"posting">>
          [] s \in {"classifying", "summarising"}
                /\ (e.of \in TimersOf(s) \/ e.of = InvokeOf(s)) -> <<"failed">>
          [] OTHER                                         -> <<>>

\* Wrong: an attempt too many.
HasAttemptsLeftOrJust == attempt <= MaxRetries

HasAttemptsLeft == attempt < MaxRetries
ShouldRetry(e)  == attempt < MaxRetries /\ e.out = "transient"
IsActionable(e) == e.out = "bug"

\* makeGuard: the guard of the first of two edges on e.
Guard(e) == CASE e.of \in {"collect", "sync"} -> ShouldRetry(e)
              [] e.of = "classify"            -> IsActionable(e)
              [] OTHER                        -> HasAttemptsLeft

Target(e) == LET edges == Edges(leaf, e)
             IN  IF Len(edges) = 2 /\ ~Guard(e) THEN edges[2] ELSE edges[1]

\* makeApplier: what the actions of the edge on e leave in the context.
Saved(e) ==
    CASE e.of = "collect" /\ e.out = "full"     -> {"package"}
      [] e.of = "investigate" /\ e.out = "full" -> {"findings"}
      [] e.of = "fix" /\ e.out = "full"         -> {"patch"}
      [] e.of = "summarise" /\ e.out = "full"   -> {"summary"}
      [] OTHER                                  -> {}

\* nextAttempt, on both backoff edges.
NextAttempt(e) == IF e.of \in {"CollectBackoff", "SyncBackoff"} THEN 1 ELSE 0

-----------------------------------------------------------------------------
(***************************************************************************)
(* The coordinator's actor.                                                *)
(***************************************************************************)
NoCall == [of |-> "none", pc |-> "idle", out |-> "", tries |-> 0]

\* The runner of a state that is entered.
Spawned(s) ==
    [of |-> InvokeOf(s), out |-> "", tries |-> 0,
     pc |-> CASE InvokeOf(s) = "none" -> "idle"
              [] InvokeOf(s) = "fix"  -> "editing"
              [] InvokeOf(s) = "sync" -> "lookup"
              [] OTHER                -> "running"]

Init ==
    /\ dryRun \in BOOLEAN
    /\ leaf = "fetching" /\ attempt = 0 /\ saved = {}
    /\ call = Spawned("fetching")
    /\ armed = TimersOf("fetching") \cup TimersOf("collecting")
    /\ late = {} /\ mailbox = <<>>
    /\ expired = FALSE /\ exit = "none"
    /\ before \in 0..MaxComment /\ comments = before /\ onFirst \in 0..before
    /\ onTheWay = 0 /\ cut = 0
    /\ reads = 1 /\ syncs = 0

Up == exit = "none"

\* Timers outlive a transition between the children of one compound state.
Rearmed(s) ==
    TimersOf(s) \cup (IF Parent(s) = Parent(leaf) THEN armed \cap TimersOf(Parent(s))
                                                  ELSE TimersOf(Parent(s)))

\* Leaving a state cancels its call, which still reports if it had passed its
\* check, and whose post may still reach GitHub if it was on its way.
CancelCall ==
    /\ late' = IF call.pc = "checked"
               THEN late \cup {[of |-> call.of, out |-> call.out, n |-> attempt]}
               ELSE late
    /\ onTheWay' = IF call.pc = "sent" THEN onTheWay + 1 ELSE onTheWay
    /\ cut' = IF call.pc = "sent" THEN cut + 1 ELSE cut
    /\ UNCHANGED hub

Enter(s, e) ==
    /\ leaf' = s
    /\ attempt' = attempt + NextAttempt(e)
    /\ saved' = saved \cup Saved(e)
    /\ armed' = Rearmed(s)
    /\ CancelCall
    /\ call' = Spawned(s)
    /\ reads' = IF s = "fetching" THEN reads + 1 ELSE reads
    /\ syncs' = IF s = "posting" THEN syncs + 1 ELSE syncs

\* One event: its edge, or nothing where the leaf has none.
Handle ==
    /\ Up /\ leaf \notin Final /\ mailbox # <<>>
    /\ mailbox' = Tail(mailbox)
    /\ LET e == Head(mailbox)
       IN  IF Edges(leaf, e) # <<>> THEN Enter(Target(e), e)
           ELSE UNCHANGED <<chartVars, call, late, hubVars, reads, syncs>>
    /\ UNCHANGED <<given, expired, exit>>

Post(e) == Len(mailbox) < MailboxCap /\ mailbox' = Append(mailbox, e)

\* An after timer fires and posts its event.
Fire == \E t \in armed :
    /\ Up /\ Post(Event(t, "")) /\ armed' = armed \ {t}
    /\ UNCHANGED <<given, leaf, attempt, saved, call, late, expired, exit,
                   hubVars, reads, syncs>>
-----------------------------------------------------------------------------
(***************************************************************************)
(* The calls: promises, and the child machines with their own promises.    *)
(***************************************************************************)
CallOnly == Up /\ UNCHANGED <<given, chartVars, late, mailbox, expired, exit,
                              onTheWay, cut, reads, syncs>>

\* The function returned and its context was not cancelled.
Returns(outs) == \E out \in outs : call' = [call EXCEPT !.pc = "checked", !.out = out]

\* CollectIssue, ClassifyIssue, SummariseIssue: one round trip each.
Answer ==
    /\ CallOnly /\ call.pc = "running" /\ UNCHANGED hub
    /\ CASE call.of = "collect"   -> Returns({"full"} \cup Failure)
         [] call.of = "classify"  -> Returns({"bug", "question", "error"})
         [] call.of = "summarise" -> Returns({"full", "error"})
         [] OTHER                 -> FALSE

\* The investigate machine: its failed state is final too, so the parent is
\* told it is done, without findings.
Investigate ==
    /\ CallOnly /\ call.of = "investigate" /\ call.pc = "running"
    /\ Returns({"full", "empty"}) /\ UNCHANGED hub

\* The fix machine: ApplyEdit.
Edit ==
    /\ CallOnly /\ call.pc = "editing" /\ UNCHANGED hub
    /\ \/ call' = [call EXCEPT !.pc = "testing"]
       \/ Returns({IF call.tries = 0 THEN "empty" ELSE "full"})

CanRetry == call.tries + 1 < FixAttempts

\* Wrong: nextAttempt is not among the actions of the edge back to editing.
TestUncounted ==
    /\ CallOnly /\ call.pc = "testing" /\ UNCHANGED hub
    /\ \/ Returns({"full"})
       \/ CanRetry /\ call' = [call EXCEPT !.pc = "editing"]

\* The fix machine: RunTests.  It keeps its patch however it ends.
Test ==
    /\ CallOnly /\ call.pc = "testing" /\ UNCHANGED hub
    /\ \/ Returns({"full"})
       \/ CanRetry /\ call' = [call EXCEPT !.pc = "editing", !.tries = @ + 1]

\* Wrong: the marker is not looked for.
PostAtOnce ==
    /\ CallOnly /\ call.pc = "lookup" /\ UNCHANGED hub
    /\ \/ dryRun /\ Returns({"full"})
       \/ ~dryRun /\ Returns(Failure)
       \/ ~dryRun /\ call' = [call EXCEPT !.pc = "sent"]

\* CommentExists: a marker on the first page is seen.  One on a later page need
\* not be: no more than 50 are looked at, and none behind an empty cursor.
CommentExists == {exists \in BOOLEAN : IF exists THEN comments > 0 ELSE onFirst = 0}

\* SyncIssue: NewClient and CommentExists.  A dry run does neither.
Lookup ==
    /\ CallOnly /\ call.pc = "lookup" /\ UNCHANGED hub
    /\ \/ dryRun /\ Returns({"full"})
       \/ ~dryRun /\ Returns(Failure)
       \/ ~dryRun /\ TRUE \in CommentExists /\ Returns({"full"})
       \/ ~dryRun /\ FALSE \in CommentExists /\ call' = [call EXCEPT !.pc = "sent"]

\* GitHub has the comment: behind the others, on the first page or a later one.
Lands ==
    /\ comments' = comments + 1
    /\ onFirst' = onFirst \/ (onFirst = comments /\ onFirst' = comments')

\* SyncIssue: PostComment.  An error may hide a comment that is there.
PostComment ==
    /\ CallOnly /\ call.pc = "sent"
    /\ \/ Lands /\ Returns({"full"} \cup Failure)
       \/ UNCHANGED hub /\ Returns(Failure)

\* The runner emits its outcome.
Report ==
    /\ Up /\ call.pc = "checked" /\ Post(Event(call.of, call.out))
    /\ call' = [call EXCEPT !.pc = "idle"]
    /\ UNCHANGED <<given, chartVars, late, expired, exit, hubVars, reads, syncs>>

ReportLate == \E e \in late :
    /\ Up /\ Post(Event(e.of, e.out)) /\ late' = late \ {e}
    /\ UNCHANGED <<given, chartVars, call, expired, exit, hubVars, reads, syncs>>

\* A post whose call is gone reaches GitHub, or does not.
Land ==
    /\ onTheWay > 0 /\ onTheWay' = onTheWay - 1
    /\ Lands \/ UNCHANGED hub
    /\ UNCHANGED <<given, chartVars, call, late, mailbox, expired, exit, cut,
                   reads, syncs>>
-----------------------------------------------------------------------------
(***************************************************************************)
(* issuesctl.                                                              *)
(***************************************************************************)
Expire ==
    /\ Up /\ ~expired /\ expired' = TRUE
    /\ UNCHANGED <<given, chartVars, call, late, mailbox, exit, hubVars, reads, syncs>>

Exit(with) ==
    /\ Up /\ exit' = with
    /\ onTheWay' = IF call.pc = "sent" THEN onTheWay + 1 ELSE onTheWay
    /\ cut' = IF call.pc = "sent" THEN cut + 1 ELSE cut
    /\ UNCHANGED <<given, chartVars, call, late, mailbox, expired, hub,
                   reads, syncs>>

\* Wrong: a run that is Done has succeeded.
MainIgnoresFailed == leaf \in Final /\ Exit("success")

\* main, on the terminal snapshot.
MainDone == leaf \in Final /\ Exit(IF leaf = "failed" THEN "failure" ELSE "success")

\* main, on its deadline.
MainExpired == expired /\ Exit("failure")

Calls == Answer \/ Investigate \/ Edit \/ Test \/ Lookup \/ PostComment
Next == \/ Handle \/ Fire \/ Calls \/ Report \/ ReportLate \/ Land
        \/ Expire \/ MainDone \/ MainExpired

Done == exit # "none" /\ UNCHANGED vars

Spec == Init /\ [][Next \/ Done]_vars

\* Programs and GitHub answer in the end, timers fire, the actor and main are
\* scheduled; the deadline of the run need not pass.
FairSpec == Spec /\ WF_vars(Handle) /\ WF_vars(Calls) /\ WF_vars(Report)
                 /\ WF_vars(ReportLate) /\ WF_vars(Fire) /\ WF_vars(MainDone)
-----------------------------------------------------------------------------
(***************************************************************************)
(* Properties.                                                             *)
(***************************************************************************)
\* Collecting and syncing share one budget of retries, whatever mixture of
\* errors, timeouts and late reports spends it (HasAttemptsLeft and
\* ShouldRetry over the Attempt that only the backoff edges count).
SharedBudget == reads + syncs <= MaxRetries + 2

\* SyncIssue's lookup of its marker.  While every marker is on the first page of
\* the comments, nothing is posted to an issue that has one, and otherwise what is
\* posted a second time is due to posts that were cancelled on their way: never
\* to an error that hid a comment.  On a thread so long that the lookup may miss
\* the marker, each call still posts no more than once.
NoNeedlessPost ==
    /\ onFirst = comments => comments <= (IF before = 0 THEN 1 + cut ELSE before)
    /\ comments <= before + syncs

\* issuesctl exits with 0 only if the issue carries the comment, or the run
\* was dry.
SuccessIsSynced == exit = "success" => dryRun \/ comments > 0

\* If the programs it calls return, the command exits without its deadline.
Exits == <>(exit # "none")
=============================================================================
