------------------------------- MODULE MCTools -------------------------------
(***************************************************************************)
(* The statesman command and the live diagram, one session of one of them  *)
(* per behaviour: they share nothing but the machine.json.                 *)
(***************************************************************************)
EXTENDS Watch, Live, Toolchain

VARIABLE session

vars == <<session, fileVars, watchVars, liveVars, toolVars, codeVars, genVars>>

\* The chart of all the documents: a root with a, b and the final c; in b are
\* b1, b2, which invokes load, and the history h.
Node(up, key) == [Plain EXCEPT !.up = up, !.key = key]
Load == Invoke("load", "fetch", <<Transition("", Abs(<<"c">>), Absent, <<"keep">>)>>,
               <<To("", Abs(<<"a">>))>>)

Root == [Plain EXCEPT !.id = "m", !.initial = "a", !.extra = "rootOnly"]
A    == [Node(1, "a") EXCEPT !.on = <<Transition("GO", Sibling("b"), "ok", <<"log">>)>>,
                             !.after = <<Transition("Pause", Abs(<<"b", "b2">>), Absent, <<"log">>)>>]
B    == [Node(1, "b") EXCEPT !.initial = "b1", !.on = <<To("BACK", Abs(<<"h">>))>>]
B1   == [Node(3, "b1") EXCEPT !.on = <<To("GO", Sibling("b2"))>>]
B2   == [Node(3, "b2") EXCEPT !.invoke = <<Load>>]
H    == [Node(3, "h") EXCEPT !.type = "history", !.target = Sibling("b1")]
C    == [Node(1, "c") EXCEPT !.type = "final"]
Base == <<Root, A, B, B1, B2, H, C>>

Starter == <<[Plain EXCEPT !.id = "m", !.initial = "a"],
             [Node(1, "a") EXCEPT !.on = <<To("GO", Sibling("c"))>>],
             [Node(1, "c") EXCEPT !.type = "final"]>>

\* Edits of it: first those that are accepted.
Changed(n, node) == [Base EXCEPT ![n] = node]
Renamed(b2) == [Changed(5, b2) EXCEPT ![2].after = <<>>,
                                      ![4].on = <<To("GO", Sibling(b2.key))>>]
Documents == <<
    Starter, Base,
    Changed(2, [A EXCEPT !.on = <<Transition("SAVE_DRAFT", NoTarget, "ok", <<"log">>)>>,
                         !.always = <<Transition("", NoTarget, "ok", <<"log">>)>>]),
    Changed(3, [B EXCEPT !.type = "parallel", !.entry = <<"log">>,
                         !.on = <<To("done.state.b", Rel(<<"b1">>)),
                                  To("SaveDraft", Abs(<<"b", "h">>))>>]),
    Changed(2, [A EXCEPT !.on = <<To("SAVE_DRAFT", NoTarget), To("SaveDraft", NoTarget),
                                  To("Impl", NoTarget)>>]),
    Changed(2, [A EXCEPT !.on = <<To("*", NoTarget)>>]),
    Changed(1, [Root EXCEPT !.on = <<Transition("", Rel(<<"b", "b2">>), "ok", <<>>)>>,
                            !.after = <<Transition("200", NoTarget, "ok", <<"log">>)>>]),
    Changed(7, [C EXCEPT !.up = 6]),
    Changed(6, [H EXCEPT !.history = "deep", !.on = <<To("GO", NoTarget)>>]),
    Renamed([B2 EXCEPT !.key = "b", !.exit = <<"log">>]),
    Renamed([B2 EXCEPT !.key = "b1"]),
    \* ... then those that are not.
    Renamed([B2 EXCEPT !.key = "c"]),
    Changed(2, [A EXCEPT !.extra = "unknown"]), Changed(2, [A EXCEPT !.extra = "malformed"]),
    Changed(2, [A EXCEPT !.extra = "rootOnly"]),
    Changed(1, [Root EXCEPT !.id = ""]), Changed(2, [A EXCEPT !.id = "b"]),
    Changed(7, [C EXCEPT !.type = "atomic"]), Changed(1, [Root EXCEPT !.initial = "b1"]),
    Changed(3, [B EXCEPT !.initial = Absent]), Changed(2, [A EXCEPT !.history = "deep"]),
    Changed(6, [H EXCEPT !.history = "all"]), Changed(6, [H EXCEPT !.up = 2]),
    Changed(2, [A EXCEPT !.on = <<To("error.*", NoTarget)>>]),
    Changed(2, [A EXCEPT !.after = <<To("", NoTarget)>>]),
    Changed(2, [A EXCEPT !.after = <<To("99999999999999999999", NoTarget)>>]),
    Changed(5, [B2 EXCEPT !.invoke = <<[Load EXCEPT !.id = Absent]>>]),
    Changed(5, [B2 EXCEPT !.invoke = <<[Load EXCEPT !.src = ""]>>]),
    Changed(2, [A EXCEPT !.entry = <<"">>]),
    Changed(2, [A EXCEPT !.always = <<Transition("", NoTarget, "", <<>>)>>]),
    Changed(2, [A EXCEPT !.always = <<To("", Abs(<<"a", "b">>))>>]),
    Changed(2, [A EXCEPT !.always = <<To("", Abs(<<>>))>>]),
    Changed(2, [A EXCEPT !.always = <<To("", Rel(<<"b1">>))>>]),
    Changed(2, [A EXCEPT !.always = <<To("", Sibling("b1"))>>]),
    Changed(1, [Root EXCEPT !.always = <<To("", Sibling("a"))>>]),
    Changed(6, [H EXCEPT !.target = Sibling("a")]) >>

\* (TLC keeps the value of Documents; of what replaces a constant it does not.)
MCDocs == Documents

\* What the developer of the tool's session saves, and the names that have more
\* than one word or cannot be a name.
ToolDocs == {4, 5}
MCPointer == <<"p1", "p2", "p3", "p4", "p5", "p6", "p7">>
MCWords == [SAVE_DRAFT |-> <<"Save", "Draft">>, SaveDraft |-> <<"Save", "Draft">>]

\* No document here makes two methods of one name.
ASSUME AgreeAssumption == \A d \in Good : MethodsAgree(d)

Init == /\ session \in {"watch", "live", "tool"}
        /\ FileInit /\ WatchInit /\ LiveInit /\ ToolInit

\* The developer declares what a chart will need, and changes a stub's signature.
ByHand == \/ \E decl \in {Impl, Decl("type", <<"GO">>)} : Declare(decl)
          \/ Reshape(<<"fetch">>, "observable")

Develop == ByHand \/ \E d \in ToolDocs : (saves = 0 \/ file = Torn) /\ SaveFile(d)
OnlyWatch == session = "watch" /\ UNCHANGED <<session, liveVars, toolVars, codeVars, genVars>>
OnlyLive  == session = "live" /\ UNCHANGED <<session, fileVars, watchVars, toolVars,
                                              codeVars, genVars>>
OnlyTool  == session = "tool" /\ UNCHANGED <<session, watchVars, liveVars>>

\* diagram --watch sees each document first; the last save over that is of an
\* accepted or a refused one, or is cut off.
Over     == {1, 3, 12, Torn}
Watching == OnlyWatch /\ WatchNext /\ (saves' < MaxSaves \/ file' \in Over)
Viewing  == OnlyLive /\ LiveNext
Building == OnlyTool /\ (Develop \/ Commands)

Spec == Init /\ [][Watching \/ Viewing \/ Building]_vars

\* The command is scheduled, and so are Live and the goroutine that feeds it; an
\* editor that has begun to write goes on.
FairSpec == /\ Spec
            /\ WF_vars(OnlyWatch /\ PollLoop) /\ WF_vars(OnlyWatch /\ EditRest)
            /\ WF_vars(OnlyLive /\ LiveLoop) /\ WF_vars(OnlyLive /\ Feed)
=============================================================================
