----------------------------- MODULE Toolchain -----------------------------
(***************************************************************************)
(* statesman init, stub and generate on one package: the names a chart     *)
(* refers to, their resolution against the declarations of the package,    *)
(* the stubs that are appended to its files and the facade that is         *)
(* generated, with a developer who edits the machine.json and the code     *)
(* meanwhile and a command that may be killed at any step.                 *)
(*                                                                         *)
(* Go source is reduced to its declarations.  A Go name is the sequence of *)
(* the words it is put together from, so that names that normalise alike   *)
(* are equal.                                                              *)
(***************************************************************************)
EXTENDS MachineFile

CONSTANTS
    Words,    \* JSON name -> its words, where they are not the name itself
    MaxCode   \* bound: declarations by hand

ASSUME CodeAssumption == MaxCode \in Nat

VARIABLES
    tool,      \* the command that runs: idle, or where it is
    command,   \* init, stub or generate
    def,       \* the document it has loaded, 0 for none
    held,      \* the file it is rewriting: its name and what was in it
    todo,      \* file -> the stubs still to be appended
    code,      \* file -> its declarations
    reshaped,  \* actor functions whose signature was changed, and into what
    byHand,    \* how often the developer has declared something
    gen,       \* the generated facade, once there is one
    torn,      \* history: a rewriting was killed half way
    written,   \* history: every declaration there has been
    repeated   \* history: declarations that were appended beside their like

toolVars == <<tool, command, def, held, todo>>
codeVars == <<code, reshaped, byHand, written, repeated>>
genVars  == <<gen, torn>>

Files == {"events", "actors", "delays", "behavior"}

-----------------------------------------------------------------------------
(***************************************************************************)
(* Names.                                                                  *)
(***************************************************************************)
NormalizeName(name) == IF name \in DOMAIN Words THEN Words[name] ELSE <<name>>
ValidIdent(words)   == words # <<>> /\ Head(words) # "*"

\* An edge's event as a Go type: done.invoke.X is XDone.
EventGoName(cs) == CASE cs.via = "done"  -> NormalizeName(cs.event) \o <<"Done">>
                     [] cs.via = "error" -> NormalizeName(cs.event) \o <<"Error">>
                     [] OTHER            -> NormalizeName(cs.event)

Generated == {"done.state.b"}  \* the descriptors with a generated prefix

Nodes(d)    == DOMAIN Docs[d]
EdgesOf(d)  == UNION {Range(NodeEdges(Docs[d], n)) : n \in Nodes(d)}
Invokes(d)  == UNION {Range(Docs[d][n].invoke) : n \in Nodes(d)}

\* collectRefs: what the user owes.
EventRefs(d) == {e.event : e \in {x \in EdgesOf(d) : x.via = "on"}} \ Generated
ActorRefs(d) == {iv.src : iv \in Invokes(d)}
Literals     == {"200"}
DelayRefs(d) == {e.event : e \in {x \in EdgesOf(d) : x.via = "after"}} \ Literals

Decl(kind, words) == [kind |-> kind, name |-> words]
Context == Decl("type", <<"Context", "Fields">>)
Event   == Decl("type", <<"Event">>)
Impl    == Decl("type", <<"Impl">>)

Owed(d) == {Decl("type", NormalizeName(r)) : r \in EventRefs(d)} \cup {Context}
           \cup {Decl("func", NormalizeName(r)) : r \in ActorRefs(d)}
           \cup {Decl("const", NormalizeName(r)) : r \in DelayRefs(d)}

\* What two events of one document normalise to, or an event and a type that
\* stub writes of itself: it is stubbed for each.
Twice(d) ==
    {Decl("type", NormalizeName(r)) : r \in {x \in EventRefs(d) :
        \/ \E y \in EventRefs(d) \ {x} : NormalizeName(y) = NormalizeName(x)
        \/ Decl("type", NormalizeName(x)) \in {Context, Event}}}

\* With those written twice into different files: an event called Impl.
Clashing(d) == Twice(d) \cup ({Impl} \cap Owed(d))

Declared == UNION {code[f] : f \in Files}

\* Resolve fails on a name that cannot be an identifier; what is owed and not
\* declared is unresolved.
Invalid(d)    == \E r \in EventRefs(d) \cup ActorRefs(d) \cup DelayRefs(d) :
                     ~ValidIdent(NormalizeName(r))
Unresolved(d) == Owed(d) \ Declared

-----------------------------------------------------------------------------
(***************************************************************************)
(* Methods: one per callsite, shared where the names agree.                *)
(***************************************************************************)
\* Wrong: a timer's event is taken for one of the user's.
EventedAfter(cs) == cs.via \in {"on", "after", "done", "error"} /\ cs.event \notin Generated

\* The callsite is given its event.
Evented(cs) == cs.via \in {"on", "done", "error"} /\ cs.event \notin Generated

Flat(d, n) == FlattenSeq([i \in DOMAIN Id(Docs[d])[n] |->
                             NormalizeName(Id(Docs[d])[n][i])])

MethodName(d, cs) == NormalizeName(cs.type) \o <<"On">>
                     \o (IF Evented(cs) THEN EventGoName(cs) ELSE Flat(d, cs.source))

Method(name, arg, result) == [name |-> name, arg |-> arg, result |-> result]
Arg(cs) == IF Evented(cs) THEN EventGoName(cs) ELSE <<>>

ActionMethod(d, cs) == Method(MethodName(d, cs), Arg(cs), "ActionResult")

\* A guard type on several callsites has one method, without the event.
Reused(d, cs) == LET all == GuardCallsites(Docs[d])
                 IN  Cardinality({i \in DOMAIN all :
                        NormalizeName(all[i].type) = NormalizeName(cs.type)}) > 1
GuardMethod(d, cs) ==
    IF Reused(d, cs) THEN Method(NormalizeName(cs.type), <<>>, "bool")
                     ELSE Method(MethodName(d, cs), Arg(cs), "bool")

\* The adapter a function's signature stands for; a stub is a promise.
Shape(words) == IF \E r \in reshaped : r.name = words
                THEN (CHOOSE r \in reshaped : r.name = words).shape ELSE "promise"
Mapped == {"promise", "machine"}
InputMethod(iv) == Method(NormalizeName(iv.src) \o <<"Input">>, <<>>, iv.src)
Inputs(d) == {InputMethod(iv) : iv \in {x \in Invokes(d) :
                 /\ Decl("func", NormalizeName(x.src)) \in Declared
                 /\ Shape(NormalizeName(x.src)) \in Mapped}}

\* What dispatch calls, by callsite.
Applier(d) == LET all == ActionCallsites(Docs[d])
              IN  [i \in DOMAIN all |-> ActionMethod(d, all[i])]
GuardEval(d) == LET all == GuardCallsites(Docs[d])
                IN  [i \in DOMAIN all |-> GuardMethod(d, all[i])]

\* implMethods: of those with one name only the first is kept.
FirstNamed(ms) == {ms[i] : i \in {k \in DOMAIN ms :
                               \A j \in 1..(k - 1) : ms[j].name # ms[k].name}}
ImplMethods(d) == FirstNamed(Applier(d) \o GuardEval(d) \o SetToSeq(Inputs(d)))

\* The event types the facade itself declares.
DoneErrorEvents(d) == {EventGoName(e) : e \in {x \in EdgesOf(d) :
                                                  x.via \in {"done", "error"}}}

\* Only these three adapters are registered.
Registered(d) == {iv.id : iv \in {x \in Invokes(d) :
                     Shape(NormalizeName(x.src)) \in {"promise", "callback", "machine"}}}

Emit(d) == [doc |-> d, applier |-> Applier(d), guards |-> GuardEval(d),
            methods |-> ImplMethods(d), events |-> DoneErrorEvents(d),
            registered |-> Registered(d)]

-----------------------------------------------------------------------------
(***************************************************************************)
(* Stubs.                                                                  *)
(***************************************************************************)
\* Wrong: every method is written, those that are there as well.
StubBehaviorAnew(d) ==
    {Decl("method", m.name) : m \in ImplMethods(d)}
    \cup (IF Impl \in Declared THEN {} ELSE {Impl})

StubBehavior(d) ==
    LET missing == {Decl("method", m.name) : m \in ImplMethods(d)} \ Declared
    IN  IF missing # {} /\ Impl \notin Declared THEN missing \cup {Impl} ELSE missing

FileOf(decl) == CASE decl.kind = "type"  -> "events"
                  [] decl.kind = "func"  -> "actors"
                  [] decl.kind = "const" -> "delays"
                  [] OTHER               -> "behavior"

Stub(d) ==
    [f \in Files |->
        IF f = "behavior" THEN StubBehavior(d)
        ELSE {u \in Unresolved(d) \cup ({Event} \ Declared) : FileOf(u) = f}]

Nothing == [f \in Files |-> {}]
NoFile  == [name |-> "none", content |-> {}]

-----------------------------------------------------------------------------
(***************************************************************************)
(* The commands.                                                           *)
(***************************************************************************)
ToolInit ==
    /\ tool = "idle" /\ command = "none" /\ def = 0 /\ held = NoFile
    /\ todo = Nothing /\ code = Nothing /\ reshaped = {} /\ byHand = 0
    /\ gen = <<>> /\ torn = FALSE /\ written = {} /\ repeated = {}

Run(c) ==
    /\ tool = "idle" /\ command' = c
    /\ tool' = IF c = "init" THEN "files" ELSE "load"
    /\ UNCHANGED <<def, held, todo, codeVars, genVars, fileVars>>

\* init: the starter document and gen.go, where there are none.
InitMachine ==
    /\ tool = "files" /\ tool' = "load"
    /\ IF file = Missing THEN file' = 1 /\ Touch ELSE UNCHANGED <<file, mtime>>
    /\ UNCHANGED <<command, def, held, todo, codeVars, genVars, saves>>

\* The command is over; init goes on from stub to generate.
Finish(ok) == IF command = "init" /\ ok
              THEN tool' = "load" /\ command' = "generate"
              ELSE tool' = "idle" /\ command' = "none"

LoadDef ==
    /\ tool = "load" /\ def' = Loaded(file)
    /\ IF def' = 0 THEN Finish(FALSE) ELSE tool' = "resolve" /\ UNCHANGED command
    /\ UNCHANGED <<held, todo, codeVars, genVars, fileVars>>

\* generate writes nothing while a name is unresolved.
Generate ==
    /\ tool = "resolve" /\ command = "generate"
    /\ Finish(TRUE) /\ def' = 0
    /\ gen' = IF Invalid(def) \/ Unresolved(def) # {} THEN gen ELSE <<Emit(def)>>
    /\ UNCHANGED <<held, todo, codeVars, torn, fileVars>>

\* stub has nothing to do where every name resolves.
StubStart ==
    /\ tool = "resolve" /\ command # "generate"
    /\ IF Invalid(def) \/ Unresolved(def) = {}
       THEN Finish(~Invalid(def)) /\ def' = 0 /\ UNCHANGED todo
       ELSE tool' = "append" /\ todo' = Stub(def) /\ UNCHANGED <<command, def>>
    /\ UNCHANGED <<held, codeVars, genVars, fileVars>>

\* appendToFile reads the file and truncates it, files in no set order ...
Rewrite(f) ==
    /\ tool = "append" /\ todo[f] # {} /\ tool' = "write"
    /\ held' = [name |-> f, content |-> code[f]]
    /\ code' = [code EXCEPT ![f] = {}]
    /\ UNCHANGED <<command, def, todo, reshaped, byHand, written, repeated,
                   genVars, fileVars>>

\* Wrong: the stubs take the place of what the file held.
AppendOver ==
    /\ tool = "write"
    /\ LET f == held.name
       IN  /\ code' = [code EXCEPT ![f] = todo[f]]
           /\ repeated' = repeated \cup (todo[f] \cap Twice(def))
           /\ written' = written \cup todo[f]
           /\ todo' = [todo EXCEPT ![f] = {}]
    /\ held' = NoFile /\ tool' = "append"
    /\ UNCHANGED <<command, def, reshaped, byHand, genVars, fileVars>>

\* ... and writes it back with the stubs behind what it held.
AppendToFile ==
    /\ tool = "write"
    /\ LET f == held.name
       IN  /\ code' = [code EXCEPT ![f] = held.content \cup todo[f]]
           /\ repeated' = repeated \cup
                  (todo[f] \cap (held.content \cup Declared \cup Twice(def)))
           /\ written' = written \cup todo[f]
           /\ todo' = [todo EXCEPT ![f] = {}]
    /\ held' = NoFile /\ tool' = "append"
    /\ UNCHANGED <<command, def, reshaped, byHand, genVars, fileVars>>

StubDone ==
    /\ tool = "append" /\ todo = Nothing /\ Finish(TRUE) /\ def' = 0
    /\ UNCHANGED <<held, todo, codeVars, genVars, fileVars>>

Kill ==
    /\ tool # "idle" /\ tool' = "idle" /\ command' = "none"
    /\ def' = 0 /\ held' = NoFile /\ todo' = Nothing
    /\ torn' = (torn \/ tool = "write")
    /\ UNCHANGED <<codeVars, gen, fileVars>>

\* The developer.
SaveFile(d) ==
    /\ Save(d) \/ SaveRest(d)
    /\ UNCHANGED <<toolVars, codeVars, genVars>>

Declare(decl) ==
    /\ tool = "idle" /\ byHand < MaxCode /\ decl \notin Declared
    /\ byHand' = byHand + 1
    /\ code' = [code EXCEPT ![FileOf(decl)] = @ \cup {decl}]
    /\ written' = written \cup {decl}
    /\ UNCHANGED <<toolVars, reshaped, repeated, genVars, fileVars>>

Reshape(words, shape) ==
    /\ tool = "idle" /\ byHand < MaxCode /\ Decl("func", words) \in Declared
    /\ byHand' = byHand + 1
    /\ reshaped' = {r \in reshaped : r.name # words} \cup {[name |-> words, shape |-> shape]}
    /\ UNCHANGED <<toolVars, code, written, repeated, genVars, fileVars>>

Commands == \/ \E c \in {"init", "stub", "generate"} : Run(c)
            \/ InitMachine \/ LoadDef \/ Generate \/ StubStart
            \/ \E f \in Files : Rewrite(f)
            \/ AppendToFile \/ StubDone \/ Kill

\* A package with whatever its developer does to it.
pkgVars == <<fileVars, toolVars, codeVars, genVars>>
PkgNext == \/ Commands
           \/ \E d \in DOMAIN Docs : SaveFile(d)
           \/ \E decl : Declare(decl)
           \/ \E words, shape : Reshape(words, shape)
PkgSpec == FileInit /\ ToolInit /\ [][PkgNext]_pkgVars
-----------------------------------------------------------------------------
(***************************************************************************)
(* Properties.                                                             *)
(***************************************************************************)
\* What the charts declare for more than one of their names.
Doubled == UNION {Clashing(d) : d \in Good}

\* Stubs are appended beside no declaration of the same kind and name, however
\* often stub runs, is killed between two files or finds the chart grown.  What
\* two events of one chart normalise to, or an event and one of the tool's own
\* types, is declared for both: CheckCollisions is never called.
NoRedeclaration == repeated \subseteq Doubled

\* Whatever was declared, by hand or by stub, is still there when no file is
\* being rewritten: unless a command was killed between its truncation of a
\* file and its write.
KeepsCode == torn \/ tool = "write" \/ written \subseteq Declared

\* Charts whose callsites agree on a method where they agree on its name.  The
\* generator does not look: an action on the entry of a state and on an event
\* that is called like that state has one method, with the event or without.
MethodsAgree(d) ==
    \A m, k \in Range(Applier(d)) \cup Range(GuardEval(d)) : m.name = k.name => m = k

\* The generated dispatch calls only methods that Implementations has, with that
\* signature, and asserts only event types that the facade or the package
\* declares.
DispatchFits == gen # <<>> /\ ~torn /\ tool # "write" =>
    LET g     == gen[1]
        calls == Range(g.applier) \cup Range(g.guards)
    IN  \A m \in calls :
            /\ m \in g.methods
            /\ m.arg = <<>> \/ m.arg \in g.events \/ Decl("type", m.arg) \in Declared
=============================================================================
