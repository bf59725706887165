-------------------------- MODULE ToolchainProofs --------------------------
(***************************************************************************)
(* What stub and generate do to a package, and what the diagram is drawn   *)
(* from, for every set of documents, whatever is saved, declared and       *)
(* reshaped, and wherever a command is killed.                             *)
(***************************************************************************)
EXTENDS Toolchain, Watch, FiniteSetTheorems, SequenceTheorems,
        WellFoundedInduction, TLAPS

(***************************************************************************)
(* The inductive invariant.                                                *)
(***************************************************************************)
\* A set of declarations for each of the package's files.
OnFiles(g) == g = [f \in Files |-> g[f]]

\* Where the command is: what it holds and what it still has to write.
StepInv ==
    /\ OnFiles(code) /\ OnFiles(todo)
    /\ tool \in {"resolve", "append", "write"} => def \in Good
    /\ tool \notin {"append", "write"} => todo = Nothing
    /\ tool # "write" => held = NoFile
    /\ tool = "write" => held.name \in Files /\ code[held.name] = {}

\* The declarations of the package, those in the file that is being rewritten
\* included.
Present == Declared \cup held.content

\* A stub that is still to be written is the only one of its like, and nothing
\* like it is there: but for Impl, where an event has that name.
FreshInv ==
    \A f \in Files : \A decl \in todo[f] :
        \/ /\ decl \notin Present
           /\ \A g \in Files \ {f} : decl \notin todo[g]
        \/ decl = Impl /\ Impl \in Owed(def)

\* Nothing is lost but in a rewriting that was cut short.
KeepInv == Present \subseteq written /\ (torn \/ written \subseteq Present)

StubInv == StepInv /\ FreshInv /\ NoRedeclaration /\ KeepInv

-----------------------------------------------------------------------------
(***************************************************************************)
(* What the stubs of a document are.                                       *)
(***************************************************************************)
\* Every stub is for the file of its kind, but for Impl, which stands with its
\* methods.
LEMMA StubPlace ==
    ASSUME NEW d, NEW f \in Files, NEW decl \in Stub(d)[f]
    PROVE  \/ FileOf(decl) = f
           \/ decl = Impl /\ f = "behavior"
  <1>1. CASE f = "behavior"
    <2>1. decl \in StubBehavior(d)
      BY <1>1 DEF Stub
    <2>2. CASE decl = Impl
      BY <1>1, <2>2
    <2>3. CASE decl # Impl
      <3>1. \E m \in ImplMethods(d) : decl = Decl("method", m.name)
        BY <2>1, <2>3 DEF StubBehavior
      <3>2. FileOf(decl) = "behavior"
        BY <3>1 DEF FileOf, Decl
      <3>3. QED
        BY <1>1, <3>2
    <2>4. QED
      BY <2>2, <2>3
  <1>2. CASE f # "behavior"
    BY <1>2 DEF Stub
  <1>3. QED
    BY <1>1, <1>2

\* No stub is of something that is there.
LEMMA StubFresh ==
    ASSUME NEW d, NEW f \in Files, NEW decl \in Stub(d)[f]
    PROVE  decl \notin Declared
  <1>1. CASE f = "behavior"
    BY <1>1 DEF Stub, StubBehavior
  <1>2. CASE f # "behavior"
    BY <1>2 DEF Stub, Unresolved
  <1>3. QED
    BY <1>1, <1>2

\* Impl is stubbed among the types only as an event of that name: Event is
\* another one.
LEMMA StubImpl ==
    ASSUME NEW d, NEW f \in Files \ {"behavior"}, Impl \in Stub(d)[f]
    PROVE  Impl \in Owed(d)
  <1>1. Impl \in Unresolved(d) \cup {Event}
    BY DEF Stub
  <1>2. Impl # Event
    BY DEF Impl, Event, Decl
  <1>3. QED
    BY <1>1, <1>2 DEF Unresolved

\* No two files get a stub of the same thing, but for Impl.
LEMMA StubOnce ==
    ASSUME NEW d, NEW f \in Files, NEW g \in Files \ {f},
           NEW decl \in Stub(d)[f], decl \in Stub(d)[g]
    PROVE  decl = Impl /\ Impl \in Owed(d)
  <1>1. FileOf(decl) = f \/ (decl = Impl /\ f = "behavior")
    BY StubPlace
  <1>2. FileOf(decl) = g \/ (decl = Impl /\ g = "behavior")
    BY StubPlace
  <1>3. decl = Impl /\ (f = "behavior" \/ g = "behavior")
    BY <1>1, <1>2
  <1>4. QED
    BY <1>3, StubImpl

\* All of it at once.
LEMMA StubIsFresh ==
    ASSUME NEW d, NEW f \in Files, NEW decl \in Stub(d)[f]
    PROVE  /\ decl \notin Declared
           /\ \/ \A g \in Files \ {f} : decl \notin Stub(d)[g]
              \/ decl = Impl /\ Impl \in Owed(d)
  BY StubFresh, StubOnce

-----------------------------------------------------------------------------
(***************************************************************************)
(* The invariant holds at first and is kept by every step.                 *)
(***************************************************************************)
\* An empty package.
LEMMA StubInit == ToolInit => StubInv
  <1> SUFFICES ASSUME ToolInit PROVE StubInv
    OBVIOUS
  <1> USE DEF ToolInit
  <1>1. StepInv
    BY DEF StepInv, OnFiles, Nothing
  <1>2. FreshInv
    BY DEF FreshInv, Nothing
  <1>3. NoRedeclaration /\ KeepInv
    BY DEF NoRedeclaration, KeepInv, Present, Declared, Nothing, NoFile
  <1>4. QED
    BY <1>1, <1>2, <1>3 DEF StubInv

\* The steps that write no file, while none is being rewritten.
LEMMA StubQuiet ==
    ASSUME StubInv, UNCHANGED <<held, todo, code, written, repeated, torn>>,
           tool \notin {"append", "write"}, tool' \notin {"append", "write"},
           tool' = "resolve" => def' \in Good
    PROVE  StubInv'
  <1> USE DEF StubInv
  <1>1. StepInv'
    BY DEF StepInv, OnFiles, Nothing
  <1>2. FreshInv'
    BY DEF StepInv, FreshInv, Nothing
  <1>3. NoRedeclaration'
    BY DEF NoRedeclaration
  <1>4. KeepInv'
    BY DEF KeepInv, Present, Declared
  <1>5. QED
    BY <1>1, <1>2, <1>3, <1>4

\* The others, action by action.
LEMMA StubStartStep == ASSUME StubInv, StubStart PROVE StubInv'
  <1> USE DEF StubInv
  <1>1. CASE Invalid(def) \/ Unresolved(def) = {}
    <2>1. tool' \in {"load", "idle"}
      BY <1>1 DEF StubStart, Finish
    <2>2. UNCHANGED <<held, todo, code, written, repeated, torn>>
      BY <1>1 DEF StubStart, codeVars, genVars
    <2>3. tool = "resolve"
      BY DEF StubStart
    <2>4. QED
      BY <2>1, <2>2, <2>3, StubQuiet
  <1>2. CASE ~(Invalid(def) \/ Unresolved(def) = {})
    <2>1. /\ tool = "resolve" /\ tool' = "append" /\ todo' = Stub(def)
          /\ UNCHANGED <<def, held, code, written, repeated, torn>>
      BY <1>2 DEF StubStart, codeVars, genVars
    <2>2. held = NoFile /\ Present = Declared /\ Present' = Declared
      BY <2>1 DEF StepInv, Present, NoFile, Declared
    <2>3. StepInv'
      BY <2>1 DEF StepInv, OnFiles, Stub
    <2>4. FreshInv'
      <3> SUFFICES ASSUME NEW f \in Files, NEW decl \in todo'[f]
                   PROVE  \/ /\ decl \notin Present'
                             /\ \A g \in Files \ {f} : decl \notin todo'[g]
                          \/ decl = Impl /\ Impl \in Owed(def')
        BY DEF FreshInv
      <3>1. Owed(def') = Owed(def)
        BY <2>1
      <3>2. QED
        BY <2>1, <2>2, <3>1, StubIsFresh
    <2>5. NoRedeclaration'
      BY <2>1 DEF NoRedeclaration
    <2>6. KeepInv'
      BY <2>1, <2>2 DEF KeepInv, StepInv
    <2>7. QED
      BY <2>3, <2>4, <2>5, <2>6
  <1>3. QED
    BY <1>1, <1>2

\* The file's declarations go from the file into the command's hands.
LEMMA RewriteStep == ASSUME StubInv, NEW f \in Files, Rewrite(f) PROVE StubInv'
  <1> USE DEF StubInv
  <1>1. /\ tool = "append" /\ tool' = "write" /\ todo[f] # {}
        /\ held' = [name |-> f, content |-> code[f]]
        /\ code' = [code EXCEPT ![f] = {}]
        /\ UNCHANGED <<def, todo, written, repeated, torn>>
    BY DEF Rewrite, genVars
  <1>2. StepInv'
    BY <1>1 DEF StepInv, OnFiles
  <1>3. Present' = Present
    <2>1. held.content = {} /\ code = [g \in Files |-> code[g]]
      BY <1>1 DEF StepInv, NoFile, OnFiles
    <2>2. Declared' = UNION {code[g] : g \in Files \ {f}}
      BY <1>1, <2>1 DEF Declared
    <2>3. Declared = code[f] \cup UNION {code[g] : g \in Files \ {f}}
      BY DEF Declared
    <2>4. QED
      BY <1>1, <2>1, <2>2, <2>3 DEF Present
  <1>4. FreshInv'
    BY <1>1, <1>3 DEF FreshInv
  <1>5. NoRedeclaration'
    BY <1>1 DEF NoRedeclaration
  <1>6. KeepInv'
    BY <1>1, <1>3 DEF KeepInv
  <1>7. QED
    BY <1>2, <1>4, <1>5, <1>6

\* They are written back, with the stubs.
LEMMA AppendStep == ASSUME StubInv, AppendToFile PROVE StubInv'
  <1> USE DEF StubInv
  <1> DEFINE f == held.name
  <1>1. /\ tool = "write" /\ tool' = "append" /\ held' = NoFile
        /\ code' = [code EXCEPT ![f] = held.content \cup todo[f]]
        /\ repeated' = repeated \cup (todo[f] \cap (Present \cup Twice(def)))
        /\ written' = written \cup todo[f]
        /\ todo' = [todo EXCEPT ![f] = {}]
        /\ UNCHANGED <<def, torn>>
    BY DEF AppendToFile, genVars, Present
  <1>2. /\ f \in Files /\ code[f] = {} /\ def \in Good
        /\ code = [g \in Files |-> code[g]] /\ todo = [g \in Files |-> todo[g]]
    BY <1>1 DEF StepInv, OnFiles
  <1> HIDE DEF f
  <1>3. StepInv'
    BY <1>1, <1>2 DEF StepInv, OnFiles
  <1>4. Present' = Present \cup todo[f]
    <2>1. Declared = UNION {code[g] : g \in Files \ {f}}
      BY <1>2 DEF Declared
    <2>2. Declared' = held.content \cup todo[f] \cup UNION {code[g] : g \in Files \ {f}}
      BY <1>1, <1>2 DEF Declared
    <2>3. held'.content = {}
      BY <1>1 DEF NoFile
    <2>4. QED
      BY <2>1, <2>2, <2>3 DEF Present
  <1>5. FreshInv'
    <2> SUFFICES ASSUME NEW g \in Files, NEW decl \in todo'[g]
                 PROVE  \/ /\ decl \notin Present'
                           /\ \A h \in Files \ {g} : decl \notin todo'[h]
                        \/ decl = Impl /\ Impl \in Owed(def')
      BY DEF FreshInv
    <2>1. /\ g # f /\ decl \in todo[g]
          /\ \A h \in Files : todo'[h] \subseteq todo[h]
      BY <1>1, <1>2
    <2>2. Owed(def') = Owed(def)
      BY <1>1
    <2>3. QED
      BY <1>2, <1>4, <2>1, <2>2 DEF FreshInv
  <1>6. NoRedeclaration'
    <2> SUFFICES ASSUME NEW decl \in repeated' \ repeated
                 PROVE  decl \in Clashing(def)
      BY <1>2 DEF NoRedeclaration, Doubled
    <2>1. decl \in todo[f] /\ decl \in Present \cup Twice(def)
      BY <1>1
    <2>2. CASE decl \in Twice(def)
      BY <2>2 DEF Clashing
    <2>3. CASE decl \in Present
      BY <1>2, <2>1, <2>3 DEF FreshInv, Clashing
    <2>4. QED
      BY <2>1, <2>2, <2>3
  <1>7. KeepInv'
    BY <1>1, <1>4 DEF KeepInv
  <1>8. QED
    BY <1>3, <1>5, <1>6, <1>7

\* The command is over, all stubs written.
LEMMA DoneStep == ASSUME StubInv, StubDone PROVE StubInv'
  <1> USE DEF StubInv
  <1>1. /\ tool = "append" /\ tool' \in {"load", "idle"} /\ todo = Nothing
        /\ UNCHANGED <<held, todo, code, written, repeated, torn>>
    BY DEF StubDone, Finish, codeVars, genVars
  <1>2. StepInv'
    BY <1>1 DEF StepInv, OnFiles
  <1>3. FreshInv'
    BY <1>1 DEF FreshInv, Nothing
  <1>4. NoRedeclaration' /\ KeepInv'
    BY <1>1 DEF NoRedeclaration, KeepInv, Present, Declared
  <1>5. QED
    BY <1>2, <1>3, <1>4

\* What the command held is lost with it, and so is what it had still to write.
LEMMA KillStep == ASSUME StubInv, Kill PROVE StubInv'
  <1> USE DEF StubInv
  <1>1. /\ tool' = "idle" /\ held' = NoFile /\ todo' = Nothing
        /\ torn' = (torn \/ tool = "write")
        /\ UNCHANGED <<code, written, repeated>>
    BY DEF Kill, codeVars
  <1>2. StepInv'
    BY <1>1 DEF StepInv, OnFiles, Nothing
  <1>3. FreshInv'
    BY <1>1 DEF FreshInv, Nothing
  <1>4. NoRedeclaration'
    BY <1>1 DEF NoRedeclaration
  <1>5. KeepInv'
    <2>1. Present' = Declared
      BY <1>1 DEF Present, Declared, NoFile
    <2>2. CASE tool = "write" \/ torn
      BY <1>1, <2>1, <2>2 DEF KeepInv, Present
    <2>3. CASE tool # "write" /\ ~torn
      BY <1>1, <2>1, <2>3 DEF KeepInv, StepInv, Present, NoFile
    <2>4. QED
      BY <2>2, <2>3
  <1>6. QED
    BY <1>2, <1>3, <1>4, <1>5

\* A declaration by hand, in the file of its kind.
LEMMA DeclareStep == ASSUME StubInv, NEW decl, Declare(decl) PROVE StubInv'
  <1> USE DEF StubInv
  <1> DEFINE f == FileOf(decl)
  <1>1. /\ tool = "idle" /\ code' = [code EXCEPT ![f] = @ \cup {decl}]
        /\ written' = written \cup {decl}
        /\ UNCHANGED <<tool, def, held, todo, repeated, torn>>
    BY DEF Declare, toolVars, genVars
  <1>2. f \in Files /\ todo = Nothing /\ code = [g \in Files |-> code[g]]
    BY <1>1 DEF FileOf, Files, StepInv, OnFiles
  <1> HIDE DEF f
  <1>3. StepInv'
    BY <1>1, <1>2 DEF StepInv, OnFiles
  <1>4. FreshInv'
    BY <1>1, <1>2 DEF FreshInv, Nothing
  <1>5. NoRedeclaration'
    BY <1>1 DEF NoRedeclaration
  <1>6. Present' = Present \cup {decl}
    BY <1>1, <1>2 DEF Present, Declared
  <1>7. KeepInv'
    BY <1>1, <1>6 DEF KeepInv
  <1>8. QED
    BY <1>3, <1>4, <1>5, <1>7

\* The other steps of the commands.
LEMMA CommandSteps ==
    ASSUME StubInv, NEW c \in {"init", "stub", "generate"},
           Run(c) \/ InitMachine \/ LoadDef \/ Generate
    PROVE  StubInv'
  <1> USE DEF codeVars, genVars
  <1>1. CASE Run(c)
    BY <1>1, StubQuiet DEF Run
  <1>2. CASE InitMachine
    BY <1>2, StubQuiet DEF InitMachine
  <1>3. CASE LoadDef
    <2>1. def' # 0 => def' \in Good
      BY <1>3 DEF LoadDef, Loaded
    <2>2. /\ tool = "load" /\ tool' \in {"load", "idle", "resolve"}
          /\ tool' = "resolve" => def' # 0
      BY <1>3 DEF LoadDef, Finish
    <2>3. QED
      BY <1>3, <2>1, <2>2, StubQuiet DEF LoadDef
  <1>4. CASE Generate
    <2>1. tool = "resolve" /\ tool' \in {"load", "idle"}
      BY <1>4 DEF Generate, Finish
    <2>2. QED
      BY <1>4, <2>1, StubQuiet DEF Generate
  <1>5. QED
    BY <1>1, <1>2, <1>3, <1>4

\* What the developer does beside declarations, and nothing at all.
LEMMA OtherSteps ==
    ASSUME StubInv,
           \/ \E d \in DOMAIN Docs : SaveFile(d)
           \/ \E words, shape : Reshape(words, shape)
           \/ UNCHANGED pkgVars
    PROVE  StubInv'
  <1>1. UNCHANGED <<tool, def, held, todo, code, written, repeated, torn>>
    BY DEF SaveFile, Reshape, pkgVars, toolVars, codeVars, genVars
  <1>2. StepInv' /\ FreshInv' /\ NoRedeclaration' /\ KeepInv'
    BY <1>1 DEF StubInv, StepInv, OnFiles, FreshInv, NoRedeclaration, KeepInv,
                Present, Declared
  <1>3. QED
    BY <1>2 DEF StubInv

\* The invariant holds.
THEOREM StubInvariance == PkgSpec => []StubInv
  <1>1. ToolInit => StubInv
    BY StubInit
  <1>2. StubInv /\ [PkgNext]_pkgVars => StubInv'
    <2> SUFFICES ASSUME StubInv, [PkgNext]_pkgVars PROVE StubInv'
      OBVIOUS
    <2>1. CASE \E c \in {"init", "stub", "generate"} : Run(c)
      BY <2>1, CommandSteps
    <2>2. CASE InitMachine \/ LoadDef \/ Generate
      BY <2>2, CommandSteps
    <2>3. CASE StubStart
      BY <2>3, StubStartStep
    <2>4. CASE \E f \in Files : Rewrite(f)
      BY <2>4, RewriteStep
    <2>5. CASE AppendToFile
      BY <2>5, AppendStep
    <2>6. CASE StubDone
      BY <2>6, DoneStep
    <2>7. CASE Kill
      BY <2>7, KillStep
    <2>8. CASE \E decl : Declare(decl)
      BY <2>8, DeclareStep
    <2>9. CASE \/ \E d \in DOMAIN Docs : SaveFile(d)
               \/ \E words, shape : Reshape(words, shape)
               \/ UNCHANGED pkgVars
      BY <2>9, OtherSteps
    <2>10. QED
      BY <2>1, <2>2, <2>3, <2>4, <2>5, <2>6, <2>7, <2>8, <2>9 DEF PkgNext, Commands
  <1>3. QED
    BY <1>1, <1>2, PTL DEF PkgSpec

-----------------------------------------------------------------------------
(***************************************************************************)
(* The theorems.                                                           *)
(***************************************************************************)
\* Stub never declares what is there already, except what one document names
\* twice: for every history of saves, declarations, commands and kills.
THEOREM StubsAreNew == PkgSpec => []NoRedeclaration
  <1>1. StubInv => NoRedeclaration
    BY DEF StubInv
  <1>2. QED
    BY <1>1, StubInvariance, PTL

\* No declaration is ever lost but by a command that was killed between the
\* truncation of a file and its write.
THEOREM CodeIsKept == PkgSpec => []KeepsCode
  <1>1. StubInv => KeepsCode
    <2> SUFFICES ASSUME StubInv, ~torn, tool # "write" PROVE written \subseteq Declared
      BY DEF KeepsCode
    <2>1. held.content = {}
      BY DEF StubInv, StepInv, NoFile
    <2>2. QED
      BY <2>1 DEF StubInv, KeepInv, Present
  <1>2. QED
    BY <1>1, StubInvariance, PTL

-----------------------------------------------------------------------------
(***************************************************************************)
(* The facade and the package.                                             *)
(***************************************************************************)
\* What the facade's document refers to has been declared.
FacadeInv == gen # <<>> => Owed(gen[1].doc) \subseteq written

\* A facade is written only where everything is declared, and no declaration
\* is forgotten.
LEMMA FacadeStep ==
    ASSUME StubInv, FacadeInv, [PkgNext]_pkgVars
    PROVE  FacadeInv'
  <1>1. CASE Generate
    <2>1. CASE gen' = gen
      BY <1>1, <2>1 DEF FacadeInv, Generate, codeVars
    <2>2. CASE gen' = <<Emit(def)>> /\ Unresolved(def) = {}
      <3>1. Owed(def) \subseteq written
        BY <2>2 DEF Unresolved, StubInv, KeepInv, Present
      <3>2. gen'[1].doc = def /\ written' = written
        BY <1>1, <2>2 DEF Emit, Generate, codeVars
      <3>3. QED
        BY <3>1, <3>2 DEF FacadeInv
    <2>3. QED
      BY <1>1, <2>1, <2>2 DEF Generate
  <1>2. CASE ~Generate
    <2> USE DEF toolVars, codeVars, genVars, pkgVars
    <2>1. CASE \/ \E c \in {"init", "stub", "generate"} : Run(c)
               \/ InitMachine \/ LoadDef \/ StubStart \/ StubDone \/ Kill
      BY <2>1 DEF FacadeInv, Run, InitMachine, LoadDef, StubStart, StubDone, Kill
    <2>2. CASE (\E f \in Files : Rewrite(f)) \/ AppendToFile
      BY <2>2 DEF FacadeInv, Rewrite, AppendToFile
    <2>3. CASE \/ \E decl : Declare(decl)
               \/ \E d \in DOMAIN Docs : SaveFile(d)
               \/ \E words, shape : Reshape(words, shape)
               \/ UNCHANGED pkgVars
      BY <2>3 DEF FacadeInv, Declare, SaveFile, Reshape
    <2>4. QED
      BY <1>2, <2>1, <2>2, <2>3 DEF PkgNext, Commands
  <1>3. QED
    BY <1>1, <1>2

FacadeDeclared ==
    gen # <<>> => torn \/ tool = "write" \/ Owed(gen[1].doc) \subseteq Declared

\* Every name that the generated facade takes from the package is declared
\* there, however long ago it was generated and whatever was saved, stubbed and
\* killed since: unless a rewriting was cut short, or is going on.
THEOREM FacadeResolves == PkgSpec => []FacadeDeclared
  <1>1. FileInit /\ ToolInit => FacadeInv
    BY DEF ToolInit, FacadeInv
  <1>2. StubInv /\ FacadeInv /\ [PkgNext]_pkgVars => FacadeInv'
    BY FacadeStep
  <1>3. FacadeInv /\ KeepsCode => FacadeDeclared
    BY DEF FacadeInv, KeepsCode, FacadeDeclared
  <1>4. QED
    BY <1>1, <1>2, <1>3, StubInvariance, CodeIsKept, PTL DEF PkgSpec

-----------------------------------------------------------------------------
(***************************************************************************)
(* Induction, and the sequences FlattenSeq makes.                          *)
(***************************************************************************)
\* A set of numbers has a least one.
LEMMA Least ==
    ASSUME NEW S \in SUBSET Nat, S # {}
    PROVE  \E k \in S : \A i \in S : k <= i
  <1> DEFINE Less == {ss \in Nat \X Nat : ss[1] < ss[2]}
  <1>1. IsWellFoundedOn(Less, Nat)
    BY NatLessThanWellFounded, Zenon DEF OpToRel
  <1>2. PICK k \in S : \A i \in S : ~ <<i, k>> \in Less
    BY <1>1, WFMin, Zenon
  <1>3. \A i, j \in Nat : i < j => <<i, j>> \in Less
    OBVIOUS
  <1> HIDE DEF Less
  <1>4. ASSUME NEW i \in S PROVE k <= i
    <2>1. i \in Nat /\ k \in Nat /\ ~ <<i, k>> \in Less
      BY <1>2
    <2>2. ~ (i < k)
      BY <2>1, <1>3, Zenon
    <2> QED  BY <2>1, <2>2
  <1> QED  BY <1>4

\* A set that holds every number whose smaller ones it holds.
LEMMA Upward ==
    ASSUME NEW b \in Nat, NEW S, \A k \in 1 .. b : (\A i \in 1 .. k - 1 : i \in S) => k \in S
    PROVE  \A k \in 1 .. b : k \in S
  <1> SUFFICES ASSUME NEW m \in 1 .. b, m \notin S PROVE FALSE  OBVIOUS
  <1> DEFINE U == {k \in 1 .. b : k \notin S}
  <1>1. U \in SUBSET Nat /\ U # {}
    OBVIOUS
  <1>2. PICK k \in U : \A i \in U : k <= i
    BY <1>1, Least, Zenon
  <1>3. \A i \in 1 .. k - 1 : i \in S
    BY <1>2
  <1> QED  BY <1>2, <1>3

\* Induction from the last number down.
LEMMA Downward ==
    ASSUME NEW b \in Nat, NEW S,
           \A k \in 1 .. b : (\A i \in k + 1 .. b : i \in S) => k \in S
    PROVE  \A k \in 1 .. b : k \in S
  <1> DEFINE T == {k \in 1 .. b : b + 1 - k \in S}
  <1>1. ASSUME NEW k \in 1 .. b, \A i \in 1 .. k - 1 : i \in T PROVE k \in T
    <2>1. \A i \in (b + 1 - k) + 1 .. b : i \in S
      <3> SUFFICES ASSUME NEW i \in (b + 1 - k) + 1 .. b PROVE i \in S  OBVIOUS
      <3>1. b + 1 - i \in 1 .. k - 1 /\ b + 1 - (b + 1 - i) = i
        OBVIOUS
      <3> QED  BY <3>1, <1>1
    <2>2. b + 1 - k \in 1 .. b
      OBVIOUS
    <2> QED  BY <2>1, <2>2
  <1>2. \A k \in 1 .. b : k \in T
    <2> HIDE DEF T
    <2> QED  BY <1>1, Upward, Zenon
  <1>3. ASSUME NEW k \in 1 .. b PROVE k \in S
    <2>1. b + 1 - k \in 1 .. b /\ b + 1 - (b + 1 - k) = k
      OBVIOUS
    <2> QED  BY <2>1, <1>2
  <1> QED  BY <1>3

\* What a concatenation holds, and where.
LEMMA ConcatLays ==
    ASSUME NEW S, NEW s \in Seq(S), NEW t \in Seq(S)
    PROVE  /\ s \o t \in Seq(S) /\ Len(s \o t) = Len(s) + Len(t)
           /\ \A k \in 1 .. Len(s) : (s \o t)[k] = s[k]
           /\ \A k \in 1 .. Len(t) : (s \o t)[Len(s) + k] = t[k]
  OBVIOUS

\* What FlattenSeq computes: the concatenation of each prefix.
PrefixRule(seqs, f) == [i \in 1 .. Len(seqs) |-> IF i = 1 THEN seqs[i] ELSE f[i - 1] \o seqs[i]]

\* The recursion of FlattenSeq ends: there are such prefixes.
LEMMA PrefixesExist ==
    ASSUME NEW S, NEW seqs \in Seq(Seq(S))
    PROVE  \E f : f = PrefixRule(seqs, f) /\ f \in [1 .. Len(seqs) -> Seq(S)]
  <1> DEFINE n == Len(seqs)
             Q == Seq(S)
             Fits(g, k) == /\ g \in [1 .. n -> Q]
                           /\ \A i \in 1 .. k : g[i] = IF i = 1 THEN seqs[i] ELSE g[i - 1] \o seqs[i]
             T == {k \in 1 .. n : \E g : Fits(g, k)}
  <1>1. n \in Nat /\ \A i \in 1 .. n : seqs[i] \in Q
    OBVIOUS
  <1>2. \A s, t \in Q : s \o t \in Q
    OBVIOUS
  <1>3. <<>> \in Q
    BY EmptySeq
  <1> HIDE DEF Q
  <1>4. ASSUME NEW k \in 1 .. n, \A i \in 1 .. k - 1 : i \in T PROVE k \in T
    <2>1. CASE k = 1
      <3> DEFINE g == [i \in 1 .. n |-> seqs[i]]
      <3>1. Fits(g, 1)
        BY <1>1
      <3> QED  BY <3>1, <2>1
    <2>2. CASE k # 1
      <3>0. k - 1 \in 1 .. k - 1
        BY <2>2
      <3>1. k - 1 \in T
        BY <1>4, <3>0
      <3>2. PICK g : Fits(g, k - 1)
        BY <3>1
      <3>a. g \in [1 .. n -> Q]
        BY <3>2
      <3>b. k - 1 \in 1 .. n /\ g[k - 1] \in Q /\ seqs[k] \in Q
        <4>1. k - 1 \in 1 .. n
          BY <3>0, <1>1
        <4> HIDE DEF n
        <4> QED  BY <4>1, <3>a, <1>1
      <3>3. g[k - 1] \o seqs[k] \in Q
        BY <3>b, <1>2, Zenon
      <3> DEFINE new == g[k - 1] \o seqs[k]
                 h   == [g EXCEPT ![k] = new]
      <3>4. h \in [1 .. n -> Q] /\ h[k] = g[k - 1] \o seqs[k]
            /\ \A i \in 1 .. k - 1 : h[i] = g[i]
        <4>1. new \in Q
          BY <3>3
        <4> HIDE DEF new, n
        <4>2. h \in [1 .. n -> Q] /\ h[k] = new /\ \A i \in 1 .. k - 1 : h[i] = g[i]
          BY <4>1, <3>a
        <4> QED  BY <4>2 DEF new
      <3>5. ASSUME NEW i \in 1 .. k
            PROVE  h[i] = IF i = 1 THEN seqs[i] ELSE h[i - 1] \o seqs[i]
        <4>1. CASE i = k
          BY <4>1, <3>0, <3>4, <2>2
        <4>2. CASE i # k
          <5>1. i \in 1 .. k - 1 /\ (i # 1 => i - 1 \in 1 .. k - 1)
            BY <4>2
          <5> QED  BY <5>1, <3>2, <3>4
        <4> QED  BY <4>1, <4>2
      <3>6. Fits(h, k)
        BY <3>4, <3>5
      <3> HIDE DEF Fits, h
      <3> QED  BY <3>6
    <2> QED  BY <2>1, <2>2
  <1>5. CASE n = 0
    <2> DEFINE f == [i \in 1 .. n |-> seqs[i]]
    <2>1. f = PrefixRule(seqs, f) /\ f \in [1 .. n -> Q]
      BY <1>5 DEF PrefixRule
    <2> QED  BY <2>1 DEF Q
  <1>6. CASE n # 0
    <2>1. \A k \in 1 .. n : k \in T
      <3> HIDE DEF T
      <3> QED  BY <1>1, <1>4, Upward, Zenon
    <2>2. n \in T
      <3> HIDE DEF T
      <3> QED  BY <1>1, <1>6, <2>1
    <2>3. PICK g : Fits(g, n)
      BY <2>2
    <2>4. g = PrefixRule(seqs, g)
      BY <2>3 DEF PrefixRule
    <2> QED  BY <2>3, <2>4 DEF Q
  <1> QED  BY <1>5, <1>6

\* What FlattenSeq returns: the sequences one behind the other, the i-th behind
\* at[i] elements.
Laid(seqs, flat, at) ==
    /\ \A i \in 1 .. Len(seqs) : \A k \in 1 .. Len(seqs[i]) :
           at[i] + k \in 1 .. Len(flat) /\ flat[at[i] + k] = seqs[i][k]
    /\ \A p \in 1 .. Len(flat) :
           \E i \in 1 .. Len(seqs) : \E k \in 1 .. Len(seqs[i]) : p = at[i] + k
    /\ \A i, j \in 1 .. Len(seqs) : i < j => at[i] + Len(seqs[i]) <= at[j]

\* FlattenSeq lays its parts one behind the other.
LEMMA FlattenLays ==
    ASSUME NEW S, NEW seqs \in Seq(Seq(S))
    PROVE  /\ FlattenSeq(seqs) \in Seq(S)
           /\ \E at \in [1 .. Len(seqs) -> Nat] : Laid(seqs, FlattenSeq(seqs), at)
  <1> DEFINE n == Len(seqs)
             f == CHOOSE f : f = PrefixRule(seqs, f)
  <1>a. n \in Nat /\ \A i \in 1 .. n : seqs[i] \in Seq(S)
    OBVIOUS
  <1>1. FlattenSeq(seqs) = IF n = 0 THEN seqs ELSE f[n]
    BY Zenon DEF FlattenSeq, PrefixRule
  <1>2. f = PrefixRule(seqs, f)
    BY PrefixesExist, Zenon
  <1> HIDE DEF f
  <1>3. \A i \in 1 .. n : f[i] = IF i = 1 THEN seqs[i] ELSE f[i - 1] \o seqs[i]
    BY <1>2 DEF PrefixRule
  <1>4. \A i \in 1 .. n : f[i] \in Seq(S)
    <2> DEFINE T == {i \in 1 .. n : f[i] \in Seq(S)}
    <2>1. ASSUME NEW k \in 1 .. n, \A i \in 1 .. k - 1 : i \in T PROVE k \in T
      <3>1. CASE k = 1
        BY <1>3, <1>a, <3>1
      <3>2. CASE k # 1
        <4>0. k - 1 \in 1 .. k - 1 /\ k \in 1 .. n
          BY <3>2
        <4>1. f[k - 1] \in Seq(S) /\ seqs[k] \in Seq(S) /\ f[k] = f[k - 1] \o seqs[k]
          BY <1>3, <1>a, <2>1, <3>2, <4>0
        <4> QED  BY <4>1, ConcatProperties
      <3> QED  BY <3>1, <3>2
    <2>2. \A k \in 1 .. n : k \in T
      <3> HIDE DEF T
      <3> QED  BY <1>a, <2>1, Upward, Zenon
    <2> QED  BY <2>2
  <1>c. f \in [1 .. n -> Seq(S)]
    <2>1. f = [i \in 1 .. n |-> f[i]]
      BY <1>2 DEF PrefixRule
    <2> QED  BY <2>1, <1>4
  <1> DEFINE at == [i \in 1 .. n |-> IF i = 1 THEN 0 ELSE Len(f[i - 1])]
  <1>5. \A i \in 1 .. n :
            /\ at[i] \in Nat /\ Len(seqs[i]) \in Nat /\ Len(f[i]) = at[i] + Len(seqs[i])
            /\ \A k \in 1 .. Len(seqs[i]) : f[i][at[i] + k] = seqs[i][k]
            /\ i > 1 => /\ at[i] = Len(f[i - 1])
                        /\ \A k \in 1 .. Len(f[i - 1]) : f[i][k] = f[i - 1][k]
    <2> SUFFICES ASSUME NEW i \in 1 .. n
                 PROVE  /\ at[i] \in Nat /\ Len(seqs[i]) \in Nat /\ Len(f[i]) = at[i] + Len(seqs[i])
                        /\ \A k \in 1 .. Len(seqs[i]) : f[i][at[i] + k] = seqs[i][k]
                        /\ i > 1 => /\ at[i] = Len(f[i - 1])
                                    /\ \A k \in 1 .. Len(f[i - 1]) : f[i][k] = f[i - 1][k]
      BY Zenon
    <2>1. CASE i = 1
      BY <1>3, <1>a, <2>1
    <2>2. CASE i # 1
      <3>0. i - 1 \in 1 .. n
        BY <2>2, <1>a
      <3>1. f[i - 1] \in Seq(S) /\ seqs[i] \in Seq(S)
            /\ f[i] = f[i - 1] \o seqs[i] /\ at[i] = Len(f[i - 1])
        BY <1>3, <1>4, <1>a, <2>2, <3>0
      <3> HIDE DEF at
      <3>2. /\ Len(f[i]) = Len(f[i - 1]) + Len(seqs[i])
            /\ \A k \in 1 .. Len(f[i - 1]) : f[i][k] = f[i - 1][k]
            /\ \A k \in 1 .. Len(seqs[i]) : f[i][Len(f[i - 1]) + k] = seqs[i][k]
        <4> DEFINE u == f[i - 1]
                   v == seqs[i]
        <4>1. u \in Seq(S) /\ v \in Seq(S) /\ f[i] = u \o v
          BY <3>1
        <4> HIDE DEF u, v
        <4>2. /\ Len(f[i]) = Len(u) + Len(v)
              /\ \A k \in 1 .. Len(u) : f[i][k] = u[k]
              /\ \A k \in 1 .. Len(v) : f[i][Len(u) + k] = v[k]
          <5>1. /\ Len(u \o v) = Len(u) + Len(v)
                /\ \A k \in 1 .. Len(u) : (u \o v)[k] = u[k]
                /\ \A k \in 1 .. Len(v) : (u \o v)[Len(u) + k] = v[k]
            BY <4>1, ConcatLays
          <5> QED  BY <4>1, <5>1, Zenon
        <4> QED  BY <4>2 DEF u, v
      <3>3. Len(f[i - 1]) \in Nat /\ Len(seqs[i]) \in Nat
        BY <3>1
      <3> QED  BY <3>1, <3>2, <3>3, Zenon
    <2> QED  BY <2>1, <2>2
  <1>b. at \in [1 .. n -> Nat]
    BY <1>5
  <1> HIDE DEF at
  <1>6. \A m \in 1 .. n : \A i \in 1 .. m :
            Len(f[i]) <= Len(f[m]) /\ \A p \in 1 .. Len(f[i]) : f[m][p] = f[i][p]
    <2> DEFINE T == {m \in 1 .. n : \A i \in 1 .. m :
            Len(f[i]) <= Len(f[m]) /\ \A p \in 1 .. Len(f[i]) : f[m][p] = f[i][p]}
    <2>1. ASSUME NEW k \in 1 .. n, \A i \in 1 .. k - 1 : i \in T PROVE k \in T
      <3> SUFFICES ASSUME NEW i \in 1 .. k
                   PROVE  Len(f[i]) <= Len(f[k]) /\ \A p \in 1 .. Len(f[i]) : f[k][p] = f[i][p]
        OBVIOUS
      <3>0. Len(f[k]) \in Nat
        BY <1>4
      <3>1. CASE i = k
        BY <3>0, <3>1
      <3>2. CASE i # k
        <4>1. k - 1 \in 1 .. n /\ i \in 1 .. k - 1 /\ k - 1 \in T
          BY <2>1, <3>2
        <4>2. Len(f[i]) <= Len(f[k - 1]) /\ \A p \in 1 .. Len(f[i]) : f[k - 1][p] = f[i][p]
          BY <4>1
        <4>3. Len(f[k - 1]) <= Len(f[k]) /\ \A p \in 1 .. Len(f[k - 1]) : f[k][p] = f[k - 1][p]
          <5>1. k > 1 /\ Len(f[k]) = at[k] + Len(seqs[k])
            BY <3>2, <1>5
          <5>2. at[k] = Len(f[k - 1]) /\ \A p \in 1 .. Len(f[k - 1]) : f[k][p] = f[k - 1][p]
            BY <5>1, <1>5
          <5>3. at[k] \in Nat /\ Len(seqs[k]) \in Nat
            BY <1>5
          <5>4. Len(f[k - 1]) <= Len(f[k])
            <6> DEFINE a == at[k]
                       b == Len(seqs[k])
            <6>1. a \in Nat /\ b \in Nat /\ Len(f[k]) = a + b /\ Len(f[k - 1]) = a
              BY <5>1, <5>2, <5>3, Zenon
            <6> HIDE DEF a, b
            <6> QED  BY <6>1
          <5> QED  BY <5>2, <5>4
        <4>4. Len(f[i]) \in Nat /\ Len(f[k - 1]) \in Nat
          BY <4>1, <1>4
        <4> QED  BY <4>2, <4>3, <4>4, <3>0
      <3> QED  BY <3>1, <3>2
    <2>2. \A k \in 1 .. n : k \in T
      <3> HIDE DEF T
      <3> QED  BY <1>a, <2>1, Upward, Zenon
    <2> QED  BY <2>2
  <1>7. CASE n = 0
    <2>1. FlattenSeq(seqs) = <<>> /\ seqs = <<>>
      BY <1>1, <1>7
    <2>2. Laid(seqs, <<>>, at)
      BY <2>1, <1>7 DEF Laid
    <2> QED  BY <2>1, <2>2, <1>b, EmptySeq
  <1>8. CASE n # 0
    <2> DEFINE flat == f[n]
    <2>1. n \in 1 .. n /\ flat \in Seq(S) /\ FlattenSeq(seqs) = flat
      BY <1>a, <1>1, <1>4, <1>8
    <2>2. \A i \in 1 .. n : Len(f[i]) <= Len(flat) /\ \A p \in 1 .. Len(f[i]) : flat[p] = f[i][p]
      BY <1>6, <2>1
    <2>l. \A i \in 1 .. n : Len(f[i]) \in Nat
      BY <1>4
    <2>3. ASSUME NEW i \in 1 .. n, NEW k \in 1 .. Len(seqs[i])
          PROVE  at[i] + k \in 1 .. Len(flat) /\ flat[at[i] + k] = seqs[i][k]
      <3>1. at[i] + k \in 1 .. Len(f[i]) /\ f[i][at[i] + k] = seqs[i][k]
        BY <1>5
      <3> QED  BY <3>1, <2>1, <2>2, <2>l, SMTT(30)
    <2>4. ASSUME NEW p \in 1 .. Len(flat)
          PROVE  \E i \in 1 .. n : \E k \in 1 .. Len(seqs[i]) : p = at[i] + k
      <3> DEFINE U == {i \in 1 .. n : p <= Len(f[i])}
      <3>1. U \in SUBSET Nat /\ U # {}
        BY <2>1, <2>l, SMTT(30)
      <3>2. PICK i \in U : \A j \in U : i <= j
        BY <3>1, Least, Zenon
      <3>3. at[i] < p
        <4>1. CASE i = 1
          BY <4>1, <2>1 DEF at
        <4>2. CASE i # 1
          <5>1. i - 1 \in 1 .. n /\ i - 1 \notin U /\ at[i] = Len(f[i - 1])
            BY <3>2, <4>2, <1>5
          <5> QED  BY <5>1, <2>l
        <4> QED  BY <4>1, <4>2
      <3>4. Len(f[i]) = at[i] + Len(seqs[i]) /\ at[i] \in Nat /\ Len(seqs[i]) \in Nat
        BY <3>2, <1>5
      <3>5. p - at[i] \in 1 .. Len(seqs[i]) /\ p = at[i] + (p - at[i])
        BY <3>2, <3>3, <3>4
      <3> QED  BY <3>2, <3>5
    <2>5. ASSUME NEW i \in 1 .. n, NEW j \in 1 .. n, i < j
          PROVE  at[i] + Len(seqs[i]) <= at[j]
      <3>1. j - 1 \in 1 .. n /\ i \in 1 .. j - 1 /\ at[j] = Len(f[j - 1])
        BY <2>5, <1>5
      <3> QED  BY <3>1, <1>5, <1>6
    <2>6. Laid(seqs, flat, at)
      BY <2>3, <2>4, <2>5 DEF Laid
    <2> QED  BY <2>1, <2>6, <1>b
  <1> QED  BY <1>7, <1>8

\* So it holds what they hold, and nothing else.
LEMMA FlattenRange ==
    ASSUME NEW S, NEW seqs \in Seq(Seq(S))
    PROVE  /\ FlattenSeq(seqs) \in Seq(S)
           /\ \A x : x \in Range(FlattenSeq(seqs)) <=>
                     \E i \in 1 .. Len(seqs) : x \in Range(seqs[i])
  <1>1. FlattenSeq(seqs) \in Seq(S)
    BY FlattenLays
  <1>2. PICK at \in [1 .. Len(seqs) -> Nat] : Laid(seqs, FlattenSeq(seqs), at)
    BY FlattenLays
  <1> DEFINE flat == FlattenSeq(seqs)
  <1>3. DOMAIN flat = 1 .. Len(flat) /\ \A i \in 1 .. Len(seqs) : DOMAIN seqs[i] = 1 .. Len(seqs[i])
    BY <1>1
  <1> HIDE DEF flat
  <1>4. ASSUME NEW x \in Range(flat) PROVE \E i \in 1 .. Len(seqs) : x \in Range(seqs[i])
    <2>1. PICK p \in 1 .. Len(flat) : flat[p] = x
      BY <1>3 DEF Range
    <2>2. PICK i \in 1 .. Len(seqs) : \E k \in 1 .. Len(seqs[i]) : p = at[i] + k
      BY <1>2, <2>1, Zenon DEF Laid, flat
    <2>3. PICK k \in 1 .. Len(seqs[i]) : p = at[i] + k
      BY <2>2
    <2>4. seqs[i][k] = x
      BY <1>2, <2>1, <2>3, Zenon DEF Laid, flat
    <2> QED  BY <1>3, <2>3, <2>4 DEF Range
  <1>5. ASSUME NEW i \in 1 .. Len(seqs), NEW x \in Range(seqs[i]) PROVE x \in Range(flat)
    <2>1. PICK k \in 1 .. Len(seqs[i]) : seqs[i][k] = x
      BY <1>3 DEF Range
    <2>2. at[i] + k \in 1 .. Len(flat) /\ flat[at[i] + k] = x
      BY <1>2, <2>1, Zenon DEF Laid, flat
    <2> QED  BY <1>3, <2>2, Zenon DEF Range
  <1> QED  BY <1>1, <1>4, <1>5 DEF flat

-----------------------------------------------------------------------------
(***************************************************************************)
(* The tree of a document.                                                 *)
(***************************************************************************)
\* A document as the tree it is: every node but the first is below an earlier one.
LEMMA TreeFacts ==
    ASSUME NEW doc, IsDocument(doc)
    PROVE  /\ Len(doc) \in Nat /\ Len(doc) >= 1 /\ DOMAIN doc = 1 .. Len(doc)
           /\ doc[1].up = 0
           /\ \A n \in 2 .. Len(doc) : doc[n].up \in 1 .. n - 1
  <1>1. doc \in Seq(StateObject) /\ Len(doc) \in 1 .. Len(Pointer) /\ Pointer \in Seq(STRING)
    BY PointerAssumption DEF IsDocument
  <1> HIDE DEF StateObject
  <1>2. Len(doc) \in Nat /\ DOMAIN doc = 1 .. Len(doc) /\ Len(Pointer) \in Nat
    BY <1>1
  <1> QED  BY <1>1, <1>2 DEF IsDocument

\* The children of a node: each once.
LEMMA ChildrenFacts ==
    ASSUME NEW doc, IsDocument(doc), NEW n
    PROVE  LET kids == Children(doc, n) IN
           /\ kids \in Seq(1 .. Len(doc))
           /\ \A i \in 1 .. Len(kids) : doc[kids[i]].up = n
           /\ \A i, j \in 1 .. Len(kids) : kids[i] = kids[j] => i = j
           /\ \A c \in 1 .. Len(doc) : doc[c].up = n => \E i \in 1 .. Len(kids) : kids[i] = c
  <1> DEFINE b    == Len(doc)
             D    == 1 .. b
             own  == [c \in D |-> IF doc[c].up = n THEN <<c>> ELSE <<>>]
             kids == FlattenSeq(own)
  <1>1. b \in Nat /\ DOMAIN doc = D
    BY TreeFacts
  <1>2. Children(doc, n) = kids
    BY <1>1 DEF Children
  <1>3. own \in Seq(Seq(D)) /\ Len(own) = b
    <2>1. \A c \in D : own[c] \in Seq(D)
      <3>1. <<>> \in Seq(D) /\ \A c \in D : <<c>> \in Seq(D)
        BY EmptySeq
      <3> QED  BY <3>1
    <2>2. own = [c \in 1 .. b |-> own[c]]
      OBVIOUS
    <2> HIDE DEF own
    <2> QED  BY <2>1, <2>2, <1>1, IsASeq
  <1>4. \A c \in D : Len(own[c]) = IF doc[c].up = n THEN 1 ELSE 0
    OBVIOUS
  <1>5. \A c \in D : doc[c].up = n => own[c][1] = c
    OBVIOUS
  <1> HIDE DEF own
  <1>6. kids \in Seq(D)
    BY <1>3, FlattenLays
  <1>7. PICK at \in [1 .. Len(own) -> Nat] : Laid(own, kids, at)
    BY <1>3, FlattenLays
  <1> HIDE DEF kids
  <1>8. \A p \in 1 .. Len(kids) : /\ kids[p] \in D /\ doc[kids[p]].up = n
                                  /\ p = at[kids[p]] + 1
    <2> SUFFICES ASSUME NEW p \in 1 .. Len(kids)
                 PROVE  kids[p] \in D /\ doc[kids[p]].up = n /\ p = at[kids[p]] + 1
      OBVIOUS
    <2>0. PICK c \in D : \E k \in 1 .. Len(own[c]) : p = at[c] + k
      BY <1>3, <1>7, Zenon DEF Laid
    <2>1. PICK k \in 1 .. Len(own[c]) : p = at[c] + k
      BY <2>0
    <2>2. doc[c].up = n /\ k = 1
      BY <1>4, <2>1
    <2>3. kids[p] = c
      BY <1>3, <1>5, <1>7, <2>1, <2>2, Zenon DEF Laid
    <2> QED  BY <2>1, <2>2, <2>3
  <1>9. ASSUME NEW c \in D, doc[c].up = n PROVE \E i \in 1 .. Len(kids) : kids[i] = c
    <2>1. 1 \in 1 .. Len(own[c]) /\ own[c][1] = c
      BY <1>4, <1>5, <1>9
    <2> QED  BY <1>3, <1>7, <2>1, Zenon DEF Laid
  <1>10. \A i, j \in 1 .. Len(kids) : kids[i] = kids[j] => i = j
    BY <1>8
  <1> QED  BY <1>2, <1>6, <1>8, <1>9, <1>10

\* Children stand behind their parent in the document.
LEMMA ChildrenAfter ==
    ASSUME NEW doc, IsDocument(doc), NEW n \in 1 .. Len(doc)
    PROVE  \A i \in 1 .. Len(Children(doc, n)) :
               /\ Children(doc, n)[i] \in n + 1 .. Len(doc)
               /\ doc[Children(doc, n)[i]].up = n
  <1> DEFINE kids == Children(doc, n)
  <1> SUFFICES ASSUME NEW i \in 1 .. Len(kids)
               PROVE  kids[i] \in n + 1 .. Len(doc) /\ doc[kids[i]].up = n
    OBVIOUS
  <1>1. kids \in Seq(1 .. Len(doc)) /\ doc[kids[i]].up = n
    BY ChildrenFacts
  <1> HIDE DEF kids
  <1>2. kids[i] \in 1 .. Len(doc)
    BY <1>1
  <1>3. kids[i] # 1
    BY <1>1, TreeFacts
  <1> DEFINE c == kids[i]
  <1>4. c \in 2 .. Len(doc) /\ doc[c].up = n
    BY <1>1, <1>2, <1>3
  <1> HIDE DEF c
  <1>5. n \in 1 .. c - 1
    BY <1>4, TreeFacts
  <1>6. c \in n + 1 .. Len(doc)
    BY <1>4, <1>5, TreeFacts
  <1> QED  BY <1>4, <1>6 DEF c

-----------------------------------------------------------------------------
(***************************************************************************)
(* The walk of DocumentOrder, step by step.                                *)
(***************************************************************************)
\* One step of the walk, and what the walks are.
WalkOf(doc, walk, n) ==
    LET kids == Children(doc, n)
    IN  <<n>> \o FlattenSeq([i \in DOMAIN kids |-> walk[kids[i]]])

Walks(doc, walk) ==
    /\ walk \in [1 .. Len(doc) -> Seq(1 .. Len(doc))]
    /\ \A n \in 1 .. Len(doc) : walk[n] = WalkOf(doc, walk, n)

\* The walks of the children.
LEMMA WalkParts ==
    ASSUME NEW doc, IsDocument(doc), NEW n \in 1 .. Len(doc),
           NEW walk, \A m \in n + 1 .. Len(doc) : walk[m] \in Seq(1 .. Len(doc))
    PROVE  LET kids == Children(doc, n)
               D    == 1 .. Len(doc)
           IN  /\ DOMAIN kids = 1 .. Len(kids) /\ Len(kids) \in Nat
               /\ [i \in DOMAIN kids |-> walk[kids[i]]] \in Seq(Seq(D))
               /\ Len([i \in DOMAIN kids |-> walk[kids[i]]]) = Len(kids)
               /\ WalkOf(doc, walk, n) \in Seq(D)
  <1> DEFINE kids  == Children(doc, n)
             D     == 1 .. Len(doc)
             parts == [i \in DOMAIN kids |-> walk[kids[i]]]
  <1>1. DOMAIN kids = 1 .. Len(kids) /\ Len(kids) \in Nat
    BY ChildrenFacts
  <1>2. \A i \in 1 .. Len(kids) : walk[kids[i]] \in Seq(D)
    BY ChildrenAfter
  <1>3. parts \in Seq(Seq(D)) /\ Len(parts) = Len(kids)
    <2> DEFINE Q == Seq(D)
    <2>1. parts = [i \in 1 .. Len(kids) |-> walk[kids[i]]]
      BY <1>1
    <2>2. \A i \in 1 .. Len(kids) : walk[kids[i]] \in Q
      BY <1>2
    <2> HIDE DEF Q, kids, parts
    <2> QED  BY <2>1, <2>2, <1>1 DEF Q
  <1>4. FlattenSeq(parts) \in Seq(D)
    <2> HIDE DEF parts
    <2> QED  BY <1>3, FlattenLays
  <1>5. WalkOf(doc, walk, n) \in Seq(D)
    <2> DEFINE s == FlattenSeq(parts)
    <2>1. WalkOf(doc, walk, n) = <<n>> \o s
      BY Zenon DEF WalkOf
    <2>2. s \in Seq(D) /\ <<n>> \in Seq(D)
      BY <1>4
    <2> HIDE DEF s
    <2> QED  BY <2>1, <2>2
  <1> QED  BY <1>1, <1>3, <1>5

\* Only the later walks matter to one.
LEMMA WalkLocal ==
    ASSUME NEW doc, IsDocument(doc), NEW n \in 1 .. Len(doc), NEW f, NEW g,
           \A m \in n + 1 .. Len(doc) : f[m] = g[m]
    PROVE  WalkOf(doc, f, n) = WalkOf(doc, g, n)
  <1> DEFINE kids == Children(doc, n)
  <1>1. DOMAIN kids = 1 .. Len(kids)
    BY ChildrenFacts
  <1>2. \A i \in DOMAIN kids : f[kids[i]] = g[kids[i]]
    BY <1>1, ChildrenAfter
  <1>3. [i \in DOMAIN kids |-> f[kids[i]]] = [i \in DOMAIN kids |-> g[kids[i]]]
    <2> HIDE DEF kids
    <2> QED  BY <1>2
  <1> QED  BY <1>3, Zenon DEF WalkOf

\* The recursion of DocumentOrder ends.
LEMMA WalksExist ==
    ASSUME NEW doc, IsDocument(doc)
    PROVE  \E walk : Walks(doc, walk)
  <1> DEFINE b == Len(doc)
             D == 1 .. b
             Fits(g, k) == /\ g \in [D -> Seq(D)]
                           /\ \A n \in k .. b : g[n] = WalkOf(doc, g, n)
             T == {k \in D : \E g : Fits(g, k)}
  <1>1. b \in Nat /\ b >= 1
    BY TreeFacts
  <1>2. ASSUME NEW k \in D, NEW g \in [D -> Seq(D)], \A n \in k + 1 .. b : g[n] = WalkOf(doc, g, n)
        PROVE  k \in T
    <2> DEFINE new == WalkOf(doc, g, k)
               h   == [g EXCEPT ![k] = new]
    <2>1. new \in Seq(D)
      <3>1. \A m \in k + 1 .. Len(doc) : g[m] \in Seq(1 .. Len(doc))
        OBVIOUS
      <3> QED  BY <3>1, WalkParts
    <2>2. h \in [D -> Seq(D)] /\ h[k] = new /\ \A m \in D \ {k} : h[m] = g[m]
      <3> HIDE DEF new
      <3> QED  BY <2>1
    <2>3. ASSUME NEW n \in k .. b PROVE h[n] = WalkOf(doc, h, n)
      <3>1. n \in D /\ \A m \in n + 1 .. Len(doc) : h[m] = g[m]
        BY <2>2
      <3>2. WalkOf(doc, h, n) = WalkOf(doc, g, n)
        <4> HIDE DEF h
        <4> QED  BY <3>1, WalkLocal
      <3>3. h[n] = WalkOf(doc, g, n)
        <4> HIDE DEF h
        <4>1. CASE n = k
          BY <4>1, <2>2
        <4>2. CASE n # k
          <5>1. n \in k + 1 .. b /\ n \in D \ {k}
            BY <3>1, <4>2
          <5> QED  BY <5>1, <2>2, <1>2
        <4> QED  BY <4>1, <4>2
      <3> QED  BY <3>2, <3>3
    <2>4. Fits(h, k)
      BY <2>2, <2>3
    <2> HIDE DEF Fits, h
    <2> QED  BY <2>4
  <1>3. ASSUME NEW k \in D, \A i \in k + 1 .. b : i \in T PROVE k \in T
    <2>1. CASE k = b
      <3> DEFINE none == [n \in D |-> <<>>]
      <3>1. none \in [D -> Seq(D)]
        BY EmptySeq
      <3>2. \A n \in k + 1 .. b : none[n] = WalkOf(doc, none, n)
        BY <2>1, <1>1
      <3> HIDE DEF none, T
      <3> QED  BY <3>1, <3>2, <1>2
    <2>2. CASE k # b
      <3>1. k + 1 \in k + 1 .. b
        BY <2>2, <1>1
      <3>2. PICK g : Fits(g, k + 1)
        BY <1>3, <3>1
      <3>3. g \in [D -> Seq(D)] /\ \A n \in k + 1 .. b : g[n] = WalkOf(doc, g, n)
        BY <3>2
      <3> HIDE DEF T
      <3> QED  BY <3>3, <1>2
    <2> QED  BY <2>1, <2>2
  <1>4. \A k \in D : k \in T
    <2> HIDE DEF T
    <2> QED  BY <1>1, <1>3, Downward, Zenon
  <1>5. PICK g : Fits(g, 1)
    <2>1. 1 \in T
      <3> HIDE DEF T
      <3> QED  BY <1>1, <1>4
    <2> QED  BY <2>1
  <1>6. Walks(doc, g)
    BY <1>5 DEF Walks
  <1> QED  BY <1>6

\* The order is the walk of the root.
LEMMA OrderIsWalk ==
    ASSUME NEW doc, IsDocument(doc)
    PROVE  \E walk : Walks(doc, walk) /\ DocumentOrder(doc) = walk[1]
  <1> DEFINE Rule(w) == [n \in DOMAIN doc |->
                 LET kids == Children(doc, n)
                 IN  <<n>> \o FlattenSeq([i \in DOMAIN kids |-> w[kids[i]]])]
             walk == CHOOSE w : w = Rule(w)
             D == 1 .. Len(doc)
  <1>1. DocumentOrder(doc) = walk[1]
    BY Zenon DEF DocumentOrder
  <1>a. DOMAIN doc = D
    BY TreeFacts
  <1>r. \A w : Rule(w) = [n \in D |-> WalkOf(doc, w, n)]
    BY <1>a, Zenon DEF WalkOf
  <1>2. \E w : w = Rule(w)
    <2>1. PICK w : Walks(doc, w)
      BY WalksExist
    <2>2. w = [n \in D |-> WalkOf(doc, w, n)]
      BY <2>1 DEF Walks
    <2> HIDE DEF Rule
    <2> QED  BY <2>2, <1>r, Zenon
  <1>3. walk = Rule(walk)
    <2> HIDE DEF Rule
    <2> QED  BY <1>2, Zenon
  <1> HIDE DEF walk
  <1>4. walk = [n \in D |-> WalkOf(doc, walk, n)]
    <2> HIDE DEF Rule
    <2> QED  BY <1>3, <1>r, Zenon
  <1>5. \A n \in D : walk[n] = WalkOf(doc, walk, n)
    BY <1>4
  <1> DEFINE T == {n \in D : walk[n] \in Seq(D)}
  <1>6. ASSUME NEW k \in D, \A i \in k + 1 .. Len(doc) : i \in T PROVE k \in T
    <2>1. \A m \in k + 1 .. Len(doc) : walk[m] \in Seq(D)
      BY <1>6
    <2>2. WalkOf(doc, walk, k) \in Seq(D)
      BY <2>1, WalkParts
    <2> QED  BY <2>2, <1>5
  <1>7. \A k \in D : k \in T
    <2>1. Len(doc) \in Nat
      BY TreeFacts
    <2> HIDE DEF T
    <2> QED  BY <2>1, <1>6, Downward, Zenon
  <1>8. walk \in [D -> Seq(D)]
    BY <1>4, <1>7
  <1>9. Walks(doc, walk)
    BY <1>5, <1>8 DEF Walks
  <1> QED  BY <1>1, <1>9

-----------------------------------------------------------------------------
(***************************************************************************)
(* What a walk visits, and in which order.                                 *)
(***************************************************************************)
\* A walk is its node and behind it the walks of its children: the i-th behind
\* at[i] nodes.
Blocks(doc, walk, n, at) ==
    LET kids == Children(doc, n)
        w    == walk[n]
    IN  /\ \A i \in 1 .. Len(kids) : \A k \in 1 .. Len(walk[kids[i]]) :
               at[i] + k \in 2 .. Len(w) /\ w[at[i] + k] = walk[kids[i]][k]
        /\ \A p \in 2 .. Len(w) :
               \E i \in 1 .. Len(kids) : \E k \in 1 .. Len(walk[kids[i]]) : p = at[i] + k

\* A walk is its node and then, child by child, their walks.
LEMMA WalkBlocks ==
    ASSUME NEW doc, IsDocument(doc), NEW walk, Walks(doc, walk), NEW n \in 1 .. Len(doc)
    PROVE  /\ walk[n] \in Seq(1 .. Len(doc)) /\ Len(walk[n]) >= 1 /\ walk[n][1] = n
           /\ \E at \in [1 .. Len(Children(doc, n)) -> Nat] : Blocks(doc, walk, n, at)
  <1> DEFINE kids  == Children(doc, n)
             D     == 1 .. Len(doc)
             parts == [i \in DOMAIN kids |-> walk[kids[i]]]
             s     == FlattenSeq(parts)
             w     == walk[n]
  <1>1. \A m \in D : walk[m] \in Seq(D)
    BY DEF Walks
  <1>2. Len(doc) \in Nat /\ \A m \in n + 1 .. Len(doc) : m \in D
    BY TreeFacts
  <1>3. /\ DOMAIN kids = 1 .. Len(kids) /\ Len(kids) \in Nat
        /\ parts \in Seq(Seq(D)) /\ Len(parts) = Len(kids)
    BY <1>1, <1>2, WalkParts
  <1>4. w = <<n>> \o s
    BY Zenon DEF Walks, WalkOf
  <1>5. \A i \in 1 .. Len(kids) : parts[i] = walk[kids[i]]
    BY <1>3
  <1> HIDE DEF parts
  <1>6. s \in Seq(D)
    BY <1>3, FlattenLays
  <1>7. PICK at \in [1 .. Len(parts) -> Nat] : Laid(parts, s, at)
    BY <1>3, FlattenLays
  <1> HIDE DEF s, w, kids
  <1>8. /\ Len(w) = Len(s) + 1 /\ Len(s) \in Nat /\ w[1] = n
        /\ \A p \in 1 .. Len(s) : w[p + 1] = s[p]
    BY <1>4, <1>6
  <1>a. at \in [1 .. Len(kids) -> Nat]
    BY <1>3, <1>7
  <1>b. \A i \in 1 .. Len(kids) : \A k \in 1 .. Len(walk[kids[i]]) :
            at[i] + k \in 1 .. Len(s) /\ s[at[i] + k] = walk[kids[i]][k]
    <2> SUFFICES ASSUME NEW i \in 1 .. Len(kids), NEW k \in 1 .. Len(walk[kids[i]])
                 PROVE  at[i] + k \in 1 .. Len(s) /\ s[at[i] + k] = walk[kids[i]][k]
      OBVIOUS
    <2>1. i \in 1 .. Len(parts) /\ k \in 1 .. Len(parts[i]) /\ parts[i] = walk[kids[i]]
      BY <1>3, <1>5
    <2>2. at[i] + k \in 1 .. Len(s) /\ s[at[i] + k] = parts[i][k]
      BY <2>1, <1>7, Zenon DEF Laid
    <2> QED  BY <2>1, <2>2, Zenon
  <1>c. \A p \in 1 .. Len(s) : \E i \in 1 .. Len(kids) :
            \E k \in 1 .. Len(walk[kids[i]]) : p = at[i] + k
    <2> SUFFICES ASSUME NEW p \in 1 .. Len(s)
                 PROVE  \E i \in 1 .. Len(kids) : \E k \in 1 .. Len(walk[kids[i]]) : p = at[i] + k
      OBVIOUS
    <2>1. PICK i \in 1 .. Len(parts) : \E k \in 1 .. Len(parts[i]) : p = at[i] + k
      BY <1>7, Zenon DEF Laid
    <2>2. i \in 1 .. Len(kids) /\ parts[i] = walk[kids[i]]
      BY <1>3, <1>5
    <2> QED  BY <2>1, <2>2, Zenon
  <1> DEFINE to == [i \in 1 .. Len(kids) |-> at[i] + 1]
  <1>9. to \in [1 .. Len(kids) -> Nat] /\ \A i \in 1 .. Len(kids) : to[i] = at[i] + 1 /\ at[i] \in Nat
    BY <1>a
  <1> HIDE DEF to
  <1>10. ASSUME NEW i \in 1 .. Len(kids), NEW k \in 1 .. Len(walk[kids[i]])
         PROVE  to[i] + k \in 2 .. Len(w) /\ w[to[i] + k] = walk[kids[i]][k]
    <2>1. at[i] + k \in 1 .. Len(s) /\ s[at[i] + k] = walk[kids[i]][k]
      BY <1>b
    <2>2. to[i] + k = (at[i] + k) + 1
      BY <1>9
    <2> QED  BY <1>8, <2>1, <2>2, SMTT(30)
  <1>11. ASSUME NEW p \in 2 .. Len(w)
         PROVE  \E i \in 1 .. Len(kids) : \E k \in 1 .. Len(walk[kids[i]]) : p = to[i] + k
    <2>1. p - 1 \in 1 .. Len(s)
      BY <1>8
    <2>2. PICK i \in 1 .. Len(kids) : \E k \in 1 .. Len(walk[kids[i]]) : p - 1 = at[i] + k
      BY <1>c, <2>1
    <2>3. PICK k \in 1 .. Len(walk[kids[i]]) : p - 1 = at[i] + k
      BY <2>2
    <2>4. p = to[i] + k
      <3>1. to[i] = at[i] + 1 /\ at[i] \in Nat
        BY <1>9
      <3>2. p \in Int /\ k \in Int
        BY <1>8
      <3> DEFINE a == at[i]
                 c == to[i]
      <3>3. p - 1 = a + k /\ c = a + 1 /\ a \in Nat
        BY <2>3, <3>1
      <3> HIDE DEF a, c
      <3>4. p = c + k
        BY <3>2, <3>3
      <3> QED  BY <3>4 DEF c
    <2> QED  BY <2>4
  <1>12. Blocks(doc, walk, n, to)
    BY <1>10, <1>11 DEF Blocks, w, kids
  <1> QED  BY <1>1, <1>8, <1>9, <1>12 DEF w, kids

\* A walk visits only what stands behind its node, a node behind its parent, and
\* with a node all its children.
Visits(doc, walk, n) ==
    LET w == walk[n]
    IN  /\ \A p \in 1 .. Len(w) : w[p] \in n .. Len(doc)
        /\ \A p \in 2 .. Len(w) : \E q \in 1 .. p - 1 : w[q] = doc[w[p]].up
        /\ \A c \in 1 .. Len(doc) : \A p \in 1 .. Len(w) :
               w[p] = doc[c].up => \E q \in 1 .. Len(w) : w[q] = c

\* Every walk does, from the last node to the first.
LEMMA WalkVisits ==
    ASSUME NEW doc, IsDocument(doc), NEW walk, Walks(doc, walk)
    PROVE  \A n \in 1 .. Len(doc) : Visits(doc, walk, n)
  <1> DEFINE D == 1 .. Len(doc)
             T == {n \in D : Visits(doc, walk, n)}
  <1>0. Len(doc) \in Nat
    BY TreeFacts
  <1>1. ASSUME NEW n \in D, \A i \in n + 1 .. Len(doc) : i \in T PROVE Visits(doc, walk, n)
    <2> DEFINE kids == Children(doc, n)
               w    == walk[n]
    <2>1. /\ w \in Seq(D) /\ Len(w) >= 1 /\ w[1] = n
      BY WalkBlocks
    <2>2. PICK at \in [1 .. Len(kids) -> Nat] : Blocks(doc, walk, n, at)
      BY WalkBlocks
    <2>3. ASSUME NEW i \in 1 .. Len(kids)
          PROVE  /\ kids[i] \in n + 1 .. Len(doc) /\ doc[kids[i]].up = n
                 /\ Visits(doc, walk, kids[i])
                 /\ walk[kids[i]] \in Seq(D) /\ Len(walk[kids[i]]) >= 1
                 /\ walk[kids[i]][1] = kids[i]
      <3>1. kids[i] \in n + 1 .. Len(doc) /\ doc[kids[i]].up = n
        BY ChildrenAfter
      <3>2. kids[i] \in D /\ kids[i] \in T
        BY <3>1, <1>1
      <3> QED  BY <3>1, <3>2, WalkBlocks
    <2>4. \A p \in 2 .. Len(w) : \E i \in 1 .. Len(kids) :
              \E k \in 1 .. Len(walk[kids[i]]) : p = at[i] + k
      BY <2>2, Zenon DEF Blocks
    <2>5. \A i \in 1 .. Len(kids) : \A k \in 1 .. Len(walk[kids[i]]) :
              at[i] + k \in 2 .. Len(w) /\ w[at[i] + k] = walk[kids[i]][k]
      BY <2>2, Zenon DEF Blocks
    <2> HIDE DEF kids, w
    <2>6. ASSUME NEW p \in 1 .. Len(w) PROVE w[p] \in n .. Len(doc)
      <3>1. CASE p = 1
        BY <3>1, <2>1, <1>0
      <3>2. CASE p # 1
        <4>1. p \in 2 .. Len(w)
          BY <3>2
        <4>2. PICK i \in 1 .. Len(kids) : \E k \in 1 .. Len(walk[kids[i]]) : p = at[i] + k
          BY <4>1, <2>4
        <4>3. PICK k \in 1 .. Len(walk[kids[i]]) : p = at[i] + k
          BY <4>2
        <4>4. w[p] = walk[kids[i]][k]
          BY <4>3, <2>5
        <4>5. walk[kids[i]][k] \in kids[i] .. Len(doc)
          BY <2>3 DEF Visits
        <4> QED  BY <4>4, <4>5, <2>3, <1>0
      <3> QED  BY <3>1, <3>2
    <2>7. ASSUME NEW p \in 2 .. Len(w) PROVE \E q \in 1 .. p - 1 : w[q] = doc[w[p]].up
      <3>2. PICK i \in 1 .. Len(kids) : \E k \in 1 .. Len(walk[kids[i]]) : p = at[i] + k
        BY <2>4
      <3>3. PICK k \in 1 .. Len(walk[kids[i]]) : p = at[i] + k
        BY <3>2
      <3>4. w[p] = walk[kids[i]][k]
        BY <3>3, <2>5
      <3>5. CASE k = 1
        <4>1. doc[w[p]].up = n /\ 1 \in 1 .. p - 1
          BY <3>4, <3>5, <2>3
        <4> QED  BY <4>1, <2>1
      <3>6. CASE k # 1
        <4>1. k \in 2 .. Len(walk[kids[i]])
          BY <3>6
        <4>2. PICK q \in 1 .. k - 1 : walk[kids[i]][q] = doc[walk[kids[i]][k]].up
          BY <4>1, <2>3 DEF Visits
        <4>3. q \in 1 .. Len(walk[kids[i]]) /\ at[i] \in Nat
          BY <4>1, <2>3
        <4>4. at[i] + q \in 1 .. p - 1 /\ w[at[i] + q] = walk[kids[i]][q]
          BY <3>3, <4>3, <2>5
        <4> QED  BY <3>4, <4>2, <4>4
      <3> QED  BY <3>5, <3>6
    <2>8. ASSUME NEW c \in D, NEW p \in 1 .. Len(w), w[p] = doc[c].up
          PROVE  \E q \in 1 .. Len(w) : w[q] = c
      <3>1. CASE p = 1
        <4>1. PICK i \in 1 .. Len(kids) : kids[i] = c
          BY <3>1, <2>1, <2>8, ChildrenFacts DEF kids
        <4>2. 1 \in 1 .. Len(walk[kids[i]]) /\ walk[kids[i]][1] = c
          BY <4>1, <2>3
        <4>3. at[i] + 1 \in 2 .. Len(w) /\ w[at[i] + 1] = c
          BY <4>2, <2>5, Zenon
        <4>4. Len(w) \in Nat
          BY <2>1
        <4>5. at[i] + 1 \in 1 .. Len(w)
          BY <4>3, <4>4
        <4> QED  BY <4>3, <4>5
      <3>2. CASE p # 1
        <4>1. p \in 2 .. Len(w)
          BY <3>2
        <4>2. PICK i \in 1 .. Len(kids) : \E k \in 1 .. Len(walk[kids[i]]) : p = at[i] + k
          BY <4>1, <2>4
        <4>3. PICK k \in 1 .. Len(walk[kids[i]]) : p = at[i] + k
          BY <4>2
        <4>4. walk[kids[i]][k] = doc[c].up
          BY <4>3, <2>5, <2>8
        <4>5. PICK q \in 1 .. Len(walk[kids[i]]) : walk[kids[i]][q] = c
          BY <4>4, <2>3 DEF Visits
        <4>6. at[i] + q \in 2 .. Len(w) /\ w[at[i] + q] = c
          BY <4>5, <2>5
        <4> QED  BY <4>6
      <3> QED  BY <3>1, <3>2
    <2> QED  BY <2>6, <2>7, <2>8 DEF Visits, w
  <1>2. \A n \in D : n \in T
    <2>1. \A n \in D : (\A i \in n + 1 .. Len(doc) : i \in T) => n \in T
      BY <1>1
    <2> HIDE DEF T
    <2> QED  BY <1>0, <2>1, Downward, Zenon
  <1> QED  BY <1>2

\* But for its own node, a walk has visited the parent of what it visits.
LEMMA WalkBehind ==
    ASSUME NEW doc, IsDocument(doc), NEW walk, Walks(doc, walk),
           NEW n \in 1 .. Len(doc), NEW p \in 1 .. Len(walk[n]), walk[n][p] # n
    PROVE  /\ p \in 2 .. Len(walk[n])
           /\ \E q \in 1 .. Len(walk[n]) : q < p /\ walk[n][q] = doc[walk[n][p]].up
  <1> DEFINE w == walk[n]
  <1>1. w[1] = n /\ w \in Seq(1 .. Len(doc))
    BY WalkBlocks
  <1>2. \A i \in 2 .. Len(w) : \E q \in 1 .. i - 1 : w[q] = doc[w[i]].up
    BY WalkVisits DEF Visits
  <1>3. w[p] # n /\ p \in 1 .. Len(w)
    OBVIOUS
  <1> HIDE DEF w
  <1>4. p \in 2 .. Len(w)
    BY <1>1, <1>3
  <1>5. PICK q \in 1 .. p - 1 : w[q] = doc[w[p]].up
    BY <1>2, <1>4
  <1>6. q \in 1 .. Len(w) /\ q < p
    BY <1>4
  <1> QED  BY <1>4, <1>5, <1>6 DEF w

\* Two walks that share a node: the one of the later node is part of the other.
LEMMA WalksNest ==
    ASSUME NEW doc, IsDocument(doc), NEW walk, Walks(doc, walk),
           NEW n \in 1 .. Len(doc), NEW m \in 1 .. Len(doc), n <= m,
           NEW p \in 1 .. Len(walk[n]), NEW q \in 1 .. Len(walk[m]),
           walk[n][p] = walk[m][q]
    PROVE  \E r \in 1 .. Len(walk[n]) : walk[n][r] = m
  <1> DEFINE D == 1 .. Len(doc)
             T == {x \in D : (/\ \E i \in 1 .. Len(walk[n]) : walk[n][i] = x
                              /\ \E i \in 1 .. Len(walk[m]) : walk[m][i] = x)
                             => \E r \in 1 .. Len(walk[n]) : walk[n][r] = m}
  <1>0. Len(doc) \in Nat
    BY TreeFacts
  <1>v. Visits(doc, walk, n) /\ Visits(doc, walk, m)
    BY WalkVisits
  <1>w. walk[n][1] = n /\ walk[m][1] = m
    BY WalkBlocks
  <1>b. \A c \in D : \A i \in 1 .. Len(walk[c]) :
            walk[c][i] # c => \E j \in 1 .. Len(walk[c]) : walk[c][j] = doc[walk[c][i]].up
    <2> SUFFICES ASSUME NEW c \in D, NEW i \in 1 .. Len(walk[c]), walk[c][i] # c
                 PROVE  \E j \in 1 .. Len(walk[c]) : walk[c][j] = doc[walk[c][i]].up
      OBVIOUS
    <2> HIDE DEF T
    <2> QED  BY WalkBehind
  <1>1. ASSUME NEW x \in D, \A y \in 1 .. x - 1 : y \in T,
               NEW i \in 1 .. Len(walk[n]), walk[n][i] = x,
               NEW k \in 1 .. Len(walk[m]), walk[m][k] = x
        PROVE  \E r \in 1 .. Len(walk[n]) : walk[n][r] = m
    <2>1. CASE x = m
      BY <1>1, <2>1
    <2>2. CASE x # m
      <3>1. x \in m .. Len(doc) /\ x # n
        BY <1>1, <1>v, <2>2 DEF Visits
      <3>3. PICK j \in 1 .. Len(walk[n]) : walk[n][j] = doc[x].up
        <4>1. walk[n][i] # n /\ doc[walk[n][i]].up = doc[x].up /\ n \in D
          BY <1>1, <3>1
        <4>2. PICK j \in 1 .. Len(walk[n]) : walk[n][j] = doc[walk[n][i]].up
          BY <4>1, <1>b, Zenon
        <4> QED  BY <4>1, <4>2
      <3>4. PICK l \in 1 .. Len(walk[m]) : walk[m][l] = doc[x].up
        <4>1. walk[m][k] # m /\ doc[walk[m][k]].up = doc[x].up
          BY <1>1, <2>2
        <4> QED  BY <4>1, <1>b, ZenonT(40)
      <3>5. x \in 2 .. Len(doc)
        BY <3>1, <2>2
      <3>6. doc[x].up \in 1 .. x - 1
        BY <3>5, TreeFacts
      <3>7. doc[x].up \in T
        BY <3>6, <1>1
      <3> QED  BY <3>3, <3>4, <3>7
    <2> QED  BY <2>1, <2>2
  <1>2. \A x \in D : x \in T
    <2>1. \A x \in D : (\A y \in 1 .. x - 1 : y \in T) => x \in T
      BY <1>1
    <2> HIDE DEF T
    <2> QED  BY <1>0, <2>1, Upward, Zenon
  <1>3. walk[n][p] \in D
    BY WalkBlocks
  <1>4. walk[n][p] \in T
    <2> HIDE DEF T
    <2> QED  BY <1>2, <1>3
  <1> QED  BY <1>4

\* The walks of two children have nothing in common.
LEMMA SiblingsApart ==
    ASSUME NEW doc, IsDocument(doc), NEW walk, Walks(doc, walk),
           NEW u \in 1 .. Len(doc), NEW v \in 1 .. Len(doc), u < v,
           doc[v].up \in 1 .. u - 1,
           NEW x \in 1 .. Len(walk[u]), NEW y \in 1 .. Len(walk[v]),
           walk[u][x] = walk[v][y]
    PROVE  FALSE
  <1>1. PICK r \in 1 .. Len(walk[u]) : walk[u][r] = v
    BY WalksNest
  <1>2. walk[u][r] # u
    BY <1>1
  <1>3. PICK s \in 1 .. Len(walk[u]) : walk[u][s] = doc[walk[u][r]].up
    BY <1>2, WalkBehind
  <1>4. walk[u][s] \in u .. Len(doc)
    BY WalkVisits DEF Visits
  <1> QED  BY <1>1, <1>3, <1>4

\* A walk visits nothing twice.
LEMMA WalkOnce ==
    ASSUME NEW doc, IsDocument(doc), NEW walk, Walks(doc, walk)
    PROVE  \A n \in 1 .. Len(doc) : \A p, q \in 1 .. Len(walk[n]) :
               walk[n][p] = walk[n][q] => p = q
  <1> DEFINE D == 1 .. Len(doc)
             T == {n \in D : \A p, q \in 1 .. Len(walk[n]) :
                                 walk[n][p] = walk[n][q] => p = q}
  <1>0. Len(doc) \in Nat
    BY TreeFacts
  <1>s. \A u, v \in D : u < v /\ doc[v].up \in 1 .. u - 1 =>
            \A x \in 1 .. Len(walk[u]), y \in 1 .. Len(walk[v]) : walk[u][x] # walk[v][y]
    BY SiblingsApart
  <1>1. ASSUME NEW n \in D, \A i \in n + 1 .. Len(doc) : i \in T,
               NEW p \in 1 .. Len(walk[n]), NEW q \in 1 .. Len(walk[n]), p < q,
               walk[n][p] = walk[n][q]
        PROVE  FALSE
    <2> DEFINE kids == Children(doc, n)
               w    == walk[n]
    <2>1. w \in Seq(D) /\ w[1] = n
      BY WalkBlocks
    <2>2. PICK at \in [1 .. Len(kids) -> Nat] : Blocks(doc, walk, n, at)
      BY WalkBlocks
    <2>3. \A r \in 2 .. Len(w) : \E i \in 1 .. Len(kids) :
              \E k \in 1 .. Len(walk[kids[i]]) : r = at[i] + k
      BY <2>2, Zenon DEF Blocks
    <2>4. \A i \in 1 .. Len(kids) : \A k \in 1 .. Len(walk[kids[i]]) :
              at[i] + k \in 2 .. Len(w) /\ w[at[i] + k] = walk[kids[i]][k]
      BY <2>2, Zenon DEF Blocks
    <2>5. \A i \in 1 .. Len(kids) :
              /\ kids[i] \in n + 1 .. Len(doc) /\ doc[kids[i]].up = n
              /\ kids[i] \in D /\ kids[i] \in T
              /\ Visits(doc, walk, kids[i]) /\ walk[kids[i]][1] = kids[i]
      <3> SUFFICES ASSUME NEW i \in 1 .. Len(kids)
                   PROVE  /\ kids[i] \in n + 1 .. Len(doc) /\ doc[kids[i]].up = n
                          /\ kids[i] \in D /\ kids[i] \in T
                          /\ Visits(doc, walk, kids[i]) /\ walk[kids[i]][1] = kids[i]
        BY Zenon
      <3>1. kids[i] \in n + 1 .. Len(doc) /\ doc[kids[i]].up = n
        BY ChildrenAfter
      <3> HIDE DEF T, kids
      <3>2. kids[i] \in D /\ kids[i] \in T
        BY <3>1, <1>1, <1>0
      <3> QED  BY <3>1, <3>2, WalkVisits, WalkBlocks
    <2>6. \A i, j \in 1 .. Len(kids) : kids[i] = kids[j] => i = j
      BY ChildrenFacts
    <2> HIDE DEF kids, w
    <2>7. q \in 2 .. Len(w)
      BY <1>1 DEF w
    <2>8. PICK j \in 1 .. Len(kids) : \E k \in 1 .. Len(walk[kids[j]]) : q = at[j] + k
      BY <2>3, <2>7
    <2>9. PICK l \in 1 .. Len(walk[kids[j]]) : q = at[j] + l
      BY <2>8
    <2>10. w[q] = walk[kids[j]][l]
      BY <2>4, <2>9
    <2>11. CASE p = 1
      <3>1. w[q] \in kids[j] .. Len(doc)
        BY <2>5, <2>10 DEF Visits
      <3>2. w[q] = n
        BY <1>1, <2>1, <2>11 DEF w
      <3> QED  BY <3>1, <3>2, <2>5
    <2>12. CASE p # 1
      <3>1. p \in 2 .. Len(w)
        BY <1>1, <2>12 DEF w
      <3>2. PICK i \in 1 .. Len(kids) : \E k \in 1 .. Len(walk[kids[i]]) : p = at[i] + k
        BY <2>3, <3>1
      <3>3. PICK k \in 1 .. Len(walk[kids[i]]) : p = at[i] + k
        BY <3>2
      <3>4. w[p] = walk[kids[i]][k] /\ w[p] = w[q]
        BY <2>4, <3>3, <1>1 DEF w
      <3>5. CASE i = j
        <4>1. walk[kids[j]][k] = walk[kids[j]][l] /\ kids[j] \in T
              /\ k \in 1 .. Len(walk[kids[j]])
          BY <2>5, <2>10, <3>3, <3>4, <3>5
        <4>2. k = l
          BY <4>1, <2>9
        <4> QED  BY <4>2, <3>3, <3>5, <2>9, <1>1
      <3>6. ASSUME NEW a \in 1 .. Len(kids), NEW b \in 1 .. Len(kids), kids[a] < kids[b],
                   NEW x \in 1 .. Len(walk[kids[a]]), NEW y \in 1 .. Len(walk[kids[b]]),
                   walk[kids[a]][x] = walk[kids[b]][y]
            PROVE  FALSE
        <4>1. kids[a] \in D /\ kids[b] \in D
          BY <2>5
        <4>2. doc[kids[b]].up = n /\ kids[a] \in n + 1 .. Len(doc)
          BY <2>5, Zenon
        <4>3. n \in 1 .. kids[a] - 1
          <5> DEFINE c == kids[a]
          <5>1. c \in n + 1 .. Len(doc) /\ n \in 1 .. Len(doc)
            BY <4>2
          <5> HIDE DEF c, T
          <5>2. n \in 1 .. c - 1
            BY <5>1, <1>0
          <5> QED  BY <5>2 DEF c
        <4> QED  BY <4>1, <4>2, <4>3, <3>6, <1>s
      <3>7. CASE i # j
        <4>1. kids[i] # kids[j] /\ kids[i] \in D /\ kids[j] \in D
          BY <3>7, <2>6, <2>5
        <4>2. kids[i] < kids[j] \/ kids[j] < kids[i]
          BY <4>1
        <4>3. walk[kids[i]][k] = walk[kids[j]][l]
          BY <2>10, <3>4
        <4> QED  BY <4>2, <4>3, <3>6
      <3> QED  BY <3>5, <3>7
    <2> QED  BY <2>11, <2>12
  <1>2. ASSUME NEW n \in D, \A i \in n + 1 .. Len(doc) : i \in T PROVE n \in T
    <2> SUFFICES ASSUME NEW p \in 1 .. Len(walk[n]), NEW q \in 1 .. Len(walk[n]),
                        walk[n][p] = walk[n][q], p # q
                 PROVE  FALSE
      OBVIOUS
    <2>1. p < q \/ q < p
      OBVIOUS
    <2> HIDE DEF T
    <2> QED  BY <1>1, <1>2, <2>1
  <1>3. \A n \in D : n \in T
    <2> HIDE DEF T
    <2> QED  BY <1>0, <1>2, Downward, Zenon
  <1> QED  BY <1>3

\* What a walk visits between a node and its parent lies behind the parent.
Nested(doc, w) ==
    \A p \in 2 .. Len(w) : \A q, r \in 1 .. Len(w) :
        w[q] = doc[w[p]].up /\ q < r /\ r < p
        => \E s \in 1 .. Len(w) : q <= s /\ s < r /\ w[s] = doc[w[r]].up

\* Every walk is nested.
LEMMA WalkNests ==
    ASSUME NEW doc, IsDocument(doc), NEW walk, Walks(doc, walk)
    PROVE  \A n \in 1 .. Len(doc) : Nested(doc, walk[n])
  <1> DEFINE D == 1 .. Len(doc)
             T == {n \in D : Nested(doc, walk[n])}
  <1>0. Len(doc) \in Nat
    BY TreeFacts
  <1>1. ASSUME NEW n \in D, \A i \in n + 1 .. Len(doc) : i \in T PROVE Nested(doc, walk[n])
    <2> DEFINE kids == Children(doc, n)
               w    == walk[n]
    <2>1. w \in Seq(D) /\ w[1] = n /\ Visits(doc, walk, n)
      BY WalkBlocks, WalkVisits
    <2>o. \A p, q \in 1 .. Len(w) : w[p] = w[q] => p = q
      BY WalkOnce
    <2>b. \A p \in 2 .. Len(w) : \E q \in 1 .. p - 1 : w[q] = doc[w[p]].up
      BY <2>1 DEF Visits
    <2>2. PICK at \in [1 .. Len(kids) -> Nat] : Blocks(doc, walk, n, at)
      BY WalkBlocks
    <2>3. \A r \in 2 .. Len(w) : \E i \in 1 .. Len(kids) :
              \E k \in 1 .. Len(walk[kids[i]]) : r = at[i] + k
      BY <2>2, Zenon DEF Blocks
    <2>4. \A i \in 1 .. Len(kids) : \A k \in 1 .. Len(walk[kids[i]]) :
              at[i] + k \in 2 .. Len(w) /\ w[at[i] + k] = walk[kids[i]][k]
      BY <2>2, Zenon DEF Blocks
    <2>5. ASSUME NEW i \in 1 .. Len(kids)
          PROVE  /\ kids[i] \in D /\ kids[i] \in T /\ doc[kids[i]].up = n
                 /\ walk[kids[i]][1] = kids[i]
      <3>1. kids[i] \in n + 1 .. Len(doc) /\ doc[kids[i]].up = n
        BY ChildrenAfter
      <3> HIDE DEF T, kids
      <3>2. kids[i] \in D /\ kids[i] \in T
        BY <3>1, <1>1, <1>0
      <3> QED  BY <3>1, <3>2, WalkBlocks
    <2> HIDE DEF w
    <2>6. ASSUME NEW p \in 2 .. Len(w), NEW q \in 1 .. Len(w), NEW r \in 1 .. Len(w),
                 w[q] = doc[w[p]].up, q < r, r < p
          PROVE  \E s \in 1 .. Len(w) : q <= s /\ s < r /\ w[s] = doc[w[r]].up
      <3>r. r \in 2 .. Len(w)
        BY <2>6
      <3>1. PICK i \in 1 .. Len(kids) : \E k \in 1 .. Len(walk[kids[i]]) : p = at[i] + k
        BY <2>3
      <3>2. PICK k \in 1 .. Len(walk[kids[i]]) : p = at[i] + k
        BY <3>1
      <3>3. w[p] = walk[kids[i]][k]
        BY <2>4, <3>2
      <3>4. CASE k = 1
        <4>1. w[q] = n
          BY <2>6, <3>3, <3>4, <2>5
        <4>2. q = 1
          BY <4>1, <2>1, <2>o
        <4>3. PICK s \in 1 .. r - 1 : w[s] = doc[w[r]].up
          BY <2>b, <3>r
        <4>4. s \in 1 .. Len(w) /\ q <= s /\ s < r
          BY <4>2, <3>r
        <4> QED  BY <4>3, <4>4
      <3>5. CASE k # 1
        <4>b. \A j \in 1 .. Len(walk[kids[i]]) :
                  at[i] + j \in 2 .. Len(w) /\ w[at[i] + j] = walk[kids[i]][j]
          BY <2>4, Zenon
        <4> DEFINE c == kids[i]
                   v == walk[c]
                   a == at[i]
        <4>1. /\ c \in D /\ v[1] = c /\ Nested(doc, v) /\ a \in Nat
              /\ k \in 2 .. Len(v) /\ p = a + k /\ w[p] = v[k]
          BY <2>5, <3>2, <3>3, <3>5
        <4>v. v \in Seq(D) /\ Len(v) \in Nat
          <5>1. walk[c] \in Seq(1 .. Len(doc))
            BY <4>1, WalkBlocks
          <5> HIDE DEF c
          <5> QED  BY <5>1
        <4>2. \A j \in 1 .. Len(v) : a + j \in 2 .. Len(w) /\ w[a + j] = v[j]
          BY <4>b, Zenon
        <4>3. \A j \in 2 .. Len(v) : \E l \in 1 .. j - 1 : v[l] = doc[v[j]].up
          <5>1. Visits(doc, walk, c)
            BY <4>1, WalkVisits
          <5> HIDE DEF c
          <5> QED  BY <5>1, Zenon DEF Visits
        <4> HIDE DEF c, v, a
        <4>4. PICK l \in 1 .. k - 1 : v[l] = doc[v[k]].up
          BY <4>1, <4>3
        <4>5. l \in 1 .. Len(v) /\ a + l \in 1 .. Len(w) /\ w[a + l] = v[l]
          BY <4>1, <4>2, <4>4
        <4>6. a + l = q
          BY <4>1, <4>4, <4>5, <2>6, <2>o
        <4> DEFINE e == r - a
        <4>7. e \in 1 .. Len(v) /\ l < e /\ e < k /\ a + e = r
          <5>1. Len(w) \in Nat
            BY <2>1
          <5>2. r \in Int /\ q < r /\ r < p
            BY <2>6, <5>1
          <5> QED  BY <4>1, <4>v, <4>4, <4>6, <5>2
        <4> HIDE DEF e
        <4>8. w[r] = v[e]
          BY <4>2, <4>7
        <4>n. \A x \in 2 .. Len(v) : \A y, z \in 1 .. Len(v) :
                  v[y] = doc[v[x]].up /\ y < z /\ z < x
                  => \E s \in 1 .. Len(v) : y <= s /\ s < z /\ v[s] = doc[v[z]].up
          BY <4>1, Zenon DEF Nested
        <4>9. PICK s \in 1 .. Len(v) : l <= s /\ s < e /\ v[s] = doc[v[e]].up
          <5>1. k \in 2 .. Len(v) /\ l \in 1 .. Len(v) /\ e \in 1 .. Len(v)
            BY <4>1, <4>5, <4>7
          <5> QED  BY <5>1, <4>4, <4>7, <4>n, Zenon
        <4>10. a + s \in 1 .. Len(w) /\ w[a + s] = v[s] /\ q <= a + s /\ a + s < r
          <5>1. a + s \in 2 .. Len(w) /\ w[a + s] = v[s]
            BY <4>2, <4>9
          <5>2. s \in Nat /\ e \in Nat /\ l \in Nat /\ a \in Nat
            BY <4>1, <4>v, <4>4, <4>7
          <5>3. a + l = q /\ a + e = r /\ l <= s /\ s < e
            BY <4>6, <4>7, <4>9
          <5>4. Len(w) \in Nat
            BY <2>1
          <5> DEFINE z == a + s
                     b == Len(w)
          <5>5. q <= z /\ z < r
            BY <5>2, <5>3
          <5>6. z \in 2 .. b /\ w[z] = v[s] /\ b \in Nat
            BY <5>1, <5>4
          <5> HIDE DEF z, b
          <5>7. z \in 1 .. b
            BY <5>6
          <5> QED  BY <5>5, <5>6, <5>7, Zenon DEF z, b
        <4> QED  BY <4>8, <4>9, <4>10
      <3> QED  BY <3>4, <3>5
    <2> QED  BY <2>6 DEF Nested, w
  <1>2. \A n \in D : n \in T
    <2>1. \A n \in D : (\A i \in n + 1 .. Len(doc) : i \in T) => n \in T
      BY <1>1
    <2> HIDE DEF T
    <2> QED  BY <1>0, <2>1, Downward, Zenon
  <1> QED  BY <1>2

\* The document order: every node once, the root first, every other one behind
\* its parent, with only what is below the parent in between.
LEMMA DocumentOrderFacts ==
    ASSUME NEW doc, IsDocument(doc)
    PROVE  LET w == DocumentOrder(doc)
               D == 1 .. Len(doc)
           IN  /\ w \in Seq(D) /\ Len(w) \in Nat /\ Len(w) >= 1 /\ w[1] = 1
               /\ \A p, q \in 1 .. Len(w) : w[p] = w[q] => p = q
               /\ \A n \in D : \E p \in 1 .. Len(w) : w[p] = n
               /\ \A p \in 2 .. Len(w) : \E q \in 1 .. p - 1 : w[q] = doc[w[p]].up
               /\ Nested(doc, w)
  <1> DEFINE D == 1 .. Len(doc)
             w == DocumentOrder(doc)
             T == {n \in D : \E p \in 1 .. Len(w) : w[p] = n}
  <1>0. Len(doc) \in Nat /\ 1 \in D /\ \A n \in 2 .. Len(doc) : doc[n].up \in 1 .. n - 1
    BY TreeFacts
  <1>1. PICK walk : Walks(doc, walk) /\ w = walk[1]
    BY OrderIsWalk
  <1>2. w \in Seq(D) /\ Len(w) >= 1 /\ w[1] = 1
    BY <1>0, <1>1, WalkBlocks
  <1>3. \A p, q \in 1 .. Len(w) : w[p] = w[q] => p = q
    BY <1>0, <1>1, WalkOnce
  <1>4. Visits(doc, walk, 1) /\ Nested(doc, w)
    BY <1>0, <1>1, WalkVisits, WalkNests
  <1>5. /\ \A p \in 2 .. Len(w) : \E q \in 1 .. p - 1 : w[q] = doc[w[p]].up
        /\ \A c \in D : \A p \in 1 .. Len(w) : w[p] = doc[c].up => \E q \in 1 .. Len(w) : w[q] = c
    BY <1>1, <1>4, Zenon DEF Visits
  <1> HIDE DEF w
  <1>6. Len(w) \in Nat
    BY <1>2
  <1>7. ASSUME NEW k \in D, \A i \in 1 .. k - 1 : i \in T PROVE k \in T
    <2>1. CASE k = 1
      BY <2>1, <1>2, <1>6
    <2>2. CASE k # 1
      <3>1. k \in 2 .. Len(doc)
        BY <2>2
      <3>2. doc[k].up \in T
        BY <3>1, <1>0, <1>7
      <3>3. PICK p \in 1 .. Len(w) : w[p] = doc[k].up
        BY <3>2
      <3> QED  BY <3>3, <1>5
    <2> QED  BY <2>1, <2>2
  <1>8. \A k \in D : k \in T
    <2> HIDE DEF T
    <2> QED  BY <1>0, <1>7, Upward, Zenon
  <1> QED  BY <1>2, <1>3, <1>4, <1>5, <1>6, <1>8 DEF w

-----------------------------------------------------------------------------
(***************************************************************************)
(* The edges of a document.                                                *)
(***************************************************************************)
\* The edges a node may have.
Vias == {"on", "after", "always", "done", "error"}
EdgesFrom(n) == [source : {n}, via : Vias, event : STRING, target : Targets,
                 guard : STRING, acts : Seq(STRING)]

\* A list of edge objects becomes a list of the node's edges.
LEMMA EdgeList ==
    ASSUME NEW n, NEW list \in Seq(EdgeObject), NEW via \in Vias,
           NEW event, \A i \in 1 .. Len(list) : event[i] \in STRING
    PROVE  [i \in DOMAIN list |-> Edge(n, via, event[i], list[i])] \in Seq(EdgesFrom(n))
  <1> DEFINE out == [i \in DOMAIN list |-> Edge(n, via, event[i], list[i])]
  <1>1. Len(list) \in Nat /\ DOMAIN list = 1 .. Len(list)
        /\ \A i \in 1 .. Len(list) : list[i] \in EdgeObject
    <2> HIDE DEF EdgeObject
    <2> QED  OBVIOUS
  <1>2. ASSUME NEW i \in 1 .. Len(list) PROVE Edge(n, via, event[i], list[i]) \in EdgesFrom(n)
    <2>1. event[i] \in STRING /\ list[i] \in EdgeObject
      BY <1>1
    <2>2. /\ list[i].target \in Targets /\ list[i].guard \in STRING
          /\ list[i].acts \in Seq(STRING)
      BY <2>1, Zenon DEF EdgeObject
    <2> DEFINE nameless == event[i] = ""
               by  == IF via = "on" /\ nameless THEN "always" ELSE via
               rec == [source |-> n, via |-> by, event |-> event[i], target |-> list[i].target,
                       guard |-> list[i].guard, acts |-> list[i].acts]
    <2>3. Edge(n, via, event[i], list[i]) = rec
      BY Zenon DEF Edge
    <2> HIDE DEF nameless
    <2>4. by \in Vias
      BY DEF Vias
    <2> HIDE DEF by, Targets
    <2>5. rec \in EdgesFrom(n)
      BY <2>1, <2>2, <2>4 DEF EdgesFrom
    <2> QED  BY <2>3, <2>5, Zenon
  <1>3. out = [i \in 1 .. Len(list) |-> out[i]] /\ \A i \in 1 .. Len(list) : out[i] \in EdgesFrom(n)
    BY <1>1, <1>2
  <1> HIDE DEF out
  <1>4. out \in Seq(EdgesFrom(n))
    BY <1>1, <1>3, IsASeq
  <1> QED  BY <1>4 DEF out

\* The object of a node.
LEMMA ObjectFacts ==
    ASSUME NEW doc, IsDocument(doc), NEW n \in 1 .. Len(doc)
    PROVE  /\ doc[n] \in StateObject
           /\ doc[n].on \in Seq(EdgeObject) /\ doc[n].after \in Seq(EdgeObject)
           /\ doc[n].always \in Seq(EdgeObject) /\ doc[n].invoke \in Seq(InvokeObject)
           /\ doc[n].target \in Targets
           /\ doc[n].entry \in Seq(STRING) /\ doc[n].exit \in Seq(STRING)
  <1>1. doc[n] \in StateObject
    <2>1. doc \in Seq(StateObject)
      BY DEF IsDocument
    <2> QED  BY <2>1, ElementOfSeq
  <1> QED  BY <1>1, Zenon DEF StateObject

\* So do on, after and always together ...
LEMMA TransitionsOf ==
    ASSUME NEW doc, IsDocument(doc), NEW n \in 1 .. Len(doc)
    PROVE  Transitions(doc, n) \in Seq(EdgesFrom(n))
  <1> DEFINE edges(via, list) == [i \in DOMAIN list |-> Edge(n, via, list[i].desc, list[i])]
             F == EdgesFrom(n)
  <1>1. ASSUME NEW list \in Seq(EdgeObject), NEW via \in Vias PROVE edges(via, list) \in Seq(F)
    <2> DEFINE event == [i \in 1 .. Len(list) |-> list[i].desc]
    <2>1. \A i \in 1 .. Len(list) : list[i].desc \in STRING
      <3>1. \A i \in 1 .. Len(list) : list[i] \in EdgeObject
        BY ElementOfSeq
      <3> QED  BY <3>1 DEF EdgeObject
    <2>2. \A i \in 1 .. Len(list) : event[i] \in STRING /\ event[i] = list[i].desc
      BY <2>1
    <2>3. DOMAIN list = 1 .. Len(list)
      BY LenProperties
    <2> HIDE DEF event
    <2>4. [i \in DOMAIN list |-> Edge(n, via, event[i], list[i])] \in Seq(F)
      BY <2>2, EdgeList
    <2>5. [i \in DOMAIN list |-> Edge(n, via, event[i], list[i])] = edges(via, list)
      BY <2>2, <2>3
    <2> QED  BY <2>4, <2>5
  <1>2. /\ edges("on", doc[n].on) \in Seq(F)
        /\ edges("after", doc[n].after) \in Seq(F)
        /\ edges("always", doc[n].always) \in Seq(F)
    <2>1. "on" \in Vias /\ "after" \in Vias /\ "always" \in Vias
      BY DEF Vias
    <2> HIDE DEF edges, F
    <2> QED  BY <1>1, <2>1, ObjectFacts
  <1>3. Transitions(doc, n) = edges("on", doc[n].on) \o edges("after", doc[n].after)
                                                     \o edges("always", doc[n].always)
    BY Zenon DEF Transitions
  <1> HIDE DEF edges, F
  <1> QED  BY <1>2, <1>3, ConcatProperties DEF F

\* ... the outcomes of the invokes ...
LEMMA InvokeEdgesOf ==
    ASSUME NEW doc, IsDocument(doc), NEW n \in 1 .. Len(doc)
    PROVE  InvokeEdges(doc, n) \in Seq(EdgesFrom(n))
  <1> DEFINE edges(iv, via, list) == [i \in DOMAIN list |-> Edge(n, via, iv.id, list[i])]
             ivs   == doc[n].invoke
             of(iv) == edges(iv, "done", iv.onDone) \o edges(iv, "error", iv.onError)
             parts == [i \in DOMAIN ivs |-> of(ivs[i])]
             F == EdgesFrom(n)
             Q == Seq(F)
  <1>1. ASSUME NEW list \in Seq(EdgeObject), NEW via \in Vias, NEW iv, iv.id \in STRING
        PROVE  edges(iv, via, list) \in Q
    <2> DEFINE event == [i \in 1 .. Len(list) |-> iv.id]
    <2>1. \A i \in 1 .. Len(list) : event[i] \in STRING /\ event[i] = iv.id
      BY <1>1
    <2>2. DOMAIN list = 1 .. Len(list)
      BY LenProperties
    <2> HIDE DEF event
    <2>3. [i \in DOMAIN list |-> Edge(n, via, event[i], list[i])] \in Seq(F)
      BY <2>1, EdgeList
    <2>4. [i \in DOMAIN list |-> Edge(n, via, event[i], list[i])] = edges(iv, via, list)
      BY <2>1, <2>2
    <2> QED  BY <2>3, <2>4
  <1>2. ASSUME NEW iv \in InvokeObject PROVE of(iv) \in Q
    <2>1. iv.id \in STRING /\ iv.onDone \in Seq(EdgeObject) /\ iv.onError \in Seq(EdgeObject)
      BY Zenon DEF InvokeObject
    <2>2. "done" \in Vias /\ "error" \in Vias
      BY DEF Vias
    <2>3. edges(iv, "done", iv.onDone) \in Q /\ edges(iv, "error", iv.onError) \in Q
      <3> HIDE DEF edges, Q
      <3> QED  BY <1>1, <2>1, <2>2
    <2> HIDE DEF edges, F
    <2> QED  BY <2>3, ConcatProperties
  <1>3. ivs \in Seq(InvokeObject)
    BY ObjectFacts
  <1> HIDE DEF of, Q, ivs
  <1>4. Len(ivs) \in Nat /\ DOMAIN ivs = 1 .. Len(ivs) /\ \A i \in 1 .. Len(ivs) : ivs[i] \in InvokeObject
    <2> HIDE DEF InvokeObject
    <2> QED  BY <1>3
  <1>5. parts = [i \in 1 .. Len(ivs) |-> parts[i]] /\ \A i \in 1 .. Len(ivs) : parts[i] \in Q
    BY <1>2, <1>4
  <1> HIDE DEF parts
  <1>6. parts \in Seq(Q)
    BY <1>4, <1>5, IsASeq
  <1>7. FlattenSeq(parts) \in Seq(F)
    BY <1>6, FlattenLays DEF Q
  <1>8. InvokeEdges(doc, n) = FlattenSeq(parts)
    BY Zenon DEF InvokeEdges, parts, of, ivs
  <1> QED  BY <1>7, <1>8

\* ... and all of them.
LEMMA NodeEdgesOf ==
    ASSUME NEW doc, IsDocument(doc), NEW n \in 1 .. Len(doc)
    PROVE  NodeEdges(doc, n) \in Seq(EdgesFrom(n))
  <1>1. Transitions(doc, n) \in Seq(EdgesFrom(n)) /\ InvokeEdges(doc, n) \in Seq(EdgesFrom(n))
    BY TransitionsOf, InvokeEdgesOf
  <1> QED  BY <1>1, ConcatProperties, Zenon DEF NodeEdges

-----------------------------------------------------------------------------
(***************************************************************************)
(* What names lead to.                                                     *)
(***************************************************************************)
\* Children and targets that are found are there.
LEMMA FirstOfIn ==
    ASSUME NEW S \in SUBSET Nat, FirstOf(S) # 0
    PROVE  FirstOf(S) \in S
  <1>1. S # {} /\ FirstOf(S) = CHOOSE x \in S : \A y \in S : x <= y
    BY DEF FirstOf, Min
  <1>2. \E x \in S : \A y \in S : x <= y
    BY <1>1, Least, Zenon
  <1> QED  BY <1>1, <1>2, Zenon

\* FindChild finds a child, if anything.
LEMMA FoundChild ==
    ASSUME NEW doc, IsDocument(doc), NEW n, NEW key
    PROVE  /\ FindChild(doc, n, key) \in {0} \cup 1 .. Len(doc)
           /\ FindChild(doc, n, key) # 0 => doc[FindChild(doc, n, key)].up = n
  <1> DEFINE S == {c \in DOMAIN doc : doc[c].up = n /\ doc[c].key = key}
  <1>1. DOMAIN doc = 1 .. Len(doc) /\ Len(doc) \in Nat
    BY TreeFacts
  <1>2. S \in SUBSET Nat
    BY <1>1
  <1>3. FindChild(doc, n, key) = FirstOf(S)
    BY Zenon DEF FindChild
  <1>4. FirstOf(S) # 0 => FirstOf(S) \in S
    BY <1>2, FirstOfIn, Zenon
  <1>5. FirstOf(S) # 0 => FirstOf(S) \in 1 .. Len(doc) /\ doc[FirstOf(S)].up = n
    BY <1>1, <1>4
  <1> QED  BY <1>3, <1>5

\* The results of b steps in a row, as ResolveRelative takes them.
Iterates(f, X, x, b, step) ==
    /\ f \in [0 .. b -> X] /\ f[0] = x
    /\ \A i \in 1 .. b : f[i] = step[i][f[i - 1]]

\* There is such an iteration.
LEMMA Iterated ==
    ASSUME NEW X, NEW x \in X, NEW b \in Nat, NEW step \in [1 .. b -> [X -> X]]
    PROVE  \E f : Iterates(f, X, x, b, step)
  <1> USE DEF Iterates
  <1> DEFINE Fits(g, k) == /\ g \in [0 .. b -> X] /\ g[0] = x
                           /\ \A i \in 1 .. k : g[i] = step[i][g[i - 1]]
             T == {k \in 1 .. b : \E g : Fits(g, k)}
  <1>1. ASSUME NEW k \in 1 .. b, NEW g \in [0 .. b -> X], g[0] = x,
               \A i \in 1 .. k - 1 : g[i] = step[i][g[i - 1]]
        PROVE  k \in T
    <2> DEFINE new == step[k][g[k - 1]]
               h   == [g EXCEPT ![k] = new]
    <2>1. k - 1 \in 0 .. b /\ k \in 0 .. b /\ k # 0
      OBVIOUS
    <2>2. new \in X
      <3>1. g[k - 1] \in X /\ step[k] \in [X -> X]
        BY <2>1
      <3> QED  BY <3>1
    <2> HIDE DEF new
    <2>3. h \in [0 .. b -> X] /\ h[k] = new /\ \A i \in 0 .. k - 1 : h[i] = g[i]
      BY <2>1, <2>2
    <2> HIDE DEF h
    <2>4. ASSUME NEW i \in 1 .. k PROVE h[i] = step[i][h[i - 1]]
      <3>1. i - 1 \in 0 .. k - 1
        OBVIOUS
      <3>2. CASE i = k
        BY <3>1, <3>2, <2>3 DEF new
      <3>3. CASE i # k
        <4>1. i \in 1 .. k - 1 /\ i \in 0 .. k - 1
          BY <3>3
        <4> QED  BY <4>1, <3>1, <2>3, <1>1
      <3> QED  BY <3>2, <3>3
    <2>5. h[0] = x
      BY <2>1, <2>3, <1>1
    <2>6. Fits(h, k)
      BY <2>3, <2>4, <2>5
    <2> HIDE DEF Fits
    <2> QED  BY <2>6
  <1>2. ASSUME NEW k \in 1 .. b, \A i \in 1 .. k - 1 : i \in T PROVE k \in T
    <2>1. CASE k = 1
      <3> DEFINE g == [i \in 0 .. b |-> x]
      <3>1. g \in [0 .. b -> X] /\ g[0] = x
        OBVIOUS
      <3>2. \A i \in 1 .. k - 1 : FALSE
        BY <2>1
      <3> HIDE DEF g, T
      <3> QED  BY <3>1, <3>2, <1>1
    <2>2. CASE k # 1
      <3>1. k - 1 \in 1 .. k - 1
        BY <2>2
      <3>2. PICK g : Fits(g, k - 1)
        BY <1>2, <3>1
      <3>3. /\ g \in [0 .. b -> X] /\ g[0] = x
            /\ \A i \in 1 .. k - 1 : g[i] = step[i][g[i - 1]]
        BY <3>2
      <3> HIDE DEF T
      <3> QED  BY <3>3, <1>1
    <2> QED  BY <2>1, <2>2
  <1>3. CASE b = 0
    <2> DEFINE g == [i \in 0 .. b |-> x]
    <2>1. g \in [0 .. b -> X] /\ g[0] = x /\ \A i \in 1 .. b : FALSE
      BY <1>3
    <2> QED  BY <2>1
  <1>4. CASE b # 0
    <2>1. \A k \in 1 .. b : k \in T
      <3> HIDE DEF T
      <3> QED  BY <1>2, Upward, Zenon
    <2>2. b \in T
      <3> HIDE DEF T
      <3> QED  BY <1>4, <2>1
    <2>3. PICK g : Fits(g, b)
      BY <2>2
    <2> QED  BY <2>3
  <1> QED  BY <1>3, <1>4

\* A relative path leads to a node, if anywhere.
LEMMA FoundBelow ==
    ASSUME NEW doc, IsDocument(doc), NEW src \in 1 .. Len(doc), NEW path \in Seq(STRING)
    PROVE  ResolveRelative(doc, src, path) \in {0} \cup 1 .. Len(doc)
  <1> DEFINE b == Len(path)
             X == {0} \cup 1 .. Len(doc)
             Rule(f) == [i \in 0 .. Len(path) |->
                            IF i = 0 THEN src
                            ELSE IF f[i - 1] = 0 THEN 0 ELSE FindChild(doc, f[i - 1], path[i])]
             at == CHOOSE f : f = Rule(f)
             step == [i \in 1 .. b |-> [c \in X |-> IF c = 0 THEN 0
                                                    ELSE FindChild(doc, c, path[i])]]
  <1>1. b \in Nat /\ src \in X
    OBVIOUS
  <1>2. \A n, key : FindChild(doc, n, key) \in X
    BY FoundChild
  <1>3. ResolveRelative(doc, src, path) = IF path = <<>> THEN 0 ELSE at[Len(path)]
    BY Zenon DEF ResolveRelative
  <1>0. 0 \in X
    OBVIOUS
  <1> HIDE DEF X
  <1>4. step \in [1 .. b -> [X -> X]]
    BY <1>0, <1>2
  <1>5. \E f : f = Rule(f)
    <2> HIDE DEF step
    <2>0. PICK f : Iterates(f, X, src, b, step)
      <3> HIDE DEF b
      <3> QED  BY <1>1, <1>4, Iterated
    <2>1. /\ f \in [0 .. b -> X] /\ f[0] = src
          /\ \A i \in 1 .. b : f[i] = step[i][f[i - 1]]
      BY <2>0, Zenon DEF Iterates
    <2>2. ASSUME NEW i \in 0 .. b
          PROVE  f[i] = IF i = 0 THEN src
                        ELSE IF f[i - 1] = 0 THEN 0 ELSE FindChild(doc, f[i - 1], path[i])
      <3>1. CASE i = 0
        BY <3>1, <2>1
      <3>2. CASE i # 0
        <4>1. i \in 1 .. b /\ i - 1 \in 0 .. b
          BY <3>2, <1>1
        <4>2. f[i] = step[i][f[i - 1]] /\ f[i - 1] \in X
          BY <4>1, <2>1
        <4> QED  BY <4>1, <4>2, <3>2 DEF step
      <3> QED  BY <3>1, <3>2
    <2>3. f = [i \in 0 .. b |-> f[i]]
      BY <2>1
    <2>4. f = Rule(f)
      BY <2>2, <2>3
    <2> HIDE DEF Rule
    <2> QED  BY <2>4
  <1>6. at = Rule(at)
    <2> HIDE DEF Rule
    <2> QED  BY <1>5, Zenon
  <1> HIDE DEF at, step
  <1>7. /\ at[0] = src
        /\ \A i \in 1 .. b : at[i] = IF at[i - 1] = 0 THEN 0 ELSE FindChild(doc, at[i - 1], path[i])
    BY <1>1, <1>6
  <1>8. \A i \in 1 .. b : at[i] \in X
    BY <1>0, <1>2, <1>7
  <1>9. path # <<>> => Len(path) \in 1 .. b
    BY EmptySeq
  <1> QED  BY <1>0, <1>3, <1>8, <1>9 DEF X

\* A target that resolves names a node.
LEMMA FoundTarget ==
    ASSUME NEW doc, IsDocument(doc), NEW src \in 1 .. Len(doc), NEW target \in Targets,
           target # NoTarget, ResolveTarget(doc, src, target) # 0
    PROVE  ResolveTarget(doc, src, target) \in 1 .. Len(doc)
  <1>0. DOMAIN doc = 1 .. Len(doc)
    BY TreeFacts
  <1>1. target \in [form : {"#", ".", "key"}, path : Seq(STRING)]
    BY DEF Targets
  <1>2. CASE target.form = "#"
    <2> DEFINE named == {n \in DOMAIN doc : \/ <<Key(doc, n)>> = target.path
                                            \/ Id(doc)[n] = target.path}
    <2>1. ResolveTarget(doc, src, target) = ResolveAbsolute(doc, target.path)
      BY <1>2, Zenon DEF ResolveTarget
    <2>2. ResolveAbsolute(doc, target.path) =
              IF target.path # <<>> /\ Cardinality(named) = 1
              THEN CHOOSE n \in named : TRUE ELSE 0
      BY Zenon DEF ResolveAbsolute
    <2>3. Cardinality(named) = 1
      BY <2>1, <2>2
    <2>4. named # {}
      <3>1. Cardinality({}) = 0
        BY FS_EmptySet
      <3> HIDE DEF named
      <3>2. named = {} => Cardinality(named) = 0
        BY <3>1, Zenon
      <3> QED  BY <2>3, <3>2
    <2>5. ResolveTarget(doc, src, target) = CHOOSE n \in named : TRUE
      BY <2>1, <2>2
    <2> QED  BY <1>0, <2>4, <2>5
  <1>3. CASE target.form = "."
    <2>1. ResolveTarget(doc, src, target) = ResolveRelative(doc, src, target.path)
      BY <1>3, Zenon DEF ResolveTarget
    <2>2. target.path \in Seq(STRING)
      BY <1>1
    <2> QED  BY <2>1, <2>2, FoundBelow
  <1>4. CASE target.form = "key"
    <2>1. ResolveTarget(doc, src, target) =
              IF src = 1 THEN 0 ELSE FindChild(doc, doc[src].up, target.path[1])
      BY <1>4, Zenon DEF ResolveTarget
    <2> QED  BY <2>1, FoundChild
  <1> QED  BY <1>1, <1>2, <1>3, <1>4

-----------------------------------------------------------------------------
(***************************************************************************)
(* The chart of a document.                                                *)
(***************************************************************************)
\* Where a node stands in the document order.
Place(doc) == [n \in 1 .. Len(doc) |->
    CHOOSE p \in 1 .. Len(DocumentOrder(doc)) : DocumentOrder(doc)[p] = n]

\* It is a numbering of the nodes, depth first.
LEMMA PlaceFacts ==
    ASSUME NEW doc, IsDocument(doc)
    PROVE  LET D == 1 .. Len(doc)
               w == DocumentOrder(doc)
               at == Place(doc)
           IN  /\ at \in [D -> 1 .. Len(w)] /\ at[1] = 1
               /\ \A n \in D : w[at[n]] = n
               /\ \A p \in 1 .. Len(w) : w[p] \in D /\ at[w[p]] = p
               /\ \A n \in 2 .. Len(doc) : doc[n].up \in D /\ at[doc[n].up] < at[n]
               /\ \A n, m \in 2 .. Len(doc) : at[doc[n].up] < at[m] /\ at[m] < at[n]
                                              => at[doc[n].up] <= at[doc[m].up]
  <1> DEFINE D == 1 .. Len(doc)
             w == DocumentOrder(doc)
             at == Place(doc)
  <1>0. /\ Len(doc) \in Nat /\ 1 \in D /\ \A n \in 2 .. Len(doc) : doc[n].up \in 1 .. n - 1
    BY TreeFacts
  <1>1. /\ w \in Seq(D) /\ Len(w) \in Nat /\ Len(w) >= 1 /\ w[1] = 1
        /\ \A p, q \in 1 .. Len(w) : w[p] = w[q] => p = q
        /\ \A n \in D : \E p \in 1 .. Len(w) : w[p] = n
        /\ \A p \in 2 .. Len(w) : \E q \in 1 .. p - 1 : w[q] = doc[w[p]].up
        /\ Nested(doc, w)
    BY DocumentOrderFacts, Zenon
  <1>2. at = [n \in D |-> CHOOSE p \in 1 .. Len(w) : w[p] = n]
    BY Zenon DEF Place
  <1> HIDE DEF w, at
  <1>3. ASSUME NEW n \in D PROVE at[n] \in 1 .. Len(w) /\ w[at[n]] = n
    <2>1. at[n] = CHOOSE p \in 1 .. Len(w) : w[p] = n
      BY <1>2
    <2> QED  BY <2>1, <1>1
  <1>4. at \in [D -> 1 .. Len(w)]
    BY <1>2, <1>3
  <1>5. ASSUME NEW p \in 1 .. Len(w) PROVE w[p] \in D /\ at[w[p]] = p
    <2>1. w[p] \in D
      BY <1>1
    <2>2. at[w[p]] \in 1 .. Len(w) /\ w[at[w[p]]] = w[p]
      BY <2>1, <1>3
    <2> QED  BY <2>1, <2>2, <1>1
  <1>6. at[1] = 1
    <2>1. 1 \in 1 .. Len(w)
      BY <1>1
    <2> QED  BY <2>1, <1>1, <1>5
  <1>7. ASSUME NEW n \in 2 .. Len(doc)
        PROVE  /\ n \in D /\ doc[n].up \in D /\ at[doc[n].up] < at[n] /\ at[n] \in 2 .. Len(w)
    <2>1. n \in D /\ n # 1 /\ doc[n].up \in D
      BY <1>0
    <2>2. at[n] \in 1 .. Len(w) /\ w[at[n]] = n
      BY <2>1, <1>3
    <2>3. at[n] # 1
      BY <2>1, <2>2, <1>1
    <2>4. at[n] \in 2 .. Len(w)
      BY <2>2, <2>3
    <2>5. PICK q \in 1 .. at[n] - 1 : w[q] = doc[w[at[n]]].up
      BY <2>4, <1>1
    <2>6. q \in 1 .. Len(w) /\ q < at[n] /\ w[q] = doc[n].up
      BY <2>2, <2>5, <1>1, SMTT(30)
    <2>7. at[doc[n].up] = q
      BY <2>6, <1>5
    <2> QED  BY <2>1, <2>4, <2>6, <2>7
  <1>8. ASSUME NEW n \in 2 .. Len(doc), NEW m \in 2 .. Len(doc),
               at[doc[n].up] < at[m], at[m] < at[n]
        PROVE  at[doc[n].up] <= at[doc[m].up]
    <2>1. \A p \in 2 .. Len(w) : \A q, r \in 1 .. Len(w) :
              w[q] = doc[w[p]].up /\ q < r /\ r < p
              => \E s \in 1 .. Len(w) : q <= s /\ s < r /\ w[s] = doc[w[r]].up
      BY <1>1, Zenon DEF Nested
    <2> DEFINE p == at[n]
               q == at[doc[n].up]
               r == at[m]
    <2>2. /\ p \in 2 .. Len(w) /\ q \in 1 .. Len(w) /\ r \in 1 .. Len(w)
          /\ w[p] = n /\ w[q] = doc[n].up /\ w[r] = m /\ q < r /\ r < p
      BY <1>3, <1>7, <1>8
    <2> HIDE DEF p, q, r
    <2>3. PICK s \in 1 .. Len(w) : q <= s /\ s < r /\ w[s] = doc[w[r]].up
      BY <2>1, <2>2
    <2>4. at[doc[m].up] = s
      BY <2>2, <2>3, <1>5
    <2> QED  BY <2>3, <2>4 DEF q
  <1> QED  BY <1>3, <1>4, <1>5, <1>6, <1>7, <1>8 DEF w, at

\* The names of the nodes.
LEMMA NameFacts ==
    ASSUME NEW doc, IsDocument(doc)
    PROVE  /\ \A n \in 1 .. Len(doc) : Pointer[n] \in STRING /\ Pointer[n] # "none"
           /\ \A n, m \in 1 .. Len(doc) : Pointer[n] = Pointer[m] => n = m
           /\ \A n \in 1 .. Len(doc) : (CHOOSE m \in DOMAIN doc : Pointer[m] = Pointer[n]) = n
  <1>1. /\ Pointer \in Seq(STRING) /\ IsInjective(Pointer) /\ "none" \notin Range(Pointer)
        /\ Len(doc) \in 1 .. Len(Pointer) /\ DOMAIN doc = 1 .. Len(doc)
    BY PointerAssumption, TreeFacts DEF IsDocument
  <1>2. Len(Pointer) \in Nat /\ DOMAIN Pointer = 1 .. Len(Pointer)
    BY <1>1
  <1>3. \A n \in 1 .. Len(doc) : n \in DOMAIN Pointer
    BY <1>1, <1>2
  <1>4. \A n \in DOMAIN Pointer : Pointer[n] \in STRING /\ Pointer[n] # "none"
    BY <1>1, <1>2 DEF Range
  <1>5. \A n, m \in DOMAIN Pointer : Pointer[n] = Pointer[m] => n = m
    BY <1>1 DEF IsInjective
  <1>6. \A n, m \in 1 .. Len(doc) : Pointer[n] = Pointer[m] => n = m
    BY <1>3, <1>5
  <1>7. ASSUME NEW n \in 1 .. Len(doc)
        PROVE  (CHOOSE m \in DOMAIN doc : Pointer[m] = Pointer[n]) = n
    <2>1. n \in DOMAIN doc
      BY <1>1
    <2> DEFINE c == CHOOSE m \in DOMAIN doc : Pointer[m] = Pointer[n]
    <2>2. c \in DOMAIN doc /\ Pointer[c] = Pointer[n]
      BY <2>1, Zenon
    <2> HIDE DEF c
    <2>3. c = n
      BY <2>2, <1>1, <1>6
    <2> QED  BY <2>3 DEF c
  <1> QED  BY <1>3, <1>4, <1>6, <1>7

\* What the chart of a document says of its nodes.
Named(doc, S) == {Pointer[n] : n \in S}
Goal(doc, n) == IF KindOf(doc, n) = "compound" THEN FindChild(doc, n, doc[n].initial)
                                               ELSE ResolveTarget(doc, n, doc[n].target)
HasGoal(doc) == {n \in 1 .. Len(doc) : \/ KindOf(doc, n) = "compound"
                                       \/ IsHistory(doc, n) /\ doc[n].target # NoTarget}

\* The chart has the nodes in document order, each under its pointer, with its
\* kind, its parent and its initial child or default.
LEMMA ChartFacts ==
    ASSUME NEW doc, IsDocument(doc)
    PROVE  LET C == Chart(doc)
               D == 1 .. Len(doc)
               w == DocumentOrder(doc)
           IN  /\ C.nodes = [i \in 1 .. Len(w) |-> Pointer[w[i]]]
               /\ DOMAIN C.kind = Named(doc, D) /\ DOMAIN C.parent = Named(doc, D)
               /\ C.kind = [p \in Named(doc, D) |-> C.kind[p]]
               /\ C.parent = [p \in Named(doc, D) |-> C.parent[p]]
               /\ DOMAIN C.initial = Named(doc, HasGoal(doc))
               /\ \A n \in D : /\ C.kind[Pointer[n]] = KindOf(doc, n)
                               /\ C.parent[Pointer[n]] = PointerTo(doc[n].up)
               /\ \A n \in HasGoal(doc) : C.initial[Pointer[n]] = Pointer[Goal(doc, n)]
  <1> DEFINE C == Chart(doc)
             D == 1 .. Len(doc)
             w == DocumentOrder(doc)
             compound == {n \in DOMAIN doc : KindOf(doc, n) = "compound"}
             default  == {n \in DOMAIN doc : IsHistory(doc, n) /\ doc[n].target # NoTarget}
             goal(n)  == IF n \in compound THEN FindChild(doc, n, doc[n].initial)
                                           ELSE ResolveTarget(doc, n, doc[n].target)
             node(p)  == CHOOSE n \in DOMAIN doc : Pointer[n] = p
             edges == FlattenSeq([i \in DOMAIN w |-> NodeEdges(doc, w[i])])
             nodesF == [i \in DOMAIN w |-> Pointer[w[i]]]
             kindF == [p \in {Pointer[n] : n \in DOMAIN doc} |-> KindOf(doc, node(p))]
             parentF == [p \in {Pointer[n] : n \in DOMAIN doc} |-> PointerTo(doc[node(p)].up)]
             initialF == [p \in {Pointer[n] : n \in compound \cup default} |->
                             Pointer[goal(node(p))]]
             edgesF == [i \in DOMAIN edges |->
                       [source |-> Pointer[edges[i].source],
                        event |-> <<edges[i].via, edges[i].event>>,
                        guarded |-> edges[i].guard # Absent,
                        target |-> IF edges[i].target = NoTarget THEN "none"
                                   ELSE Pointer[ResolveTarget(doc, edges[i].source,
                                                              edges[i].target)]]]
  <1>1. C = [nodes |-> nodesF, kind |-> kindF, parent |-> parentF, initial |-> initialF,
             edges |-> edgesF]
    BY Zenon DEF Chart
  <1>2. DOMAIN doc = D /\ DOMAIN w = 1 .. Len(w)
    <2>1. w \in Seq(D)
      BY DocumentOrderFacts
    <2> QED  BY <2>1, TreeFacts
  <1>3. \A n \in D : node(Pointer[n]) = n
    BY NameFacts
  <1>4. HasGoal(doc) = compound \cup default /\ \A n \in D : goal(n) = Goal(doc, n)
    BY <1>2 DEF HasGoal, Goal
  <1>5. HasGoal(doc) \subseteq D
    BY DEF HasGoal
  <1> HIDE DEF w, node, compound, default, goal, edgesF
  <1>6. nodesF = [i \in 1 .. Len(w) |-> Pointer[w[i]]]
    BY <1>2
  <1>7. /\ DOMAIN kindF = Named(doc, D) /\ DOMAIN parentF = Named(doc, D)
        /\ kindF = [p \in Named(doc, D) |-> kindF[p]]
        /\ parentF = [p \in Named(doc, D) |-> parentF[p]]
        /\ DOMAIN initialF = Named(doc, HasGoal(doc))
    BY <1>2, <1>4 DEF Named
  <1>8. \A n \in D : /\ kindF[Pointer[n]] = KindOf(doc, n)
                     /\ parentF[Pointer[n]] = PointerTo(doc[n].up)
    BY <1>2, <1>3
  <1>9. \A n \in HasGoal(doc) : initialF[Pointer[n]] = Pointer[Goal(doc, n)]
    BY <1>3, <1>4, <1>5
  <1> HIDE DEF nodesF, kindF, parentF, initialF
  <1>10. C.nodes = nodesF /\ C.kind = kindF /\ C.parent = parentF /\ C.initial = initialF
    BY <1>1
  <1> HIDE DEF C
  <1> QED  BY <1>6, <1>7, <1>8, <1>9, <1>10 DEF C, w

\* The edges of a chart stand in the order of their sources.
LEMMA ChartEdges ==
    ASSUME NEW doc, IsDocument(doc)
    PROVE  LET C == Chart(doc)
               D == 1 .. Len(doc)
           IN  /\ DOMAIN C.edges = 1 .. Len(C.edges) /\ C.edges \in Seq(Range(C.edges))
               /\ \A t \in DOMAIN C.edges : \E n \in D : \E e \in Range(NodeEdges(doc, n)) :
                      /\ C.edges[t].source = Pointer[n]
                      /\ C.edges[t].target =
                             IF e.target = NoTarget THEN "none"
                             ELSE Pointer[ResolveTarget(doc, n, e.target)]
               /\ \A t, u \in DOMAIN C.edges : t < u =>
                      \E n, m \in D : /\ C.edges[t].source = Pointer[n]
                                      /\ C.edges[u].source = Pointer[m]
                                      /\ Place(doc)[n] <= Place(doc)[m]
  <1> DEFINE C == Chart(doc)
             D == 1 .. Len(doc)
             w == DocumentOrder(doc)
             parts == [i \in DOMAIN w |-> NodeEdges(doc, w[i])]
             edges == FlattenSeq(parts)
             E == [source : D, via : Vias, event : STRING, target : Targets,
                   guard : STRING, acts : Seq(STRING)]
             out(e) == [source |-> Pointer[e.source],
                        event |-> <<e.via, e.event>>,
                        guarded |-> e.guard # Absent,
                        target |-> IF e.target = NoTarget THEN "none"
                                   ELSE Pointer[ResolveTarget(doc, e.source, e.target)]]
  <1>1. /\ w \in Seq(D) /\ Len(w) \in Nat /\ DOMAIN w = 1 .. Len(w)
        /\ \A p \in 1 .. Len(w) : w[p] \in D /\ Place(doc)[w[p]] = p
    <2>1. w \in Seq(D) /\ Len(w) \in Nat
      BY DocumentOrderFacts
    <2>2. \A p \in 1 .. Len(w) : w[p] \in D /\ Place(doc)[w[p]] = p
      BY PlaceFacts
    <2> QED  BY <2>1, <2>2, LenProperties
  <1>2. C.edges = [i \in DOMAIN edges |-> out(edges[i])]
    BY Zenon DEF Chart
  <1>3. ASSUME NEW n \in D
        PROVE  /\ NodeEdges(doc, n) \in Seq(E)
               /\ \A k \in 1 .. Len(NodeEdges(doc, n)) :
                      /\ NodeEdges(doc, n)[k] \in Range(NodeEdges(doc, n))
                      /\ NodeEdges(doc, n)[k].source = n
    <2> DEFINE s == NodeEdges(doc, n)
               F == EdgesFrom(n)
    <2>1. s \in Seq(F)
      BY NodeEdgesOf
    <2>2. F \subseteq E
      BY DEF EdgesFrom
    <2>3. \A e \in F : e.source = n
      BY DEF EdgesFrom
    <2> HIDE DEF s, E, F
    <2>4. Len(s) \in Nat /\ DOMAIN s = 1 .. Len(s) /\ \A k \in 1 .. Len(s) : s[k] \in F
      BY <2>1
    <2>5. s \in Seq(E)
      <3>1. s = [k \in 1 .. Len(s) |-> s[k]] /\ \A k \in 1 .. Len(s) : s[k] \in E
        BY <2>1, <2>2, <2>4
      <3> QED  BY <2>4, <3>1, IsASeq
    <2>6. \A k \in 1 .. Len(s) : s[k] \in Range(s)
      BY <2>4 DEF Range
    <2> QED  BY <2>3, <2>4, <2>5, <2>6 DEF s
  <1> HIDE DEF E
  <1>4. /\ parts \in Seq(Seq(E)) /\ Len(parts) = Len(w)
        /\ \A i \in 1 .. Len(w) : parts[i] = NodeEdges(doc, w[i])
    <2> DEFINE Q == Seq(E)
    <2>1. parts = [i \in 1 .. Len(w) |-> parts[i]]
      BY <1>1
    <2>2. \A i \in 1 .. Len(w) : parts[i] = NodeEdges(doc, w[i]) /\ parts[i] \in Q
      BY <1>1, <1>3
    <2> HIDE DEF Q, parts, w
    <2>3. parts \in Seq(Q) /\ Len(parts) = Len(w)
      <3>1. parts \in Seq(Q)
        BY <1>1, <2>1, <2>2, IsASeq
      <3> QED  BY <1>1, <2>1, <3>1
    <2> QED  BY <2>2, <2>3 DEF Q
  <1> HIDE DEF parts
  <1>5. edges \in Seq(E)
    BY <1>4, FlattenLays
  <1>6. PICK at \in [1 .. Len(parts) -> Nat] : Laid(parts, edges, at)
    BY <1>4, FlattenLays
  <1>7. Len(edges) \in Nat /\ DOMAIN edges = 1 .. Len(edges)
    <2> HIDE DEF edges
    <2> QED  BY <1>5
  <1> HIDE DEF edges, w
  <1>8. /\ DOMAIN C.edges = 1 .. Len(edges)
        /\ \A t \in 1 .. Len(edges) : C.edges[t] = out(edges[t])
    BY <1>2, <1>7
  <1>9. DOMAIN C.edges = 1 .. Len(C.edges) /\ C.edges \in Seq(Range(C.edges))
    <2> DEFINE c == C.edges
    <2>1. c = [i \in 1 .. Len(edges) |-> c[i]] /\ \A i \in 1 .. Len(edges) : c[i] \in Range(c)
      <3> DEFINE g(i) == out(edges[i])
      <3>1. c = [i \in 1 .. Len(edges) |-> g(i)]
        BY <1>2, <1>7
      <3> HIDE DEF c, g
      <3>2. DOMAIN c = 1 .. Len(edges)
        BY <3>1
      <3> QED  BY <3>1, <3>2 DEF Range
    <2> HIDE DEF c
    <2>2. c \in Seq(Range(c)) /\ Len(c) = Len(edges) /\ DOMAIN c = 1 .. Len(edges)
      BY <2>1, <1>7, IsASeq
    <2> QED  BY <2>2 DEF c
  <1>10. ASSUME NEW t \in 1 .. Len(edges)
         PROVE  \E i \in 1 .. Len(w) : \E k \in 1 .. Len(parts[i]) :
                    t = at[i] + k /\ edges[t] = parts[i][k]
    <2>1. PICK i \in 1 .. Len(parts) : \E k \in 1 .. Len(parts[i]) : t = at[i] + k
      BY <1>6, Zenon DEF Laid
    <2>2. PICK k \in 1 .. Len(parts[i]) : t = at[i] + k
      BY <2>1
    <2>3. edges[at[i] + k] = parts[i][k]
      BY <1>6, Zenon DEF Laid
    <2> QED  BY <1>4, <2>2, <2>3
  <1>11. ASSUME NEW t \in 1 .. Len(edges), NEW i \in 1 .. Len(w),
                NEW k \in 1 .. Len(parts[i]), edges[t] = parts[i][k]
         PROVE  /\ w[i] \in D /\ edges[t] \in Range(NodeEdges(doc, w[i]))
                /\ edges[t].source = w[i] /\ C.edges[t].source = Pointer[w[i]]
                /\ C.edges[t].target = IF edges[t].target = NoTarget THEN "none"
                                       ELSE Pointer[ResolveTarget(doc, w[i], edges[t].target)]
    <2>1. w[i] \in D /\ parts[i] = NodeEdges(doc, w[i])
      BY <1>1, <1>4
    <2>2. edges[t] \in Range(NodeEdges(doc, w[i])) /\ edges[t].source = w[i]
      BY <2>1, <1>3, <1>11
    <2>3. C.edges[t] = out(edges[t])
      BY <1>8
    <2> HIDE DEF C
    <2>4. /\ C.edges[t].source = Pointer[edges[t].source]
          /\ C.edges[t].target = IF edges[t].target = NoTarget THEN "none"
                                 ELSE Pointer[ResolveTarget(doc, edges[t].source, edges[t].target)]
      BY <2>3
    <2> QED  BY <2>1, <2>2, <2>4 DEF C
  <1>12. ASSUME NEW t \in 1 .. Len(edges)
         PROVE  \E n \in D : \E e \in Range(NodeEdges(doc, n)) :
                    /\ C.edges[t].source = Pointer[n]
                    /\ C.edges[t].target = IF e.target = NoTarget THEN "none"
                                           ELSE Pointer[ResolveTarget(doc, n, e.target)]
    <2>1. PICK i \in 1 .. Len(w) : \E k \in 1 .. Len(parts[i]) : edges[t] = parts[i][k]
      BY <1>10
    <2>2. PICK k \in 1 .. Len(parts[i]) : edges[t] = parts[i][k]
      BY <2>1
    <2> HIDE DEF C
    <2> QED  BY <2>2, <1>11
  <1>13. ASSUME NEW t \in 1 .. Len(edges), NEW u \in 1 .. Len(edges), t < u
         PROVE  \E n, m \in D : /\ C.edges[t].source = Pointer[n]
                                /\ C.edges[u].source = Pointer[m]
                                /\ Place(doc)[n] <= Place(doc)[m]
    <2>1. PICK i \in 1 .. Len(w) : \E k \in 1 .. Len(parts[i]) :
                    t = at[i] + k /\ edges[t] = parts[i][k]
      BY <1>10
    <2>2. PICK k \in 1 .. Len(parts[i]) : t = at[i] + k /\ edges[t] = parts[i][k]
      BY <2>1
    <2>3. PICK j \in 1 .. Len(w) : \E l \in 1 .. Len(parts[j]) :
                    u = at[j] + l /\ edges[u] = parts[j][l]
      BY <1>10
    <2>4. PICK l \in 1 .. Len(parts[j]) : u = at[j] + l /\ edges[u] = parts[j][l]
      BY <2>3
    <2>5. i <= j
      <3> SUFFICES ASSUME j < i PROVE FALSE
        BY <1>1
      <3>1. at[j] + Len(parts[j]) <= at[i]
        BY <1>4, <1>6, Zenon DEF Laid
      <3>2. at[i] \in Nat /\ at[j] \in Nat /\ Len(parts[j]) \in Nat /\ Len(parts[i]) \in Nat
        <4>1. parts[i] \in Seq(E) /\ parts[j] \in Seq(E)
          BY <1>1, <1>3, <1>4
        <4>2. at[i] \in Nat /\ at[j] \in Nat
          BY <1>4
        <4>3. \A q \in Seq(E) : Len(q) \in Nat
          BY LenProperties
        <4> QED  BY <4>1, <4>2, <4>3
      <3> QED  BY <2>2, <2>4, <3>1, <3>2, <1>13, SMTT(30)
    <2>6. C.edges[t].source = Pointer[w[i]] /\ C.edges[u].source = Pointer[w[j]]
      <3> HIDE DEF C
      <3> QED  BY <1>11, <2>2, <2>4
    <2>7. w[i] \in D /\ w[j] \in D /\ Place(doc)[w[i]] = i /\ Place(doc)[w[j]] = j
      BY <1>1
    <2> HIDE DEF C
    <2> QED  BY <2>5, <2>6, <2>7
  <1>14. DOMAIN C.edges = 1 .. Len(edges)
    BY <1>8
  <1> HIDE DEF C
  <1>15. \A t \in DOMAIN C.edges : \E n \in D : \E e \in Range(NodeEdges(doc, n)) :
             /\ C.edges[t].source = Pointer[n]
             /\ C.edges[t].target = IF e.target = NoTarget THEN "none"
                                    ELSE Pointer[ResolveTarget(doc, n, e.target)]
    BY <1>12, <1>14, Zenon
  <1>16. \A t, u \in DOMAIN C.edges : t < u =>
             \E n, m \in D : /\ C.edges[t].source = Pointer[n]
                             /\ C.edges[u].source = Pointer[m]
                             /\ Place(doc)[n] <= Place(doc)[m]
    <2> SUFFICES ASSUME NEW t \in DOMAIN C.edges, NEW u \in DOMAIN C.edges, t < u
                 PROVE  \E n, m \in D : /\ C.edges[t].source = Pointer[n]
                                        /\ C.edges[u].source = Pointer[m]
                                        /\ Place(doc)[n] <= Place(doc)[m]
      OBVIOUS
    <2>1. t \in 1 .. Len(edges) /\ u \in 1 .. Len(edges)
      BY <1>14
    <2> HIDE DEF D
    <2> QED  BY <2>1, <1>13
  <1> QED  BY <1>9, <1>15, <1>16, Zenon DEF C

-----------------------------------------------------------------------------
(***************************************************************************)
(* What the gates leave.                                                   *)
(***************************************************************************)
\* What the second gate leaves of a document: kinds, children, goals and edges.
Sound(doc) ==
    LET D == 1 .. Len(doc)
    IN  /\ \A n \in D : KindOf(doc, n) \in Diagram!Kinds
        /\ \A n \in D : KindOf(doc, n) \in {"shallow", "deep"} => IsHistory(doc, n) /\ n # 1
        /\ \A n \in 2 .. Len(doc) : KindOf(doc, doc[n].up) \in {"compound", "parallel"}
        /\ \A n \in D : KindOf(doc, n) = "compound" =>
               Goal(doc, n) \in D /\ doc[Goal(doc, n)].up = n
        /\ \A n \in HasGoal(doc) : Goal(doc, n) \in D
        /\ \A n \in D : \A e \in Range(NodeEdges(doc, n)) :
               /\ ~IsHistory(doc, n)
               /\ e.target # NoTarget => ResolveTarget(doc, n, e.target) \in D

\* The two gates leave only that, but for what they do not look at.
LEMMA AcceptedIsSound ==
    ASSUME NEW doc, IsDocument(doc), Accepts(doc), ~Gap(doc)
    PROVE  Sound(doc)
  <1> DEFINE D == 1 .. Len(doc)
  <1>0. DOMAIN doc = D /\ Len(doc) \in Nat /\ 1 \in D
        /\ \A n \in 2 .. Len(doc) : n \in D /\ doc[n].up \in D
    BY TreeFacts
  <1>1. \A n \in D : /\ KindOf(doc, n) # "unknown" /\ ~BadInitial(doc, n)
                     /\ ~BadHistory(doc, n) /\ ~BadTarget(doc, n)
    BY <1>0, Zenon DEF Accepts
  <1>2. \A n \in D : ~ (doc[n].type \in {"final", "history"} /\ Children(doc, n) # <<>>)
    BY <1>0, Zenon DEF Gap
  <1>3. \A n \in D : ~ (IsHistory(doc, n) /\ NodeEdges(doc, n) # <<>>)
    BY <1>0, Zenon DEF Gap
  <1>4. ASSUME NEW n \in D PROVE KindOf(doc, n) \in Diagram!Kinds
    <2>1. CASE IsHistory(doc, n)
      <3>1. KindOf(doc, n) \in {"shallow", "deep"}
        BY <1>1, <2>1, Zenon DEF BadHistory
      <3> QED  BY <3>1 DEF Diagram!Kinds
    <2>2. CASE ~IsHistory(doc, n)
      <3>1. KindOf(doc, n) \in {"parallel", "final", "atomic", "compound", "unknown"}
        BY <2>2 DEF IsHistory, KindOf
      <3> QED  BY <3>1, <1>1 DEF Diagram!Kinds
    <2> QED  BY <2>1, <2>2
  <1>5. ASSUME NEW n \in D, KindOf(doc, n) \in {"shallow", "deep"}
        PROVE  IsHistory(doc, n) /\ n # 1
    <2>1. IsHistory(doc, n)
      BY <1>5 DEF IsHistory, KindOf
    <2>2. n # 1
      BY <1>1, <2>1, Zenon DEF BadHistory
    <2> QED  BY <2>1, <2>2
  <1>6. ASSUME NEW n \in 2 .. Len(doc)
        PROVE  KindOf(doc, doc[n].up) \in {"compound", "parallel"}
    <2> DEFINE m == doc[n].up
    <2>1. n \in D /\ m \in D
      BY <1>0
    <2>2. Children(doc, m) # <<>>
      <3>1. \E i \in 1 .. Len(Children(doc, m)) : Children(doc, m)[i] = n
        BY <2>1, ChildrenFacts
      <3>2. Len(<<>>) = 0
        OBVIOUS
      <3> HIDE DEF m
      <3>3. Children(doc, m) = <<>> => Len(Children(doc, m)) = 0
        BY <3>2, Zenon
      <3> QED  BY <3>1, <3>3
    <2>3. doc[m].type \notin {"final", "history"} /\ KindOf(doc, m) # "unknown"
      BY <1>1, <1>2, <2>1, <2>2
    <2> HIDE DEF m
    <2>4. KindOf(doc, m) \in {"compound", "parallel"}
      BY <2>2, <2>3 DEF KindOf
    <2> QED  BY <2>4 DEF m
  <1>7. ASSUME NEW n \in D, KindOf(doc, n) = "compound"
        PROVE  Goal(doc, n) \in D /\ doc[Goal(doc, n)].up = n
    <2>1. Goal(doc, n) = FindChild(doc, n, doc[n].initial)
      BY <1>7 DEF Goal
    <2>2. FindChild(doc, n, doc[n].initial) # 0
      BY <1>1, <1>7, Zenon DEF BadInitial
    <2> QED  BY <2>1, <2>2, FoundChild
  <1>8. ASSUME NEW n \in HasGoal(doc) PROVE Goal(doc, n) \in D
    <2>1. n \in D
      BY DEF HasGoal
    <2>2. CASE KindOf(doc, n) = "compound"
      BY <1>7, <2>1, <2>2
    <2>3. CASE KindOf(doc, n) # "compound"
      <3>1. IsHistory(doc, n) /\ doc[n].target # NoTarget
        BY <2>3 DEF HasGoal
      <3>2. Goal(doc, n) = ResolveTarget(doc, n, doc[n].target)
        BY <2>3 DEF Goal
      <3>3. ResolveTarget(doc, n, doc[n].target) # 0
        BY <1>1, <2>1, <3>1, Zenon DEF BadTarget, Resolves
      <3>4. doc[n].target \in Targets
        BY <2>1, ObjectFacts
      <3> QED  BY <2>1, <3>1, <3>2, <3>3, <3>4, FoundTarget
    <2> QED  BY <2>2, <2>3
  <1>9. ASSUME NEW n \in D, NEW e \in Range(NodeEdges(doc, n))
        PROVE  /\ ~IsHistory(doc, n)
               /\ e.target # NoTarget => ResolveTarget(doc, n, e.target) \in D
    <2> DEFINE s == NodeEdges(doc, n)
    <2>0. s \in Seq(EdgesFrom(n))
      BY NodeEdgesOf
    <2>1. s # <<>> /\ e \in EdgesFrom(n)
      <3>1. PICK k \in DOMAIN s : s[k] = e
        BY DEF Range
      <3> HIDE DEF s
      <3>2. k \in 1 .. Len(s) /\ DOMAIN s = 1 .. Len(s)
        BY <2>0, <3>1
      <3>3. e \in EdgesFrom(n)
        <4> DEFINE F == EdgesFrom(n)
        <4> HIDE DEF F
        <4>1. s \in Seq(F)
          BY <2>0 DEF F
        <4>2. e \in F
          BY <4>1, <3>1, <3>2, ElementOfSeq
        <4> QED  BY <4>2 DEF F
      <3> QED  BY <3>2, <3>3
    <2>2. e.target \in Targets
      <3> HIDE DEF s
      <3> QED  BY <2>1, Zenon DEF EdgesFrom
    <2>3. ~IsHistory(doc, n)
      BY <1>3, <2>1
    <2>4. e.target # NoTarget => ResolveTarget(doc, n, e.target) # 0
      BY <1>1, Zenon DEF BadTarget, Resolves
    <2> QED  BY <2>2, <2>3, <2>4, FoundTarget
  <1> HIDE DEF D
  <1>10. /\ \A n \in D : KindOf(doc, n) \in Diagram!Kinds
         /\ \A n \in D : KindOf(doc, n) \in {"shallow", "deep"} => IsHistory(doc, n) /\ n # 1
         /\ \A n \in 2 .. Len(doc) : KindOf(doc, doc[n].up) \in {"compound", "parallel"}
    BY <1>4, <1>5, <1>6, Zenon
  <1>11. /\ \A n \in D : KindOf(doc, n) = "compound" =>
               Goal(doc, n) \in D /\ doc[Goal(doc, n)].up = n
         /\ \A n \in HasGoal(doc) : Goal(doc, n) \in D
    BY <1>7, <1>8, Zenon
  <1>12. \A n \in D : \A e \in Range(NodeEdges(doc, n)) :
               /\ ~IsHistory(doc, n)
               /\ e.target # NoTarget => ResolveTarget(doc, n, e.target) \in D
    BY <1>9, Zenon
  <1> QED  BY <1>10, <1>11, <1>12, Zenon DEF Sound, D

\* The chart of the diagram, node by node.
LEMMA DiagramFacts ==
    ASSUME NEW doc, IsDocument(doc), Sound(doc), Drawn = Chart(doc)
    PROVE  LET D == 1 .. Len(doc)
           IN  /\ Diagram!Node = Named(doc, D)
               /\ \A n \in D : Diagram!DocOrder[Pointer[n]] = Place(doc)[n]
               /\ \A n \in D : Drawn.kind[Pointer[n]] = KindOf(doc, n)
               /\ \A n \in D : Drawn.parent[Pointer[n]] = PointerTo(doc[n].up)
               /\ \A n \in D : Pointer[n] \in Diagram!History => IsHistory(doc, n) /\ n # 1
               /\ Diagram!Root = Pointer[1]
               /\ Drawn.nodes \in Seq(Diagram!Node) /\ Drawn.nodes # <<>>
               /\ IsInjective(Drawn.nodes)
  <1> DEFINE D == 1 .. Len(doc)
             w == DocumentOrder(doc)
             at == Place(doc)
             C == Drawn
             named == Drawn.nodes
  <1>1. /\ Len(w) \in Nat /\ Len(w) >= 1 /\ w[1] = 1
        /\ \A p \in 1 .. Len(w) : w[p] \in D /\ at[w[p]] = p
        /\ \A n \in D : at[n] \in 1 .. Len(w) /\ w[at[n]] = n
    <2>1. Len(w) \in Nat /\ Len(w) >= 1 /\ w[1] = 1
      BY DocumentOrderFacts
    <2>2. \A p \in 1 .. Len(w) : w[p] \in D /\ at[w[p]] = p
      BY PlaceFacts
    <2>3. at \in [D -> 1 .. Len(w)] /\ \A n \in D : w[at[n]] = n
      BY PlaceFacts
    <2> QED  BY <2>1, <2>2, <2>3
  <1>2. /\ named = [i \in 1 .. Len(w) |-> Pointer[w[i]]]
        /\ \A n \in D : /\ C.kind[Pointer[n]] = KindOf(doc, n)
                        /\ C.parent[Pointer[n]] = PointerTo(doc[n].up)
    BY ChartFacts
  <1>3. \A n, m \in D : Pointer[n] = Pointer[m] => n = m
    BY NameFacts
  <1>s. \A n \in D : KindOf(doc, n) \in {"shallow", "deep"} => IsHistory(doc, n) /\ n # 1
    BY Zenon DEF Sound
  <1> HIDE DEF named, w, at, C, D
  <1>4. DOMAIN named = 1 .. Len(w)
    BY <1>2
  <1>5. Range(named) = Named(doc, D)
    <2>1. ASSUME NEW p \in Range(named) PROVE p \in Named(doc, D)
      <3>1. PICK i \in 1 .. Len(w) : named[i] = p
        BY <1>4 DEF Range
      <3>2. p = Pointer[w[i]] /\ w[i] \in D
        BY <1>1, <1>2, <3>1
      <3> QED  BY <3>2 DEF Named
    <2>2. ASSUME NEW p \in Named(doc, D) PROVE p \in Range(named)
      <3>1. PICK n \in D : p = Pointer[n]
        BY DEF Named
      <3>2. named[at[n]] = p /\ at[n] \in DOMAIN named
        BY <1>1, <1>2, <1>4, <3>1
      <3> QED  BY <3>2 DEF Range
    <2> QED  BY <2>1, <2>2
  <1>6. Diagram!Node = Named(doc, D)
    BY <1>5, Zenon DEF Diagram!Node, Diagram!Range, Range, named
  <1>7. ASSUME NEW n \in D PROVE Diagram!DocOrder[Pointer[n]] = at[n]
    <2>1. Pointer[n] \in Diagram!Node
      BY <1>6 DEF Named
    <2>2. Diagram!DocOrder = [p \in Diagram!Node |-> CHOOSE i \in DOMAIN named : named[i] = p]
      BY Zenon DEF Diagram!DocOrder, named
    <2>3. Diagram!DocOrder[Pointer[n]] = CHOOSE i \in DOMAIN named : named[i] = Pointer[n]
      BY <2>1, <2>2
    <2>4. at[n] \in DOMAIN named /\ named[at[n]] = Pointer[n]
      BY <1>1, <1>2, <1>4
    <2>5. ASSUME NEW i \in DOMAIN named, named[i] = Pointer[n] PROVE i = at[n]
      <3>1. i \in 1 .. Len(w) /\ w[i] \in D /\ Pointer[w[i]] = Pointer[n]
        BY <1>1, <1>2, <1>4, <2>5
      <3>2. w[i] = n
        BY <1>3, <3>1
      <3> QED  BY <1>1, <3>1, <3>2
    <2> DEFINE c == CHOOSE i \in DOMAIN named : named[i] = Pointer[n]
    <2>6. c \in DOMAIN named /\ named[c] = Pointer[n]
      BY <2>4, Zenon
    <2> HIDE DEF c
    <2>7. c = at[n]
      BY <2>5, <2>6
    <2> QED  BY <2>3, <2>7 DEF c
  <1>8. ASSUME NEW n \in D, Pointer[n] \in Diagram!History PROVE IsHistory(doc, n) /\ n # 1
    <2>1. C.kind[Pointer[n]] \in {"shallow", "deep"}
      BY <1>8, Zenon DEF Diagram!History, C
    <2> QED  BY <2>1, <1>2, <1>s
  <1>9. Diagram!Root = Pointer[1]
    <2>1. Diagram!Root = named[1]
      BY Zenon DEF Diagram!Root, named
    <2> QED  BY <2>1, <1>1, <1>2
  <1>10. named \in Seq(Diagram!Node) /\ named # <<>> /\ IsInjective(named)
    <2>1. \A i \in 1 .. Len(w) : named[i] \in Diagram!Node
      BY <1>4, <1>5, <1>6 DEF Range
    <2>2. named = [i \in 1 .. Len(w) |-> named[i]]
      BY <1>2
    <2>3. named \in Seq(Diagram!Node)
      BY <1>1, <2>1, <2>2, IsASeq
    <2>4. named # <<>>
      <3>1. 1 \in DOMAIN named
        BY <1>1, <1>4
      <3> QED  BY <3>1
    <2>5. IsInjective(named)
      <3>1. ASSUME NEW i \in DOMAIN named, NEW j \in DOMAIN named, named[i] = named[j]
            PROVE  i = j
        <4>1. /\ i \in 1 .. Len(w) /\ j \in 1 .. Len(w) /\ w[i] \in D /\ w[j] \in D
              /\ Pointer[w[i]] = Pointer[w[j]]
          BY <1>1, <1>2, <1>4, <3>1
        <4>2. w[i] = w[j]
          BY <1>3, <4>1
        <4> QED  BY <1>1, <4>1, <4>2
      <3> QED  BY <3>1 DEF IsInjective
    <2> QED  BY <2>3, <2>4, <2>5
  <1> QED  BY <1>2, <1>6, <1>7, <1>8, <1>9, <1>10 DEF named, at, C, D

\* The tree of a sound document.
LEMMA DrawnTree ==
    ASSUME NEW doc, IsDocument(doc), Sound(doc), Drawn = Chart(doc)
    PROVE  Diagram!WellFormedTree
  <1> DEFINE D == 1 .. Len(doc)
             N == Diagram!Node
             place == Diagram!DocOrder
             kind == Drawn.kind
             parent == Drawn.parent
             initial == Drawn.initial
             at == Place(doc)
  <1>0. /\ Len(doc) \in Nat /\ 1 \in D /\ doc[1].up = 0
        /\ \A n \in D : n # 1 => n \in 2 .. Len(doc)
        /\ \A n \in 2 .. Len(doc) : n \in D /\ doc[n].up \in 1 .. n - 1 /\ doc[n].up \in D
    BY TreeFacts
  <1>1. N = Named(doc, D)
    BY DiagramFacts
  <1>2. /\ \A n \in D : place[Pointer[n]] = at[n]
        /\ \A n \in D : kind[Pointer[n]] = KindOf(doc, n)
        /\ \A n \in D : parent[Pointer[n]] = PointerTo(doc[n].up)
    BY DiagramFacts, Zenon
  <1>3. Diagram!Root = Pointer[1]
        /\ \A n \in D : Pointer[n] \in Diagram!History => n # 1
    BY DiagramFacts, Zenon
  <1>4. Drawn.nodes \in Seq(N) /\ Drawn.nodes # <<>> /\ IsInjective(Drawn.nodes)
    BY DiagramFacts, Zenon
  <1>5. /\ \A n \in D : Pointer[n] # "none"
        /\ \A n, m \in D : Pointer[n] = Pointer[m] => n = m
    BY NameFacts
  <1>6. /\ kind = [p \in N |-> kind[p]] /\ parent = [p \in N |-> parent[p]]
        /\ DOMAIN initial = Named(doc, HasGoal(doc))
        /\ \A n \in HasGoal(doc) : initial[Pointer[n]] = Pointer[Goal(doc, n)]
    BY <1>1, ChartFacts
  <1>7. /\ \A n \in D : KindOf(doc, n) \in Diagram!Kinds
        /\ \A n \in 2 .. Len(doc) : KindOf(doc, doc[n].up) \in {"compound", "parallel"}
        /\ \A n \in D : KindOf(doc, n) = "compound" =>
               Goal(doc, n) \in D /\ doc[Goal(doc, n)].up = n
        /\ \A n \in HasGoal(doc) : Goal(doc, n) \in D
    BY Zenon DEF Sound
  <1>8. /\ \A n \in 2 .. Len(doc) : at[doc[n].up] < at[n]
        /\ \A n, m \in 2 .. Len(doc) : at[doc[n].up] < at[m] /\ at[m] < at[n]
                                       => at[doc[n].up] <= at[doc[m].up]
    BY PlaceFacts
  <1>9. /\ \A n \in D : Pointer[n] \in N
        /\ \A p \in N : \E n \in D : p = Pointer[n]
    BY <1>1 DEF Named
  <1>10. \A n \in 2 .. Len(doc) : parent[Pointer[n]] = Pointer[doc[n].up]
    BY <1>0, <1>2 DEF PointerTo
  <1>11. \A p \in N \ {Diagram!Root} : \E n \in 2 .. Len(doc) : p = Pointer[n]
    BY <1>0, <1>3, <1>9
  <1>12. HasGoal(doc) \subseteq D /\ \A n \in D : KindOf(doc, n) = "compound" => n \in HasGoal(doc)
    BY DEF HasGoal
  <1> HIDE DEF D, N, place, kind, parent, initial, at
  <1>13. "none" \notin N
    BY <1>5, <1>9
  <1>14. kind \in [N -> Diagram!Kinds]
    <2>1. ASSUME NEW p \in N
          PROVE  kind[p] \in Diagram!Kinds
      <3>1. PICK n \in D : p = Pointer[n]
        BY <1>9, Zenon
      <3>2. kind[p] = KindOf(doc, n)
        BY <1>2, <3>1, Zenon
      <3> QED  BY <1>7, <3>2, Zenon
    <2> QED  BY <1>6, <2>1, Zenon
  <1>15. parent[Diagram!Root] = "none" /\ parent \in [N -> N \cup {"none"}]
    <2>1. parent[Pointer[1]] = "none"
      BY <1>0, <1>2 DEF PointerTo
    <2>2. \A n \in 2 .. Len(doc) : parent[Pointer[n]] \in N
      BY <1>0, <1>9, <1>10
    <2>3. \A n \in D : parent[Pointer[n]] \in N \cup {"none"}
      BY <1>0, <2>1, <2>2
    <2> QED  BY <1>3, <1>6, <1>9, <2>1, <2>3
  <1>16. Diagram!Root \notin Diagram!History
    BY <1>0, <1>3
  <1>17. ASSUME NEW p \in N \ {Diagram!Root}
         PROVE  /\ parent[p] \in N /\ place[parent[p]] < place[p]
                /\ kind[parent[p]] \in {"compound", "parallel"}
    <2>1. PICK n \in 2 .. Len(doc) : p = Pointer[n]
      BY <1>11
    <2>2. parent[p] = Pointer[doc[n].up] /\ doc[n].up \in D /\ n \in D
      BY <1>0, <1>10, <2>1
    <2>3. parent[p] \in N
      BY <1>9, <2>2
    <2>4. place[parent[p]] = at[doc[n].up] /\ place[p] = at[n]
      BY <1>2, <2>1, <2>2
    <2>5. kind[parent[p]] = KindOf(doc, doc[n].up)
      BY <1>2, <2>2
    <2>6. kind[parent[p]] \in {"compound", "parallel"}
      BY <1>7, <2>5, Zenon
    <2>7. at[doc[n].up] < at[n]
      BY <1>8
    <2> QED  BY <2>3, <2>4, <2>6, <2>7
  <1>18. ASSUME NEW p \in N, kind[p] = "compound"
         PROVE  p \in DOMAIN initial /\ parent[initial[p]] = p
    <2>1. PICK n \in D : p = Pointer[n]
      BY <1>9
    <2>2. KindOf(doc, n) = "compound"
      BY <1>2, <1>18, <2>1
    <2>3. n \in HasGoal(doc) /\ Goal(doc, n) \in D /\ doc[Goal(doc, n)].up = n
      BY <1>7, <1>12, <2>2
    <2>4. p \in DOMAIN initial
      BY <1>6, <2>1, <2>3 DEF Named
    <2>5. initial[p] = Pointer[Goal(doc, n)]
      BY <1>6, <2>1, <2>3
    <2>6. n # 0
      BY <1>0 DEF D
    <2>7. parent[Pointer[Goal(doc, n)]] = Pointer[n]
      BY <1>2, <2>3, <2>6 DEF PointerTo
    <2> QED  BY <2>1, <2>4, <2>5, <2>7
  <1>19. ASSUME NEW p \in DOMAIN initial PROVE p \in N /\ initial[p] \in N
    <2>1. PICK n \in HasGoal(doc) : p = Pointer[n]
      BY <1>6 DEF Named
    <2> QED  BY <1>6, <1>7, <1>9, <1>12, <2>1
  <1>20. ASSUME NEW p \in N \ {Diagram!Root}, NEW q \in N \ {Diagram!Root},
                place[parent[p]] < place[q], place[q] < place[p]
         PROVE  place[parent[p]] <= place[parent[q]]
    <2>1. PICK n \in 2 .. Len(doc) : p = Pointer[n]
      BY <1>11
    <2>2. PICK m \in 2 .. Len(doc) : q = Pointer[m]
      BY <1>11
    <2>3. /\ place[parent[p]] = at[doc[n].up] /\ place[p] = at[n]
          /\ place[parent[q]] = at[doc[m].up] /\ place[q] = at[m]
      BY <1>0, <1>2, <1>10, <2>1, <2>2
    <2> QED  BY <1>8, <1>20, <2>3
  <1>21. /\ Drawn.nodes \in Seq(Diagram!Node) /\ Drawn.nodes # <<>>
         /\ Diagram!IsInjective(Drawn.nodes)
    BY <1>4 DEF N, IsInjective, Diagram!IsInjective
  <1> QED
    BY <1>13, <1>14, <1>15, <1>16, <1>17, <1>18, <1>19, <1>20, <1>21, Zenon
    DEF Diagram!WellFormedTree, Diagram!NoNode, N, place, kind, parent, initial

\* Its edges.
LEMMA DrawnEdges ==
    ASSUME NEW doc, IsDocument(doc), Sound(doc), Drawn = Chart(doc)
    PROVE  Diagram!WellFormedEdges
  <1> DEFINE D == 1 .. Len(doc)
             N == Diagram!Node
             place == Diagram!DocOrder
             edges == Drawn.edges
  <1>1. /\ N = Named(doc, D)
        /\ \A n \in D : place[Pointer[n]] = Place(doc)[n]
        /\ \A n \in D : Pointer[n] \in Diagram!History => IsHistory(doc, n)
    BY DiagramFacts
  <1>2. \A n \in D : Pointer[n] \in N
    BY <1>1 DEF Named
  <1>3. \A n \in D : \A e \in Range(NodeEdges(doc, n)) :
               /\ ~IsHistory(doc, n)
               /\ e.target # NoTarget => ResolveTarget(doc, n, e.target) \in D
    BY Zenon DEF Sound
  <1>4. /\ edges \in Seq(Range(edges))
        /\ \A t \in DOMAIN edges : \E n \in D : \E e \in Range(NodeEdges(doc, n)) :
               /\ edges[t].source = Pointer[n]
               /\ edges[t].target = IF e.target = NoTarget THEN "none"
                                    ELSE Pointer[ResolveTarget(doc, n, e.target)]
    BY ChartEdges
  <1>5. \A t, u \in DOMAIN edges : t < u =>
               \E n, m \in D : /\ edges[t].source = Pointer[n]
                               /\ edges[u].source = Pointer[m]
                               /\ Place(doc)[n] <= Place(doc)[m]
    <2> DEFINE C == Chart(doc)
    <2>1. \A t, u \in DOMAIN C.edges : t < u =>
               \E n, m \in D : /\ C.edges[t].source = Pointer[n]
                               /\ C.edges[u].source = Pointer[m]
                               /\ Place(doc)[n] <= Place(doc)[m]
      BY ChartEdges
    <2> HIDE DEF C
    <2>2. Drawn = C
      BY DEF C
    <2> QED  BY <2>1, <2>2
  <1> HIDE DEF D, N, place, edges
  <1>6. ASSUME NEW t \in DOMAIN edges
        PROVE  /\ edges[t].source \in N \ Diagram!History
               /\ edges[t].target \in N \cup {"none"}
    <2>1. PICK n \in D : \E e \in Range(NodeEdges(doc, n)) :
               /\ edges[t].source = Pointer[n]
               /\ edges[t].target = IF e.target = NoTarget THEN "none"
                                    ELSE Pointer[ResolveTarget(doc, n, e.target)]
      BY <1>4
    <2>2. PICK e \in Range(NodeEdges(doc, n)) :
               /\ edges[t].source = Pointer[n]
               /\ edges[t].target = IF e.target = NoTarget THEN "none"
                                    ELSE Pointer[ResolveTarget(doc, n, e.target)]
      BY <2>1
    <2> QED  BY <1>1, <1>2, <1>3, <2>2
  <1>7. ASSUME NEW t \in DOMAIN edges, NEW u \in DOMAIN edges, t < u
        PROVE  place[edges[t].source] <= place[edges[u].source]
    BY <1>1, <1>5, <1>7
  <1>8. edges \in Seq(Diagram!Range(edges))
    BY <1>4, Zenon DEF Range, Diagram!Range
  <1> QED
    BY <1>6, <1>7, <1>8, Zenon
    DEF Diagram!WellFormedEdges, Diagram!Edge, Diagram!NoNode, N, place, edges

-----------------------------------------------------------------------------
(***************************************************************************)
(* The diagram.                                                            *)
(***************************************************************************)
ShownInv == shown.good # 0 => shown.good \in Good

\* Every chart that is drawn is one the engine is built for, whatever documents
\* are saved and wherever a reader finds them cut off: the gates of the loader
\* leave, but for the gaps, nothing that Statechart does not expect.
THEOREM DrawnIsWellFormed == WatchSpec => []LoadsChart
  <1>1. FileInit /\ WatchInit => ShownInv
    BY DEF WatchInit, Frame, ShownInv
  <1>2. ASSUME ShownInv, [WatchNext]_<<fileVars, watchVars>> PROVE ShownInv'
    <2>1. CASE Reload
      <3>1. CASE Loaded(file) # 0
        <4>1. shown'.good = Loaded(file) /\ Loaded(file) \in Good
          BY <2>1, <3>1 DEF Reload, WatchFrame, Frame, Loaded
        <4>2. QED
          BY <4>1 DEF ShownInv
      <3>2. CASE Loaded(file) = 0
        <4>1. shown'.good = shown.good
          BY <2>1, <3>2 DEF Reload, WatchFrame, Frame
        <4>2. QED
          BY <1>2, <4>1 DEF ShownInv
      <3>3. QED
        BY <3>1, <3>2
    <2>2. CASE ~Reload
      <3>1. shown' = shown
        BY <1>2, <2>2 DEF WatchNext, PollLoop, Resolve, Poll, Interrupt, Edit, EditRest, watchVars
      <3>2. QED
        BY <1>2, <3>1 DEF ShownInv
    <2>3. QED
      BY <2>1, <2>2
  <1>3. ASSUME ShownInv PROVE LoadsChart
    <2> SUFFICES ASSUME shown.good # 0, ~Gap(Docs[shown.good])
                 PROVE  Diagram!WellFormedTree /\ Diagram!WellFormedEdges
      BY DEF LoadsChart
    <2> DEFINE doc == Docs[shown.good]
    <2>1. shown.good \in DOMAIN Docs /\ Accepts(doc)
      BY <1>3 DEF ShownInv, Good
    <2>2. IsDocument(doc) /\ ~Gap(doc)
      BY <2>1, FileAssumption
    <2>3. Drawn = Chart(doc)
      BY DEF Drawn
    <2> HIDE DEF doc
    <2>4. Sound(doc)
      BY <2>1, <2>2, AcceptedIsSound
    <2>5. QED
      BY <2>2, <2>3, <2>4, DrawnTree, DrawnEdges
  <1>4. QED
    BY <1>1, <1>2, <1>3, PTL DEF WatchSpec

-----------------------------------------------------------------------------
(***************************************************************************)
(* The dispatch.                                                           *)
(***************************************************************************)
\* What may stand at a callsite of a document: the edge it belongs to is one of
\* the document's.
AllEdges(doc) == UNION {Range(NodeEdges(doc, n)) : n \in 1 .. Len(doc)}
Sites(doc) == {At(n, type) : n \in 1 .. Len(doc), type \in STRING}
              \cup {AtEdge(e, type) : e \in AllEdges(doc), type \in STRING}

\* A node's edges are edges of the document, whose actions and guards have names.
LEMMA EdgesHere ==
    ASSUME NEW doc, IsDocument(doc), NEW n \in 1 .. Len(doc)
    PROVE  /\ Transitions(doc, n) \in Seq(AllEdges(doc))
           /\ InvokeEdges(doc, n) \in Seq(AllEdges(doc))
           /\ NodeEdges(doc, n) \in Seq(AllEdges(doc))
           /\ \A e \in AllEdges(doc) : e.acts \in Seq(STRING) /\ e.guard \in STRING
  <1> DEFINE s == Transitions(doc, n)
             t == InvokeEdges(doc, n)
             u == NodeEdges(doc, n)
             E == AllEdges(doc)
             F == EdgesFrom(n)
  <1>1. s \in Seq(F) /\ t \in Seq(F) /\ u = s \o t
    BY TransitionsOf, InvokeEdgesOf, Zenon DEF NodeEdges
  <1>2. Range(u) \subseteq E
    BY DEF AllEdges
  <1>3. ASSUME NEW e \in E PROVE e.acts \in Seq(STRING) /\ e.guard \in STRING
    <2>1. PICK m \in 1 .. Len(doc) : e \in Range(NodeEdges(doc, m))
      BY DEF AllEdges
    <2> DEFINE v == NodeEdges(doc, m)
               G == EdgesFrom(m)
    <2>2. v \in Seq(G)
      BY NodeEdgesOf
    <2>3. e \in Range(v)
      BY <2>1
    <2> HIDE DEF v, G
    <2>4. e \in G
      <3>1. PICK k \in DOMAIN v : v[k] = e
        BY <2>3 DEF Range
      <3>2. k \in 1 .. Len(v)
        BY <2>2, <3>1
      <3> QED  BY <2>2, <3>1, <3>2, ElementOfSeq
    <2> QED  BY <2>4, Zenon DEF G, EdgesFrom
  <1> HIDE DEF s, t, u, E, F
  <1>4. /\ Len(s) \in Nat /\ Len(t) \in Nat /\ Len(u) = Len(s) + Len(t)
        /\ DOMAIN u = 1 .. Len(u)
        /\ \A k \in 1 .. Len(s) : u[k] = s[k]
        /\ \A k \in 1 .. Len(t) : u[Len(s) + k] = t[k]
    <2>1. s \o t \in Seq(F)
      BY <1>1, ConcatLays
    <2> QED  BY <1>1, <2>1, ConcatLays
  <1>5. \A k \in 1 .. Len(u) : u[k] \in E
    BY <1>2, <1>4 DEF Range
  <1>6. \A k \in 1 .. Len(s) : s[k] \in E
    <2> SUFFICES ASSUME NEW k \in 1 .. Len(s) PROVE s[k] \in E  OBVIOUS
    <2>1. k \in 1 .. Len(u) /\ u[k] = s[k]
      BY <1>4
    <2> QED  BY <2>1, <1>5
  <1>7. \A k \in 1 .. Len(t) : t[k] \in E
    <2> SUFFICES ASSUME NEW k \in 1 .. Len(t) PROVE t[k] \in E  OBVIOUS
    <2>1. Len(s) + k \in 1 .. Len(u) /\ u[Len(s) + k] = t[k]
      BY <1>4
    <2> QED  BY <2>1, <1>5
  <1>8. /\ s = [k \in 1 .. Len(s) |-> s[k]] /\ t = [k \in 1 .. Len(t) |-> t[k]]
        /\ u \in Seq(F) /\ u = [k \in 1 .. Len(u) |-> u[k]] /\ Len(u) \in Nat
    <2>1. u \in Seq(F)
      BY <1>1, ConcatLays
    <2>2. \A q \in Seq(F) : q = [k \in 1 .. Len(q) |-> q[k]] /\ Len(q) \in Nat
      OBVIOUS
    <2> QED  BY <1>1, <2>1, <2>2, Zenon
  <1>9. s \in Seq(E) /\ t \in Seq(E) /\ u \in Seq(E)
    <2>1. s \in Seq(E)
      BY <1>4, <1>6, <1>8, IsASeq
    <2>2. t \in Seq(E)
      BY <1>4, <1>7, <1>8, IsASeq
    <2>3. u \in Seq(E)
      BY <1>5, <1>8, IsASeq
    <2> QED  BY <2>1, <2>2, <2>3
  <1> QED  BY <1>3, <1>9 DEF s, t, u, E

\* Their actions and guards.
LEMMA ActsHere ==
    ASSUME NEW doc, IsDocument(doc), NEW edges \in Seq(AllEdges(doc))
    PROVE  Acts(edges) \in Seq(Sites(doc))
  <1> DEFINE S == Sites(doc)
             E == AllEdges(doc)
             Q == Seq(S)
             of(e) == [k \in DOMAIN e.acts |-> AtEdge(e, e.acts[k])]
             parts == [i \in DOMAIN edges |-> of(edges[i])]
  <1>0. 1 \in 1 .. Len(doc)
    BY TreeFacts
  <1>1. \A e \in E : e.acts \in Seq(STRING)
    BY <1>0, EdgesHere
  <1>2. ASSUME NEW e \in E PROVE of(e) \in Q
    <2> DEFINE a == e.acts
    <2>1. a \in Seq(STRING)
      BY <1>1
    <2>2. ASSUME NEW type \in STRING PROVE AtEdge(e, type) \in S
      BY DEF Sites, AllEdges
    <2> HIDE DEF a, S
    <2>3. DOMAIN a = 1 .. Len(a) /\ Len(a) \in Nat /\ \A k \in 1 .. Len(a) : a[k] \in STRING
      BY <2>1
    <2> DEFINE f == [k \in 1 .. Len(a) |-> AtEdge(e, a[k])]
    <2>4. \A k \in 1 .. Len(a) : f[k] \in S /\ f = [i \in 1 .. Len(a) |-> f[i]]
      BY <2>2, <2>3
    <2>5. f \in Seq(S)
      <3>1. f = [i \in 1 .. Len(a) |-> f[i]]
        OBVIOUS
      <3> HIDE DEF f
      <3> QED  BY <2>3, <2>4, <3>1, IsASeq
    <2>6. of(e) = f
      BY <2>3 DEF a
    <2> QED  BY <2>5, <2>6
  <1> HIDE DEF of, Q, S, E
  <1>3. Len(edges) \in Nat /\ DOMAIN edges = 1 .. Len(edges)
        /\ \A i \in 1 .. Len(edges) : edges[i] \in E
    <2>1. edges \in Seq(E)
      BY DEF E
    <2> QED  BY <2>1
  <1>4. parts = [i \in 1 .. Len(edges) |-> parts[i]] /\ \A i \in 1 .. Len(edges) : parts[i] \in Q
    BY <1>2, <1>3
  <1> HIDE DEF parts
  <1>5. parts \in Seq(Q)
    BY <1>3, <1>4, IsASeq
  <1>6. FlattenSeq(parts) \in Seq(S)
    BY <1>5, FlattenLays DEF Q
  <1>7. Acts(edges) = FlattenSeq(parts)
    BY Zenon DEF Acts, parts, of
  <1> QED  BY <1>6, <1>7 DEF S

\* The entry and exit actions of a node stand at its callsites.
LEMMA SitesAt ==
    ASSUME NEW doc, NEW n \in 1 .. Len(doc), NEW list \in Seq(STRING)
    PROVE  [i \in DOMAIN list |-> At(n, list[i])] \in Seq(Sites(doc))
  <1> DEFINE S == Sites(doc)
             f == [i \in 1 .. Len(list) |-> At(n, list[i])]
  <1>1. DOMAIN list = 1 .. Len(list) /\ Len(list) \in Nat /\ \A i \in 1 .. Len(list) : list[i] \in STRING
    OBVIOUS
  <1>2. ASSUME NEW type \in STRING PROVE At(n, type) \in S
    BY DEF Sites
  <1> HIDE DEF S
  <1>3. \A i \in 1 .. Len(list) : f[i] \in S
    BY <1>1, <1>2
  <1>4. f = [i \in 1 .. Len(list) |-> f[i]]
    OBVIOUS
  <1>5. f = [i \in DOMAIN list |-> At(n, list[i])]
    BY <1>1, Zenon
  <1> HIDE DEF f
  <1>6. f \in Seq(S)
    BY <1>1, <1>3, <1>4, IsASeq
  <1> QED  BY <1>5, <1>6 DEF S

\* The callsites of a document.
LEMMA Callsites ==
    ASSUME NEW doc, IsDocument(doc)
    PROVE  ActionCallsites(doc) \in Seq(Sites(doc)) /\ GuardCallsites(doc) \in Seq(Sites(doc))
  <1> DEFINE D == 1 .. Len(doc)
             S == Sites(doc)
             Q == Seq(S)
             w == DocumentOrder(doc)
             plain(n, list) == [i \in DOMAIN list |-> At(n, list[i])]
             guards(edges) == FlattenSeq([i \in DOMAIN edges |->
                                 IF edges[i].guard = Absent THEN <<>>
                                 ELSE <<AtEdge(edges[i], edges[i].guard)>>])
             here(n) == plain(n, doc[n].entry) \o Acts(Transitions(doc, n))
                        \o plain(n, doc[n].exit) \o Acts(InvokeEdges(doc, n))
             acting == [i \in DOMAIN w |-> here(w[i])]
             guarding == [i \in DOMAIN w |-> guards(NodeEdges(doc, w[i]))]
  <1>1. /\ Len(w) \in Nat /\ DOMAIN w = 1 .. Len(w)
        /\ \A i \in 1 .. Len(w) : w[i] \in D
    <2>1. w \in Seq(D)
      BY DocumentOrderFacts
    <2> HIDE DEF w, D
    <2> QED  BY <2>1
  <1>2. ASSUME NEW n \in D PROVE here(n) \in Q
    <2>1. plain(n, doc[n].entry) \in Q /\ plain(n, doc[n].exit) \in Q
      BY ObjectFacts, SitesAt
    <2>2. Acts(Transitions(doc, n)) \in Q /\ Acts(InvokeEdges(doc, n)) \in Q
      BY EdgesHere, ActsHere
    <2> HIDE DEF plain, S
    <2> QED  BY <2>1, <2>2, ConcatProperties
  <1>3. ASSUME NEW n \in D PROVE guards(NodeEdges(doc, n)) \in Q
    <2> DEFINE edges == NodeEdges(doc, n)
               E == AllEdges(doc)
               one(e) == IF e.guard = Absent THEN <<>> ELSE <<AtEdge(e, e.guard)>>
               parts == [i \in DOMAIN edges |-> one(edges[i])]
    <2>1. edges \in Seq(E) /\ \A e \in E : e.guard \in STRING
      BY EdgesHere
    <2>2. ASSUME NEW e \in E, NEW type \in STRING PROVE AtEdge(e, type) \in S
      BY DEF Sites, AllEdges
    <2> HIDE DEF edges, E, S
    <2>3. \A e \in E : one(e) \in Q
      <3> SUFFICES ASSUME NEW e \in E PROVE one(e) \in Q  OBVIOUS
      <3> DEFINE cs == AtEdge(e, e.guard)
      <3>1. cs \in S
        BY <2>1, <2>2
      <3> HIDE DEF cs
      <3>2. <<cs>> \in Seq(S) /\ <<>> \in Seq(S)
        BY <3>1, EmptySeq
      <3> QED  BY <3>2 DEF cs
    <2>4. Len(edges) \in Nat /\ DOMAIN edges = 1 .. Len(edges)
          /\ \A i \in 1 .. Len(edges) : edges[i] \in E
      BY <2>1
    <2> HIDE DEF one, Q
    <2>5. parts = [i \in 1 .. Len(edges) |-> parts[i]] /\ \A i \in 1 .. Len(edges) : parts[i] \in Q
      BY <2>3, <2>4
    <2> HIDE DEF parts
    <2>6. parts \in Seq(Q)
      BY <2>4, <2>5, IsASeq
    <2>7. FlattenSeq(parts) \in Seq(S)
      BY <2>6, FlattenLays DEF Q
    <2>8. guards(edges) = FlattenSeq(parts)
      BY Zenon DEF parts, one
    <2> QED  BY <2>7, <2>8 DEF edges, Q
  <1> HIDE DEF here, guards, Q, w, S, D
  <1>4. /\ acting = [i \in 1 .. Len(w) |-> acting[i]] /\ \A i \in 1 .. Len(w) : acting[i] \in Q
        /\ guarding = [i \in 1 .. Len(w) |-> guarding[i]]
        /\ \A i \in 1 .. Len(w) : guarding[i] \in Q
    BY <1>1, <1>2, <1>3
  <1> HIDE DEF acting, guarding
  <1>5. acting \in Seq(Q) /\ guarding \in Seq(Q)
    <2>1. acting \in Seq(Q)
      BY <1>1, <1>4, IsASeq
    <2>2. guarding \in Seq(Q)
      BY <1>1, <1>4, IsASeq
    <2> QED  BY <2>1, <2>2
  <1>6. FlattenSeq(acting) \in Seq(S) /\ FlattenSeq(guarding) \in Seq(S)
    BY <1>5, FlattenLays DEF Q
  <1>7. ActionCallsites(doc) = FlattenSeq(acting)
    BY Zenon DEF ActionCallsites, acting, here, w
  <1>8. GuardCallsites(doc) = FlattenSeq(guarding)
    BY Zenon DEF GuardCallsites, guarding, guards, w
  <1> QED  BY <1>6, <1>7, <1>8 DEF S

\* The elements of a finite set, listed.
LEMMA ListedSet ==
    ASSUME NEW S, IsFiniteSet(S)
    PROVE  SetToSeq(S) \in Seq(S)
  <1>1. Cardinality(S) \in Nat /\ ExistsBijection(1 .. Cardinality(S), S)
    BY FS_CardinalityType
  <1>2. \E f \in [1 .. Cardinality(S) -> S] : IsInjective(f)
    BY <1>1 DEF ExistsBijection, Bijection, Injection
  <1> DEFINE b == Cardinality(S)
             f == CHOOSE g \in [1 .. b -> S] : IsInjective(g)
  <1>3. f \in [1 .. b -> S]
    BY <1>2, Zenon
  <1>4. SetToSeq(S) = f
    BY Zenon DEF SetToSeq
  <1> HIDE DEF f, b
  <1>5. b \in Nat
    BY <1>1 DEF b
  <1> QED  BY <1>3, <1>4, <1>5

\* A document has finitely many inputs to adapt.
LEMMA InputsFinite ==
    ASSUME NEW d \in DOMAIN Docs
    PROVE  IsFiniteSet(Inputs(d))
  <1> DEFINE doc == Docs[d]
             all == [n \in 1 .. Len(doc) |-> doc[n].invoke]
             ivs == FlattenSeq(all)
             good(iv) == /\ Decl("func", NormalizeName(iv.src)) \in Declared
                         /\ Shape(NormalizeName(iv.src)) \in Mapped
             T == {k \in 1 .. Len(ivs) : good(ivs[k])}
             f == [k \in T |-> InputMethod(ivs[k])]
  <1>1. IsDocument(doc) /\ Len(doc) \in Nat /\ DOMAIN doc = 1 .. Len(doc)
    BY FileAssumption, TreeFacts
  <1>2. all \in Seq(Seq(InvokeObject)) /\ Len(all) = Len(doc)
        /\ \A n \in 1 .. Len(doc) : all[n] = doc[n].invoke
    <2> DEFINE Q == Seq(InvokeObject)
    <2>1. \A n \in 1 .. Len(doc) : doc[n].invoke \in Q
      BY <1>1, ObjectFacts
    <2>2. all = [n \in 1 .. Len(doc) |-> all[n]] /\ \A n \in 1 .. Len(doc) : all[n] = doc[n].invoke
      OBVIOUS
    <2> HIDE DEF Q, all, doc
    <2>3. all \in Seq(Q)
      BY <1>1, <2>1, <2>2, IsASeq
    <2> QED  BY <1>1, <2>2, <2>3 DEF Q
  <1> HIDE DEF all, good
  <1>3. ivs \in Seq(InvokeObject)
    BY <1>2, FlattenLays
  <1>4. \A iv : iv \in Range(ivs) <=> \E n \in 1 .. Len(all) : iv \in Range(all[n])
    BY <1>2, FlattenRange
  <1>5. Range(ivs) = Invokes(d)
    <2>1. \A iv : iv \in Invokes(d) <=> \E n \in 1 .. Len(doc) : iv \in Range(doc[n].invoke)
      BY <1>1 DEF Invokes, Nodes
    <2> HIDE DEF ivs, doc
    <2> QED  BY <1>2, <1>4, <2>1
  <1> HIDE DEF ivs, doc
  <1>6. Len(ivs) \in Nat /\ DOMAIN ivs = 1 .. Len(ivs)
    BY <1>3
  <1>7. IsFiniteSet(T)
    <2>1. IsFiniteSet(1 .. Len(ivs))
      BY <1>6, FS_Interval
    <2> QED  BY <2>1, FS_Subset
  <1>8. Inputs(d) = {InputMethod(iv) : iv \in {x \in Invokes(d) : good(x)}}
    BY Zenon DEF Inputs, good
  <1>9. f \in [T -> Inputs(d)] /\ \A m \in Inputs(d) : \E k \in T : f[k] = m
    <2>1. \A k \in T : f[k] \in Inputs(d)
      <3> SUFFICES ASSUME NEW k \in T PROVE InputMethod(ivs[k]) \in Inputs(d)  OBVIOUS
      <3>1. ivs[k] \in Invokes(d) /\ good(ivs[k])
        BY <1>5, <1>6 DEF Range
      <3> QED  BY <1>8, <3>1
    <2>2. ASSUME NEW m \in Inputs(d) PROVE \E k \in T : f[k] = m
      <3>1. PICK iv \in Invokes(d) : good(iv) /\ m = InputMethod(iv)
        BY <1>8
      <3>2. PICK k \in 1 .. Len(ivs) : ivs[k] = iv
        BY <1>5, <1>6 DEF Range
      <3>3. k \in T /\ f[k] = m
        BY <3>1, <3>2
      <3> QED  BY <3>3
    <2> QED  BY <2>1, <2>2
  <1> HIDE DEF T, f
  <1>10. f \in Surjection(T, Inputs(d))
    BY <1>9 DEF Surjection
  <1> QED  BY <1>7, <1>10, FS_Surjection

\* Of methods that agree where they have one name, none is left out.
LEMMA FirstNamedKeeps ==
    ASSUME NEW M, NEW ms \in Seq(M), NEW b \in Nat, b <= Len(ms),
           \A i, k \in 1 .. b : ms[i].name = ms[k].name => ms[i] = ms[k],
           NEW i \in 1 .. b
    PROVE  ms[i] \in FirstNamed(ms)
  <1> DEFINE S == {k \in 1 .. b : ms[k].name = ms[i].name}
  <1>1. S \in SUBSET Nat /\ S # {}
    OBVIOUS
  <1>2. PICK k \in S : \A j \in S : k <= j
    BY <1>1, Least, Zenon
  <1>3. k \in 1 .. b /\ ms[k] = ms[i] /\ k \in DOMAIN ms
    BY <1>2
  <1>4. \A j \in 1 .. (k - 1) : ms[j].name # ms[k].name
    BY <1>2, <1>3
  <1> QED  BY <1>3, <1>4 DEF FirstNamed

\* What it is to be a sequence over a set.
LEMMA Listing ==
    ASSUME NEW S, NEW s \in Seq(S)
    PROVE  DOMAIN s = 1 .. Len(s) /\ Len(s) \in Nat /\ \A i \in 1 .. Len(s) : s[i] \in S
  OBVIOUS

\* And the other way round.
LEMMA Listed ==
    ASSUME NEW S, NEW b \in Nat, NEW s, s = [i \in 1 .. b |-> s[i]],
           \A i \in 1 .. b : s[i] \in S
    PROVE  s \in Seq(S)
  OBVIOUS

\* A sequence that is joined to another is its beginning.
LEMMA ListsJoin ==
    ASSUME NEW S, NEW s, NEW t, s \in Seq(S), t \in Seq(S)
    PROVE  /\ s \o t \in Seq(S) /\ Len(s \o t) = Len(s) + Len(t)
           /\ \A k \in 1 .. Len(s) : (s \o t)[k] = s[k]
  OBVIOUS

\* The dispatch of a document calls methods of callsites.
LEMMA CallsOf ==
    ASSUME NEW d \in DOMAIN Docs
    PROVE  /\ Applier(d) \in Seq(Range(Applier(d)))
           /\ GuardEval(d) \in Seq(Range(GuardEval(d)))
           /\ \A m \in Range(Applier(d)) : \E cs \in Sites(Docs[d]) : m = ActionMethod(d, cs)
           /\ \A m \in Range(GuardEval(d)) : \E cs \in Sites(Docs[d]) : m = GuardMethod(d, cs)
  <1> DEFINE doc == Docs[d]
             S == Sites(doc)
             ns == ActionCallsites(doc)
             gs == GuardCallsites(doc)
             p == Applier(d)
             q == GuardEval(d)
  <1>1. ns \in Seq(S) /\ gs \in Seq(S)
    BY FileAssumption, Callsites
  <1>2. p = [i \in DOMAIN ns |-> ActionMethod(d, ns[i])]
    BY Zenon DEF Applier
  <1>3. q = [i \in DOMAIN gs |-> GuardMethod(d, gs[i])]
    BY Zenon DEF GuardEval
  <1> HIDE DEF ns, gs, S, p, q
  <1>4. /\ DOMAIN ns = 1 .. Len(ns) /\ Len(ns) \in Nat /\ \A i \in 1 .. Len(ns) : ns[i] \in S
        /\ DOMAIN gs = 1 .. Len(gs) /\ Len(gs) \in Nat /\ \A i \in 1 .. Len(gs) : gs[i] \in S
    BY <1>1, Listing, Zenon
  <1>5. /\ DOMAIN p = 1 .. Len(ns) /\ p = [i \in 1 .. Len(ns) |-> p[i]]
        /\ DOMAIN q = 1 .. Len(gs) /\ q = [i \in 1 .. Len(gs) |-> q[i]]
    BY <1>2, <1>3, <1>4
  <1>6. /\ \A i \in 1 .. Len(ns) : p[i] \in Range(p) /\ p[i] = ActionMethod(d, ns[i])
        /\ \A i \in 1 .. Len(gs) : q[i] \in Range(q) /\ q[i] = GuardMethod(d, gs[i])
    BY <1>2, <1>3, <1>4 DEF Range
  <1>7. p \in Seq(Range(p)) /\ q \in Seq(Range(q))
    <2>1. p \in Seq(Range(p))
      BY <1>4, <1>5, <1>6, Listed, Zenon
    <2>2. q \in Seq(Range(q))
      BY <1>4, <1>5, <1>6, Listed, Zenon
    <2> QED  BY <2>1, <2>2
  <1>8. \A m \in Range(p) : \E cs \in S : m = ActionMethod(d, cs)
    BY <1>4, <1>5, <1>6 DEF Range
  <1>9. \A m \in Range(q) : \E cs \in S : m = GuardMethod(d, cs)
    BY <1>4, <1>5, <1>6 DEF Range
  <1> QED  BY <1>7, <1>8, <1>9 DEF p, q, S

\* Where the methods agree, all that dispatch calls is kept.
LEMMA CallsKept ==
    ASSUME NEW d \in DOMAIN Docs, MethodsAgree(d)
    PROVE  Range(Applier(d)) \cup Range(GuardEval(d)) \subseteq ImplMethods(d)
  <1> DEFINE p == Applier(d)
             q == GuardEval(d)
             r == SetToSeq(Inputs(d))
             M == Range(p) \cup Range(q) \cup Inputs(d)
             pq == p \o q
             ms == pq \o r
             b == Len(p) + Len(q)
  <1>1. p \in Seq(Range(p)) /\ q \in Seq(Range(q)) /\ r \in Seq(Inputs(d))
    BY CallsOf, InputsFinite, ListedSet
  <1>a. \A m, k \in Range(p) \cup Range(q) : m.name = k.name => m = k
    BY DEF MethodsAgree
  <1>b. ImplMethods(d) = FirstNamed(ms)
    BY Zenon DEF ImplMethods
  <1> HIDE DEF p, q, r
  <1>2. p \in Seq(M) /\ q \in Seq(M) /\ r \in Seq(M)
    <2> DEFINE P == Range(p)
               Q == Range(q)
               R == Inputs(d)
    <2>1. p \in Seq(P) /\ q \in Seq(Q) /\ r \in Seq(R) /\ P \subseteq M /\ Q \subseteq M /\ R \subseteq M
      BY <1>1
    <2>2. ASSUME NEW A, NEW B, A \subseteq B, NEW s \in Seq(A) PROVE s \in Seq(B)
      <3>1. Len(s) \in Nat /\ s = [i \in 1 .. Len(s) |-> s[i]] /\ \A i \in 1 .. Len(s) : s[i] \in B
        BY <2>2
      <3> QED  BY <3>1, IsASeq
    <2> HIDE DEF P, Q, R, M
    <2> QED  BY <2>1, <2>2
  <1>c. /\ DOMAIN p = 1 .. Len(p) /\ DOMAIN q = 1 .. Len(q)
        /\ Len(p) \in Nat /\ Len(q) \in Nat /\ Len(r) \in Nat
    <2> HIDE DEF M
    <2> QED  BY <1>2
  <1>d. /\ \A m \in Range(p) : \E i \in 1 .. Len(p) : p[i] = m
        /\ \A m \in Range(q) : \E i \in 1 .. Len(q) : q[i] = m
        /\ \A i \in 1 .. Len(p) : p[i] \in Range(p)
        /\ \A i \in 1 .. Len(q) : q[i] \in Range(q)
    BY <1>c DEF Range
  <1> HIDE DEF M
  <1>3. /\ pq \in Seq(M) /\ Len(pq) = b
        /\ \A i \in 1 .. Len(p) : pq[i] = p[i]
        /\ \A i \in 1 .. Len(q) : pq[Len(p) + i] = q[i]
    BY <1>2, ConcatLays
  <1> HIDE DEF pq
  <1>4. /\ ms \in Seq(M) /\ Len(ms) = b + Len(r)
        /\ \A i \in 1 .. b : ms[i] = pq[i]
    <2>1. pq \in Seq(M) /\ r \in Seq(M) /\ Len(pq) = b
      BY <1>2, <1>3
    <2>2. /\ pq \o r \in Seq(M) /\ Len(pq \o r) = Len(pq) + Len(r)
          /\ \A i \in 1 .. Len(pq) : (pq \o r)[i] = pq[i]
      BY <2>1, ListsJoin, Zenon
    <2> HIDE DEF b
    <2> QED  BY <2>1, <2>2
  <1> HIDE DEF ms
  <1>5. ASSUME NEW i \in 1 .. b PROVE ms[i] \in Range(p) \cup Range(q)
    <2>1. CASE i <= Len(p)
      <3>1. i \in 1 .. Len(p)
        BY <1>c, <2>1
      <3> QED  BY <1>3, <1>4, <1>d, <3>1
    <2>2. CASE ~ (i <= Len(p))
      <3> DEFINE k == i - Len(p)
      <3>1. k \in 1 .. Len(q) /\ Len(p) + k = i
        BY <1>c, <2>2
      <3> HIDE DEF k
      <3>2. ms[i] = q[k]
        BY <1>3, <1>4, <3>1
      <3> QED  BY <1>d, <3>1, <3>2
    <2> QED  BY <2>1, <2>2
  <1>6. b \in Nat /\ b <= Len(ms)
    BY <1>4, <1>c
  <1> HIDE DEF b
  <1>7. \A i, k \in 1 .. b : ms[i].name = ms[k].name => ms[i] = ms[k]
    BY <1>5, <1>a
  <1>8. \A i \in 1 .. b : ms[i] \in FirstNamed(ms)
    BY <1>4, <1>6, <1>7, FirstNamedKeeps
  <1>9. ASSUME NEW m \in Range(p) \cup Range(q) PROVE m \in FirstNamed(ms)
    <2>1. CASE m \in Range(p)
      <3>1. PICK i \in 1 .. Len(p) : p[i] = m
        BY <1>d, <2>1
      <3>2. i \in 1 .. b
        BY <1>c DEF b
      <3> QED  BY <1>3, <1>4, <1>8, <3>1, <3>2
    <2>2. CASE m \in Range(q)
      <3>1. PICK i \in 1 .. Len(q) : q[i] = m
        BY <1>d, <2>2
      <3>2. Len(p) + i \in 1 .. b
        BY <1>c DEF b
      <3>3. ms[Len(p) + i] = m
        BY <1>3, <1>4, <3>1, <3>2
      <3> QED  BY <1>8, <3>2, <3>3
    <2> QED  BY <2>1, <2>2
  <1> QED  BY <1>9, <1>b DEF p, q

\* What they take is declared by the facade or owed by the package.
LEMMA ArgsOwed ==
    ASSUME NEW d \in DOMAIN Docs, NEW m \in Range(Applier(d)) \cup Range(GuardEval(d))
    PROVE  m.arg = <<>> \/ m.arg \in DoneErrorEvents(d) \/ Decl("type", m.arg) \in Owed(d)
  <1> DEFINE doc == Docs[d]
  <1>1. IsDocument(doc) /\ DOMAIN doc = 1 .. Len(doc)
    BY FileAssumption, TreeFacts
  <1>2. PICK cs \in Sites(doc) : m.arg = <<>> \/ m.arg = Arg(cs)
    <2>1. CASE m \in Range(Applier(d))
      <3>1. PICK cs \in Sites(doc) : m = ActionMethod(d, cs)
        BY <2>1, CallsOf
      <3>2. m.arg = Arg(cs)
        BY <3>1 DEF ActionMethod, Method
      <3> QED  BY <3>2
    <2>2. CASE m \in Range(GuardEval(d))
      <3>1. PICK cs \in Sites(doc) : m = GuardMethod(d, cs)
        BY <2>2, CallsOf
      <3>2. m.arg = <<>> \/ m.arg = Arg(cs)
        BY <3>1 DEF GuardMethod, Method
      <3> QED  BY <3>2
    <2> QED  BY <2>1, <2>2
  <1> HIDE DEF doc
  <1>3. CASE ~Evented(cs)
    BY <1>2, <1>3 DEF Arg
  <1>4. CASE Evented(cs)
    <2>1. cs.via \in {"on", "done", "error"} /\ cs.event \notin Generated /\ Arg(cs) = EventGoName(cs)
      BY <1>4, Zenon DEF Evented, Arg
    <2>2. PICK e \in EdgesOf(d) : cs.via = e.via /\ cs.event = e.event
      <3>1. \A n, type : At(n, type).via = "none"
        BY Zenon DEF At
      <3>2. PICK e \in AllEdges(doc) : \E type \in STRING : cs = AtEdge(e, type)
        BY <2>1, <3>1 DEF Sites, AllEdges
      <3>3. e \in EdgesOf(d)
        BY <1>1, <3>2 DEF AllEdges, EdgesOf, Nodes, doc
      <3>4. cs.via = e.via /\ cs.event = e.event
        BY <3>2 DEF AtEdge
      <3> QED  BY <3>3, <3>4
    <2>3. EventGoName(cs) = EventGoName(e)
      BY <2>2, Zenon DEF EventGoName
    <2>4. CASE e.via \in {"done", "error"}
      <3>1. EventGoName(e) \in DoneErrorEvents(d)
        BY <2>4 DEF DoneErrorEvents
      <3> QED  BY <1>2, <2>1, <2>3, <3>1
    <2>5. CASE e.via = "on"
      <3>1. e.event \in EventRefs(d)
        BY <2>1, <2>2, <2>5 DEF EventRefs
      <3>2. EventGoName(e) = NormalizeName(e.event)
        BY <2>5 DEF EventGoName
      <3>3. Decl("type", NormalizeName(e.event)) \in Owed(d)
        BY <3>1 DEF Owed
      <3>4. m.arg = <<>> \/ m.arg = NormalizeName(e.event)
        BY <1>2, <2>1, <2>3, <3>2, Zenon
      <3> QED  BY <3>3, <3>4, Zenon
    <2> QED  BY <2>1, <2>2, <2>4, <2>5
  <1> QED  BY <1>3, <1>4

\* The facade has what its dispatch calls, and its document refers to what that
\* takes.
DispatchInv ==
    gen # <<>> =>
        LET g     == gen[1]
            calls == Range(g.applier) \cup Range(g.guards)
        IN  \A m \in calls :
                /\ m \in g.methods
                /\ m.arg = <<>> \/ m.arg \in g.events \/ Decl("type", m.arg) \in Owed(g.doc)

\* Dispatch calls only what Implementations has, with that signature, and asserts
\* only event types that the facade or the package declares, whatever is saved,
\* declared, reshaped and killed: for documents whose callsites agree on every
\* method they share by name.
THEOREM DispatchCompiles ==
    ASSUME \A d \in Good : MethodsAgree(d)
    PROVE  PkgSpec => []DispatchFits
  <1>1. FileInit /\ ToolInit => DispatchInv
    BY DEF ToolInit, DispatchInv
  <1>2. ASSUME StubInv, DispatchInv, [PkgNext]_pkgVars PROVE DispatchInv'
    <2>1. CASE gen' = gen
      BY <1>2, <2>1 DEF DispatchInv
    <2>2. CASE gen' # gen
      <3>1. Generate
        BY <1>2, <2>2
        DEF PkgNext, Commands, Run, InitMachine, LoadDef, StubStart, Rewrite, AppendToFile,
            StubDone, Kill, SaveFile, Declare, Reshape, pkgVars, genVars
      <3>2. gen' = <<Emit(def)>> /\ def \in Good
        BY <1>2, <2>2, <3>1 DEF Generate, StubInv, StepInv
      <3>3. def \in DOMAIN Docs /\ MethodsAgree(def)
        BY <3>2 DEF Good
      <3> DEFINE g == Emit(def)
                 calls == Range(g.applier) \cup Range(g.guards)
      <3>4. /\ g.doc = def /\ g.applier = Applier(def) /\ g.guards = GuardEval(def)
            /\ g.methods = ImplMethods(def) /\ g.events = DoneErrorEvents(def)
        BY DEF Emit
      <3>5. \A m \in calls : m \in g.methods
        BY <3>3, <3>4, CallsKept
      <3>6. ASSUME NEW m \in calls
            PROVE  m.arg = <<>> \/ m.arg \in g.events \/ Decl("type", m.arg) \in Owed(g.doc)
        <4>1. m \in Range(Applier(def)) \cup Range(GuardEval(def))
          BY <3>4
        <4>2. QED
          BY <3>3, <3>4, <4>1, ArgsOwed
      <3> HIDE DEF g
      <3>7. gen'[1] = g
        BY <3>2 DEF g
      <3>8. QED
        BY <3>5, <3>6, <3>7 DEF DispatchInv
    <2>3. QED
      BY <2>1, <2>2
  <1>3. DispatchInv /\ FacadeDeclared => DispatchFits
    BY DEF DispatchInv, FacadeDeclared, DispatchFits
  <1>4. QED
    BY <1>1, <1>2, <1>3, StubInvariance, FacadeResolves, PTL DEF PkgSpec
=============================================================================
