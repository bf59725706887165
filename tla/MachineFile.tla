---------------------------- MODULE MachineFile ----------------------------
(***************************************************************************)
(* The machine.json on disk, as an editor writes it and the commands read  *)
(* it.  Editor and file system are not part of the repository: an editor   *)
(* rewrites the file in place, where a reader may find it cut off, or      *)
(* renames a new one over it; every write gives it a new mtime.            *)
(***************************************************************************)
EXTENDS Loader

CONSTANTS
    Docs,     \* the documents that are written, numbered
    Begins,   \* what the file is at first: numbers of documents, 0 for no file
    MaxSaves  \* bound: how often the editor saves

ASSUME FileAssumption ==
    /\ MaxSaves \in Nat /\ Begins \subseteq 0..Len(Docs)
    /\ \A d \in DOMAIN Docs : IsDocument(Docs[d])

VARIABLES
    file,    \* the number of the document, Missing or Torn
    mtime,   \* 0 where there is no file
    saves    \* how often it was saved

fileVars == <<file, mtime, saves>>

Missing == 0
Torn    == Len(Docs) + 1

\* What schema.Load makes of the content: its document, or 0 for an error.
Good      == {d \in DOMAIN Docs : Accepts(Docs[d])}
Loaded(f) == IF f \in Good THEN f ELSE 0

FileInit == /\ file \in Begins /\ saves = 0
            /\ mtime = IF file = Missing THEN 0 ELSE 1

Touch == mtime' = mtime + 1

Save(d) ==
    /\ saves < MaxSaves /\ file # Torn /\ d # file
    /\ saves' = saves + 1 /\ Touch
    /\ file' \in {d, Torn}

\* The editor goes on after its truncation.
SaveRest(d) == file = Torn /\ file' = d /\ Touch /\ UNCHANGED saves
=============================================================================
