----------------------------- MODULE Lifecycle -----------------------------
(***************************************************************************)
(* What a statesman actor promises a reader of Machine.Snapshot (a lock-   *)
(* free load of the last published snapshot) and a waiter on the actor's   *)
(* termination.  Nothing is said here of mailboxes, observers, subscribers *)
(* or shutdown: ActorLoop shows that the actor goroutine keeps this        *)
(* promise whatever those do.                                              *)
(***************************************************************************)
EXTENDS Naturals

VARIABLES
    status,     \* Snapshot.Status of the last published snapshot
    version,    \* Snapshot.Version of the last published snapshot
    stopped     \* the actor's done channel is closed

lifeVars == <<status, version, stopped>>

Live     == {"Starting", "Running"}
Terminal == {"Done", "Error", "Stopped"}

LifeInit ==
    /\ status = "Starting"
    /\ version = 0
    /\ stopped = FALSE

(***************************************************************************)
(* Every publication takes the next version.  The initial entry always     *)
(* runs, so an actor is never Stopped straight from Starting; a terminal   *)
(* snapshot is the last one.                                               *)
(***************************************************************************)
Publish ==
    /\ status \in Live
    /\ version' = version + 1
    /\ \/ status' \in {"Running", "Done", "Error"}
       \/ status = "Running" /\ status' = "Stopped"
    /\ UNCHANGED stopped

\* Waiters are released only after the terminal snapshot is readable.
Release ==
    /\ status \in Terminal
    /\ ~stopped
    /\ stopped' = TRUE
    /\ UNCHANGED <<status, version>>

LifeNext == Publish \/ Release

LifeSafety == LifeInit /\ [][LifeNext]_lifeVars

\* A terminal snapshot is always followed by the release of the waiters.
LifeSpec == LifeSafety /\ WF_lifeVars(Release)
=============================================================================
