---------------------------- MODULE MCInvocation ----------------------------
(***************************************************************************)
(* Instances of Invocation for TLC.                                        *)
(***************************************************************************)
EXTENDS Invocation, TLC

CONSTANTS charging, charge, order, stock, pause, timeout

\* All belong to one state.
OneOwner == [x \in Invoke \cup After |-> charging]

Adapters1 == charge :> "promise"
Adapters3 == (order :> "machine") @@ (stock :> "callback") @@ (pause :> "backoff")
=============================================================================
