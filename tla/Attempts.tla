------------------------------ MODULE Attempts ------------------------------
(***************************************************************************)
(* What a chart may rely on of one invoke: attempts are made one at a time,*)
(* each a new one, and none reports its outcome twice.  The outcome of an  *)
(* attempt that was stopped may still arrive.                              *)
(***************************************************************************)
EXTENDS Naturals

VARIABLES
    current,    \* the attempt that runs for the active state, 0 for none
    begun,      \* how many attempts were begun
    reported    \* the attempts whose outcome was sent to the machine

attemptVars == <<current, begun, reported>>

Init == current = 0 /\ begun = 0 /\ reported = {}

Begin ==
    /\ current = 0
    /\ begun' = begun + 1
    /\ current' = begun'
    /\ UNCHANGED reported

Stop ==
    /\ current # 0
    /\ current' = 0
    /\ UNCHANGED <<begun, reported>>

Report ==
    /\ \E n \in (1 .. begun) \ reported : reported' = reported \cup {n}
    /\ UNCHANGED <<current, begun>>

Next == Begin \/ Stop \/ Report

AttemptSpec == Init /\ [][Next]_attemptVars
=============================================================================
