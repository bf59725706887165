---------------------------- MODULE MCActorLoop ----------------------------
(***************************************************************************)
(* Instances of ActorLoop for TLC.                                         *)
(***************************************************************************)
EXTENDS ActorLoop

CONSTANTS s1, s2, c1, d1, d2, t1, t2, u1, u2

\* The smallest channels; a subscriber that may quit, with a channel that never
\* fills (the initial microsteps, an abort or trip, and Stopped).
SmallCap == [s \in Sub |-> 1]
QuitCap  == [s \in Sub |-> IF s \in Quitter THEN MaxVersion + 1 ELSE 1]
=============================================================================
