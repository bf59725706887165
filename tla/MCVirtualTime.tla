---------------------------- MODULE MCVirtualTime ----------------------------
(***************************************************************************)
(* A worker with a timeout, a retry on which a fake actor answers, and a   *)
(* state that renews itself; the scenarios of three steps, and a long one. *)
(***************************************************************************)
EXTENDS Scenario

MCNone  == "none"
MCLeaf  == {"idle", "work", "wait"}
MCAfter == [idle |-> <<>>,
            work |-> <<[delay |-> 3, to |-> "idle"], [delay |-> 1, to |-> "wait"]>>,
            wait |-> <<[delay |-> 2, to |-> "wait"], [delay |-> 3, to |-> "idle"]>>]
MCOn == [GO |-> [idle |-> "work", wait |-> "idle"],
         OK |-> [wait |-> "work"]]
MCOutcomes == [idle |-> MCNone, work |-> MCNone, wait |-> <<"OK">>]

MCSteps   == {Send("GO"), Forward(1), Forward(3)}
MCScripts == {<<Send("GO")>> \o s : s \in [1..2 -> MCSteps]}
             \cup {<<Send("GO"), Forward(1), Forward(1), Forward(3)>>}
=============================================================================
