----------------------------- MODULE MCProvision -----------------------------
(* Instances of Provision for TLC.                                          *)
EXTENDS Provision

CONSTANTS a1, a2

\* The programs of loweagent.conf, reduced to the window and one input: a1 is for
\* x or evtest, a2 for x.
MCNeeds == [a \in Agent |-> {{"FBUF", "KEYB"}} \cup IF a = a1 THEN {{"KEYB"}} ELSE {}]
=============================================================================
