----------------------------- MODULE MCKbdInput -----------------------------
(* Instances of KbdInput for TLC: what the clipboard may hold. *)
EXTENDS KbdInput

CONSTANTS a, b, c1, c2

Down(k) == [key |-> k, down |-> TRUE]
Up(k)   == [key |-> k, down |-> FALSE]

OneText == {<<Down(a), Up(a), Down(a), Up(a)>>}
NoTexts == {}
OneKey  == {<<>>, <<Down(b)>>}
=============================================================================
