---------------------------- MODULE MCMouseInput ----------------------------
(* Instances of MouseInput for TLC: places far and near. *)
EXTENDS MouseInput

CONSTANTS c1, c2

TwoPlaces == {0, 400}
OneTurn   == {120}
NoTurns   == {}
OneAnswer == {[buttons |-> {"right"}, x |-> 400, wheel |-> 1]}
=============================================================================
