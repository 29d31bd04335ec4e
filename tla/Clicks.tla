------------------------------- MODULE Clicks -------------------------------
(***************************************************************************)
(* What the mouse promises about its buttons: every change of the buttons  *)
(* reaches the program, once and in order, until the user captures the     *)
(* mouse anew, which forgets the changes the program was not told yet, and *)
(* until another program takes the mouse over, after which nothing is      *)
(* promised.                                                               *)
(***************************************************************************)
EXTENDS Naturals, Sequences

CONSTANT Button

VARIABLES
  down,     \* the buttons the window takes for down
  pending,  \* the changes on their way, each the set of buttons down after it
  seen,     \* the buttons the program takes for down
  taken     \* another program took the mouse over

vars == <<down, pending, seen, taken>>

Newest == IF pending = <<>> THEN seen ELSE pending[Len(pending)]

Init == down = {} /\ pending = <<>> /\ seen = {} /\ taken = FALSE

Change ==
  /\ down' \in SUBSET Button
  /\ pending' = IF down' = Newest THEN pending ELSE Append(pending, down')
  /\ UNCHANGED <<seen, taken>>

Forget ==
  /\ down' = {}
  /\ \E n \in 0..Len(pending) : pending' = SubSeq(pending, 1, n)
  /\ UNCHANGED <<seen, taken>>

Deliver ==
  /\ pending # <<>>
  /\ seen' = Head(pending)
  /\ pending' = Tail(pending)
  /\ UNCHANGED <<down, taken>>

TakeOver == taken' = TRUE

Next == Change \/ Forget \/ Deliver \/ TakeOver

Spec == Init /\ [][Next]_vars
=============================================================================
