------------------------------ MODULE KbdInputInv ------------------------------
(***************************************************************************)
(* What KbdInput's invariants rest on when a read returns all that gathers *)
(* in the queue.                                                           *)
(***************************************************************************)
EXTENDS KbdInput

\* A read asks for as many items as may gather in the queue.
Roomy == QueueBound <= ReadItems

\* What the window saw last of a key is in lastItem as it is in pressed.
LastSeen == lastItem # None => (lastItem.down <=> lastItem.key \in pressed)

\* Each key that occurs in the items occurs a last time.
HasLast(items) ==
  \A k \in Key :
    \/ \A i \in DOMAIN items : items[i].key # k
    \/ \E i \in DOMAIN items :
         items[i].key = k /\ \A j \in DOMAIN items : j > i => items[j].key # k

\* Answers are whole queues.
Answers ==
  /\ HasLast(keyData)
  /\ \A c \in Client : \A i \in DOMAIN answer[c] :
       HasLast(answer[c][i]) /\ Len(answer[c][i]) <= QueueBound

\* The server knows only those who opened a connection.
Known ==
  /\ served # None => opened[served]
  /\ awaiting => served # None
  /\ \A i \in DOMAIN backlog : opened[backlog[i]]

LengthOf == [len |-> ReadItems]
Messages == {[op |-> "INIT"], [op |-> "READ"], LengthOf}

\* On a connection that was not cut one read is under way at a time: its length is
\* the last message, or its answer the only one.
OneRead ==
  /\ \A c \in Client : \A i \in DOMAIN sent[c] : sent[c][i] \in Messages
  /\ \A c \in Client \ cut :
       /\ \A i \in DOMAIN sent[c] : sent[c][i] = LengthOf =>
            i = Len(sent[c]) /\ reader = c /\ lengthSent /\ answer[c] = <<>>
       /\ answer[c] # <<>> => Len(answer[c]) = 1 /\ reader = c /\ lengthSent

KbdInv ==
  TypeOK /\ LastSeen /\ Answers /\ Known /\ OneRead /\ KeysAgree
=============================================================================
