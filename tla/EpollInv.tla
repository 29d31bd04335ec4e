------------------------------- MODULE EpollInv -------------------------------
(***************************************************************************)
(* What Epoll's invariants rest on.                                        *)
(***************************************************************************)
EXTENDS Epoll

\* An entry is the last registration unless it is stale.
Listed == \A f \in Fd : list[f] # None => list[f] = wanted[f] \/ f \in odd

\* The loop over the entries: how far it has come, and what it is about to do.
Loop ==
  /\ pc \notin {"poke", "tail"} => count = 0
  /\ count <= maxEvents
  /\ pc \in {"poke", "tail"} => \A f \in todo : list[f] # None /\ file[f] = "dev"
  /\ pc # "tail" => current = None
  /\ pc = "tail" =>
       /\ current \in Fd /\ current \notin todo /\ count < maxEvents
       /\ list[current] # None /\ file[current] = "dev"
       /\ mem[3 * count] = In /\ mem[3 * count + 1] = Lo(list[current])
       /\ ~Fails /\ count = Slots - 1 => peeked = Own(stored) \/ raced

\* The events are of the entries the loop has come to; before the first the kernel's are there.
Returned ==
  /\ pc \in {"poke", "tail"} => Whole(count, Fd \ (todo \cup {current}))
  /\ (pc \in {"exit", "back"} \/ (pc = "poke" /\ count = 0)) /\ rax > 0 =>
       rax <= maxEvents /\ Whole(rax, Fd)

ArrayInv == TypeOK /\ Listed /\ Loop /\ BehindKept /\ Returned
=============================================================================
