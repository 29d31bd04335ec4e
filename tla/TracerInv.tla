------------------------------ MODULE TracerInv -----------------------------
(***************************************************************************)
(* The strengthenings of Tracer's invariants that are inductive.           *)
(***************************************************************************)
EXTENDS Tracer

\* Aligned, and what makes it survive a pid being used again.
InStep ==
  \A p \in Pid :
    /\ phase[p] \in {"kernel", "event", "exit"} => exiting[p]
    /\ phase[p] \in {"absent", "born", "user", "enter", "signal"} => ~exiting[p]

Counted == Accounting /\ IsFiniteSet(known)
-----------------------------------------------------------------------------
(* Disciplined tracees: who holds what at each phase of a call.            *)

InCall(p) == phase[p] \in {"kernel", "event", "exit"}

\* No descriptor table is shared, and a process that is gone left nothing.
OwnTables ==
  \A p \in Pid :
    /\ files[p] = p
    /\ ~Alive(p) => fds[p] = NoFiles /\ call[p] = NoCall
    /\ phase[p] = "born" => call[p] = NoCall
    /\ phase[p] = "absent" => reg[p] = NoHandles /\ cur[p] = None

\* A process that clones has no device open until the clone returns.
ClonesClean ==
  \A p \in Pid : (phase[p] = "enter" \/ InCall(p)) /\ call[p].op \in CloneOps =>
    \A f \in Fd : fds[p][f] \notin Obj

\* The registry follows the table, but for the descriptor a close has already
\* dropped from it, and for the one an open has not entered into it yet.
Closing(p, f) == phase[p] = "kernel" /\ call[p].op = "close" /\ f = call[p].fd
Opening(p, f) == phase[p] = "exit" /\ call[p].op = "open" /\ f = rax[p]
Follows ==
  \A p \in Pid, f \in Fd : Alive(p) =>
    IF Closing(p, f) THEN reg[p][f] = None
    ELSE IF Opening(p, f)
      THEN reg[p][f] = None /\ fds[p][f] = IF cur[p] = None THEN "plain" ELSE cur[p]
      ELSE reg[p][f] = HandlesOf(fds[p])[f]

\* A handler, or the description named after it, belongs to one process.
Holds(p, o) == cur[p] = o \/ \E f \in Fd : reg[p][f] = o \/ fds[p][f] = o
Unshared == \A p, q \in Pid, o \in Obj : Holds(p, o) /\ Holds(q, o) => p = q

\* During a call its handler is the one in charge of it, and has it noted.
InCharge ==
  \A p \in Pid :
    /\ phase[p] = "enter" => orig[p] = call[p].op /\ call[p] \in Calls
    /\ InCall(p) =>
         /\ call[p] \in Calls
         /\ call[p].op \in FdOps => cur[p] = reg[p][call[p].fd]
         /\ cur[p] # None => /\ call[p].op \in PathOps \cup FdOps
                             /\ before[cur[p]] = [op |-> call[p].op, addr |-> call[p].addr]
         /\ orig[p] = IF call[p].op \in DeviceOps /\ cur[p] # None
                        THEN "none" ELSE call[p].op
    /\ phase[p] = "event" => call[p].op \in CloneOps /\ rax[p] \in Pid
    /\ phase[p] = "exit" =>
         IF orig[p] = "none" THEN rax[p] = "enosys" ELSE rax[p] \notin {"zero", "enosys"}

Answered ==
  \A p \in Pid :
    phase[p] \in {"user", "signal"} /\ call[p].op # "none" =>
      IF call[p].op \in DeviceOps /\ fds[p][call[p].fd] \in Obj
        THEN rax[p] = "zero"
        ELSE rax[p] \notin {"zero", "enosys"}

DInv ==
  /\ TypeOK /\ InStep
  /\ OwnTables /\ ClonesClean /\ Follows /\ Unshared /\ InCharge /\ Answered

\* The handler made for a name is new until the open has taken effect.
Fresh ==
  \A p \in Pid :
    /\ InCall(p) /\ call[p].op \in PathOps => (cur[p] # None <=> call[p].path \in SpyPath)
    /\ phase[p] = "kernel" /\ call[p].op = "open" /\ cur[p] # None =>
         state[cur[p]] = InitVal /\ \A f \in Fd : fds[p][f] # cur[p]
=============================================================================
