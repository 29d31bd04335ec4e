---------------------------- MODULE DeviceCalls -----------------------------
(***************************************************************************)
(* What LoWeAgent promises its tracees: system calls on an emulated device *)
(* behave as if a driver executed each of them in one step.  Every open of *)
(* a device name yields a description of its own with a state; a get ioctl *)
(* stores that state in the caller's buffer and a set ioctl loads it, both *)
(* with result "zero"; everything else is the kernel's.                    *)
(*                                                                         *)
(* Tracer implements this for processes that share no device, although it  *)
(* answers a call in two stops between which the other processes run on.   *)
(***************************************************************************)
CONSTANTS Pid, Root, Fd, Path, SpyPath, Obj, Addr, Val, InitVal, Calls, CloneOps,
          NoCall, None

VARIABLES
  ready,  \* ready[p]: "absent", "ready" or "calling"
  fds,    \* fds[p][f]: the description p's descriptor f refers to
  mem,    \* mem[p][a]: p's buffer at address a
  call,   \* call[p]: the call in progress or the last one
  rax,    \* rax[p]: its result
  dev     \* dev[o]: the state of device description o

vars == <<ready, fds, mem, call, rax, dev>>

Init ==
  /\ ready = [p \in Pid |-> IF p = Root THEN "ready" ELSE "absent"]
  /\ fds = [p \in Pid |-> [f \in Fd |-> "closed"]]
  /\ mem = [p \in Pid |-> [a \in Addr |-> InitVal]]
  /\ call = [p \in Pid |-> NoCall]
  /\ rax = [p \in Pid |-> "none"]
  /\ dev = [o \in Obj |-> InitVal]

IsOpen(o) == \E p \in Pid, f \in Fd : fds[p][f] = o

\* A device description goes with the last descriptor: its state is forgotten.
Forget(table) ==
  dev' = [o \in Obj |->
            IF \E p \in Pid, f \in Fd : table[p][f] = o THEN dev[o] ELSE InitVal]

Begin(p) ==
  /\ ready[p] = "ready"
  /\ \E c \in Calls :
       /\ c.op \in CloneOps => \A f \in Fd : fds[p][f] \notin Obj
       /\ call' = [call EXCEPT ![p] = c]
       /\ IF c.op = "set"
            THEN \E v \in Val : mem' = [mem EXCEPT ![p][c.addr] = v]
            ELSE UNCHANGED mem
  /\ ready' = [ready EXCEPT ![p] = "calling"]
  /\ rax' = [rax EXCEPT ![p] = "none"]
  /\ UNCHANGED <<fds, dev>>

\* The call p is executing has op as its number and ends with result r.
Return(p, op, r) ==
  /\ ready[p] = "calling" /\ call[p].op = op
  /\ ready' = [ready EXCEPT ![p] = "ready"]
  /\ rax' = [rax EXCEPT ![p] = r]
  /\ UNCHANGED call

OpenFails(p) == Return(p, "open", "fail") /\ UNCHANGED <<fds, mem, dev>>

Open(p) ==
  \E f \in Fd, d \in {"plain"} \cup Obj :
    /\ Return(p, "open", f)
    /\ fds[p][f] = "closed"
    /\ d \in Obj <=> call[p].path \in SpyPath
    /\ d \in Obj => ~IsOpen(d)
    /\ fds' = [fds EXCEPT ![p][f] = d]
    /\ UNCHANGED <<mem, dev>>

Close(p) ==
  /\ Return(p, "close", "kernel")
  /\ fds' = [fds EXCEPT ![p][call[p].fd] = "closed"]
  /\ Forget(fds')
  /\ UNCHANGED mem

\* The state of the device behind the call's descriptor.
Get(p) ==
  /\ Return(p, "get", "zero")
  /\ LET o == fds[p][call[p].fd] IN
       o \in Obj /\ mem' = [mem EXCEPT ![p][call[p].addr] = dev[o]]
  /\ UNCHANGED <<fds, dev>>

Set(p) ==
  /\ Return(p, "set", "zero")
  /\ LET o == fds[p][call[p].fd] IN
       o \in Obj /\ dev' = [dev EXCEPT ![o] = mem[p][call[p].addr]]
  /\ UNCHANGED <<fds, mem>>

\* Calls the kernel executes: those that are not about an emulated device.
Kernel(p) ==
  /\ \/ \E op \in {"get", "set"} :
          Return(p, op, "kernel") /\ fds[p][call[p].fd] \notin Obj
     \/ \E op \in {"write", "stat"} : Return(p, op, "kernel")
     \/ \E op \in CloneOps : Return(p, op, "fail")
  /\ UNCHANGED <<fds, mem, dev>>

Clone(p) ==
  \E q \in Pid :
    /\ ready[p] = "calling" /\ call[p].op \in CloneOps
    /\ ready[q] = "absent"
    /\ ready' = [ready EXCEPT ![p] = "ready", ![q] = "ready"]
    /\ fds' = [fds EXCEPT ![q] = fds[p]]
    /\ mem' = [mem EXCEPT ![q] = mem[p]]
    /\ rax' = [rax EXCEPT ![p] = q]
    /\ UNCHANGED <<call, dev>>

Die(p) ==
  /\ ready[p] # "absent"
  /\ ready' = [ready EXCEPT ![p] = "absent"]
  /\ fds' = [fds EXCEPT ![p] = [f \in Fd |-> "closed"]]
  /\ mem' = [mem EXCEPT ![p] = [a \in Addr |-> InitVal]]
  /\ call' = [call EXCEPT ![p] = NoCall]
  /\ rax' = [rax EXCEPT ![p] = "none"]
  /\ Forget(fds')

Next ==
  \E p \in Pid :
    \/ Begin(p) \/ Open(p) \/ OpenFails(p) \/ Close(p) \/ Get(p) \/ Set(p)
    \/ Kernel(p) \/ Clone(p) \/ Die(p)

Spec == Init /\ [][Next]_vars
=============================================================================
