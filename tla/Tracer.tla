------------------------------- MODULE Tracer -------------------------------
(***************************************************************************)
(* LoWeAgent's core: the wait4 loop of ProgRuntimeDispatcher, the two      *)
(* halves of a spied system call in ProgRuntimeHandler, the per process    *)
(* DeviceHandlerRegistry, and a device handler in the style of             *)
(* DeviceHandlerTTY, which answers the ioctls that get and set its state.  *)
(* The tracees and the kernel (process table, descriptor tables, ptrace    *)
(* stops) are the environment; they are modelled from how src/ uses them.  *)
(*                                                                         *)
(* The agent is single threaded: one action per status wait4 may report.   *)
(* Tracees run on their own between two stops, so the actions of several   *)
(* processes interleave in every order the kernel can produce.             *)
(***************************************************************************)
EXTENDS Integers, FiniteSets

CONSTANTS
  Pid,          \* process identifiers; one is reused after it was waited for
  Root,         \* the program LoWeAgent attaches to or starts
  Fd,           \* the descriptors a table can hold
  Path,         \* the names tracees open
  SpyPath,      \* the ones DeviceHandlerFactory creates a handler for
  Obj,          \* storage for DeviceHandler objects (bounds the live ones)
  Addr,         \* buffer addresses a tracee passes to an ioctl
  Val,          \* values of a device's state, and of a buffer
  InitVal,      \* the state a handler's constructor stores
  Ops,          \* the system calls the tracees of this instance make
  Disciplined,  \* TRUE: no tracee clones while it has a device open
  None

PathOps   == {"open", "stat"}            \* open and openat; stat, lstat, readlinkat
DeviceOps == {"get", "set"}              \* ioctls answered by the handler
FdOps     == DeviceOps \cup {"write"}    \* looked up by fd; write goes to the kernel
CloneOps  == {"fork", "vfork", "thread"} \* SYS_clone, SYS_vfork, SYS_clone + CLONE_FILES
AllOps    == PathOps \cup FdOps \cup CloneOps \cup {"close", "dup"}

ASSUME TracerAssumption ==
  /\ Root \in Pid
  /\ SpyPath \subseteq Path
  /\ InitVal \in Val
  /\ Ops \subseteq AllOps
  /\ Disciplined \in BOOLEAN
  /\ Disciplined => Ops \cap {"dup", "thread"} = {}
  /\ Fd \cap Pid = {}
  /\ {"none", "closed", "plain"} \cap Obj = {}
  /\ {"none", "fail", "kernel", "enosys", "zero"} \cap (Fd \cup Pid) = {}
  /\ None \notin Pid \cup Fd \cup Obj \cup Path \cup Addr

VARIABLES
  \* The kernel and the tracees.
  phase,   \* phase[p]: where process p is, see Phase
  files,   \* files[p]: the descriptor table p uses, named after its first owner
  fds,     \* fds[t][f]: the description behind f, "plain" or a device's
  mem,     \* mem[p][a]: p's buffer at address a
  call,    \* call[p]: the system call p made, or NoCall
  orig,    \* orig[p]: its number as the kernel sees it (orig_rax), "none" for -1
  rax,     \* rax[p]: the result register
  \* The agent.
  spinning,          \* Spin has not returned
  known,             \* the keys of _runtimeInfo
  numberOfProcesses,
  exiting,           \* exiting[p]: _exiting of p's ProgRuntimeHandler
  cur,               \* cur[p]: its _currentDeviceHandler
  reg,               \* reg[p]: its DeviceHandlerRegistry
  before,            \* before[o]: _syscallbefore, _ioctlop and _ioctladdr of o
  state              \* state[o]: the device state o keeps (_vt_mode)

kernelVars == <<phase, files, fds, mem, call, orig, rax>>
agentVars  == <<spinning, known, numberOfProcesses, exiting, cur, reg, before, state>>
vars       == <<kernelVars, agentVars>>

(***************************************************************************)
(* "user": running its own code.  "enter", "event", "exit", "signal",      *)
(* "born": stopped with a status wait4 has not reported yet, at the entry  *)
(* of a call, at the clone event inside one, at its end, at the delivery   *)
(* of a signal, and at a new process's initial stop.  "kernel": executing  *)
(* a call.  "zombie": dead, its exit status not yet waited for.            *)
(***************************************************************************)
Phase == {"absent", "born", "user", "enter", "kernel", "event", "exit",
          "signal", "zombie"}

Call == [op   : AllOps \cup {"none"},
         path : Path \cup {None},
         fd   : Fd \cup {None},
         addr : Addr \cup {None}]
NoCall == [op |-> "none", path |-> None, fd |-> None, addr |-> None]

\* The calls tracees make, an argument a call does not have being None.
Calls ==
  {c \in Call : /\ c.op \in Ops
                /\ (c.path # None) <=> (c.op \in PathOps)
                /\ (c.fd # None) <=> (c.op \in FdOps \cup {"close", "dup"})
                /\ (c.addr # None) <=> (c.op \in DeviceOps)}

Ticket   == [op : DeviceOps, addr : Addr] \cup [op : AllOps \ DeviceOps, addr : {None}]
Result   == {"none", "fail", "kernel", "enosys", "zero"} \cup Fd \cup Pid
Entry    == {"closed", "plain"} \cup Obj
NoFiles  == [f \in Fd |-> "closed"]
NoHandles == [f \in Fd |-> None]

Alive(p)   == phase[p] \notin {"absent", "zombie"}
Table(p)   == fds[files[p]]
HandlesOf(table) == [f \in Fd |-> IF table[f] \in Obj THEN table[f] ELSE None]

TypeOK ==
  /\ phase \in [Pid -> Phase]
  /\ files \in [Pid -> Pid]
  /\ fds \in [Pid -> [Fd -> Entry]]
  /\ mem \in [Pid -> [Addr -> Val]]
  /\ call \in [Pid -> Calls \cup {NoCall}]
  /\ \A p \in Pid : orig[p] \in {call[p].op, "none"}
  /\ orig \in [Pid -> AllOps \cup {"none"}]
  /\ rax \in [Pid -> Result]
  /\ spinning \in BOOLEAN
  /\ known \subseteq Pid
  /\ numberOfProcesses \in Int
  /\ exiting \in [Pid -> BOOLEAN]
  /\ cur \in [Pid -> Obj \cup {None}]
  /\ reg \in [Pid -> [Fd -> Obj \cup {None}]]
  /\ before \in [Obj -> Ticket]
  /\ state \in [Obj -> Val]
-----------------------------------------------------------------------------
\* Init asks for the first PTRACE_SYSCALL before it has waited for Root's stop:
\* either that stop is consumed, or it is still there to be reported.
Init ==
  /\ \E first \in {"user", "born"} :
       phase = [p \in Pid |-> IF p = Root THEN first ELSE "absent"]
  /\ files = [p \in Pid |-> p]
  /\ fds = [p \in Pid |-> NoFiles]
  /\ mem = [p \in Pid |-> [a \in Addr |-> InitVal]]
  /\ call = [p \in Pid |-> NoCall]
  /\ orig = [p \in Pid |-> "none"]
  /\ rax = [p \in Pid |-> "none"]
  /\ spinning = TRUE
  /\ known = {}
  /\ numberOfProcesses = 0
  /\ exiting = [p \in Pid |-> FALSE]
  /\ cur = [p \in Pid |-> None]
  /\ reg = [p \in Pid |-> NoHandles]
  /\ before \in [Obj -> {[op |-> "open", addr |-> None]}]
  /\ state = [o \in Obj |-> InitVal]
-----------------------------------------------------------------------------
(* The tracees and the kernel.                                             *)

\* The objects that are taken, and the calls for which one is still to be made.
Taken  == {o \in Obj : \E p \in Pid : cur[p] = o \/ \E f \in Fd : o \in {reg[p][f], fds[p][f]}}
Asking == {p \in Pid : phase[p] = "enter" /\ call[p].path \in SpyPath}

\* Bound on the tracees: they do not ask for a handler that Obj has no storage for.
Room == Cardinality(Taken) + Cardinality(Asking) < Cardinality(Obj)

\* p makes a call and stops at its entry; for a "set" its buffer holds v.
MakeCall(p) ==
  /\ phase[p] = "user"
  /\ \E c \in Calls :
       /\ c.path \in SpyPath => Room
       /\ Disciplined /\ c.op \in CloneOps => \A f \in Fd : Table(p)[f] \notin Obj
       /\ call' = [call EXCEPT ![p] = c]
       /\ orig' = [orig EXCEPT ![p] = c.op]
       /\ IF c.op = "set"
            THEN \E v \in Val : mem' = [mem EXCEPT ![p][c.addr] = v]
            ELSE UNCHANGED mem
  /\ phase' = [phase EXCEPT ![p] = "enter"]
  /\ rax' = [rax EXCEPT ![p] = "none"]
  /\ UNCHANGED <<files, fds, agentVars>>

\* A signal is about to be delivered to p.
Signal(p) ==
  /\ phase[p] = "user"
  /\ phase' = [phase EXCEPT ![p] = "signal"]
  /\ UNCHANGED <<files, fds, mem, call, orig, rax, agentVars>>

\* The end of p's call with result r.
Finish(p, r) ==
  /\ phase' = [phase EXCEPT ![p] = "exit"]
  /\ rax' = [rax EXCEPT ![p] = r]
  /\ UNCHANGED <<files, mem, call, orig, agentVars>>

\* A new description is named after the handler the agent made for this open.
KernelOpen(p) ==
  /\ phase[p] = "kernel" /\ orig[p] = "open"
  /\ \/ /\ Finish(p, "fail")
        /\ UNCHANGED fds
     \/ \E f \in Fd :
          /\ Table(p)[f] = "closed"
          /\ fds' = [fds EXCEPT ![files[p]][f] =
                       IF cur[p] = None THEN "plain" ELSE cur[p]]
          /\ Finish(p, f)

KernelClose(p) ==
  /\ phase[p] = "kernel" /\ orig[p] = "close"
  /\ fds' = [fds EXCEPT ![files[p]][call[p].fd] = "closed"]
  /\ Finish(p, "kernel")

\* dup and dup2, which the agent does not look at.
KernelDup(p) ==
  /\ phase[p] = "kernel" /\ orig[p] = "dup"
  /\ \E f \in Fd \ {call[p].fd} :
       /\ Table(p)[call[p].fd] # "closed"
       /\ fds' = [fds EXCEPT ![files[p]][f] = Table(p)[call[p].fd]]
       /\ Finish(p, f)

\* Calls that change nothing the agent keeps track of, and suppressed calls.
KernelOther(p) ==
  /\ phase[p] = "kernel"
  /\ orig[p] \in FdOps \cup {"stat", "dup", "none"}
  /\ Finish(p, IF orig[p] = "none" THEN "enosys" ELSE "kernel")
  /\ UNCHANGED fds

\* A clone makes process q, traced from its birth, and reports an event to p.
KernelClone(p) ==
  /\ phase[p] = "kernel" /\ orig[p] \in CloneOps
  /\ \/ /\ Finish(p, "fail")
        /\ UNCHANGED fds
     \/ \E q \in Pid :
          /\ phase[q] = "absent" /\ \A r \in Pid : Alive(r) => files[r] # q
          /\ phase' = [phase EXCEPT ![p] = "event", ![q] = "born"]
          /\ files' = [files EXCEPT ![q] = IF orig[p] = "thread" THEN files[p] ELSE q]
          /\ fds' = IF orig[p] = "thread" THEN fds ELSE [fds EXCEPT ![q] = Table(p)]
          /\ mem' = [mem EXCEPT ![q] = mem[p]]
          /\ rax' = [rax EXCEPT ![p] = q]
          /\ UNCHANGED <<call, orig, agentVars>>

\* p exits or is killed, wherever it is.
Die(p) ==
  /\ Alive(p)
  /\ phase' = [phase EXCEPT ![p] = "zombie"]
  /\ files' = [files EXCEPT ![p] = p]
  /\ fds' = IF \E q \in Pid \ {p} : Alive(q) /\ files[q] = files[p]
              THEN fds ELSE [fds EXCEPT ![files[p]] = NoFiles]
  /\ mem' = [mem EXCEPT ![p] = [a \in Addr |-> InitVal]]
  /\ call' = [call EXCEPT ![p] = NoCall]
  /\ orig' = [orig EXCEPT ![p] = "none"]
  /\ rax' = [rax EXCEPT ![p] = "none"]
  /\ UNCHANGED agentVars
-----------------------------------------------------------------------------
(* The agent: Step of the dispatcher, by the status wait4 reports.         *)

\* Mutant: counts a process again at each of its stops.
GetOrAddCountsStops(p) ==
  /\ known' = known \cup {p}
  /\ numberOfProcesses' = numberOfProcesses + 1

GetOrAdd(p) ==
  /\ known' = known \cup {p}
  /\ numberOfProcesses' = numberOfProcesses + (IF p \in known THEN 0 ELSE 1)

\* The registry operations.
Register(handles, f, o) == [handles EXCEPT ![f] = o]
\* Mutant: a close is not followed.
UnregisterIgnored(handles, f) == handles
Unregister(handles, f)  == [handles EXCEPT ![f] = None]
\* RegisterMap: std::map::insert keeps the entries that are already there.
RegisterMap(handles, other) ==
  [f \in Fd |-> IF handles[f] # None THEN handles[f] ELSE other[f]]

\* What p can name a new handler object, having let go of its last one: not
\* like an object in use, nor like a description that is still open. Room
\* leaves one for every call that asks.
FreeObj(p) ==
  {o \in Obj : /\ \A q \in Pid : cur[q] = o => q = p
               /\ \A q \in Pid, f \in Fd : reg[q][f] # o /\ fds[q][f] # o}

\* SpySyscallEnter: the handler in charge of the call, a new one for a path.
Lookup(p, c) ==
  CASE c.op \in PathOps /\ c.path \in SpyPath -> FreeObj(p)
    [] c.op \in FdOps -> {reg[p][c.fd]}
    [] OTHER -> {None}

\* Mutants: the suppression is forgotten; the wrong register is noted.
ExecuteBeforeUnsuppressed(p, o, c) ==
  /\ before' = [before EXCEPT ![o] = [op |-> c.op, addr |-> c.addr]]
  /\ UNCHANGED orig
ExecuteBeforeNotesFd(p, o, c) ==
  /\ before' = [before EXCEPT ![o] = [op |-> c.op, addr |-> c.fd]]
  /\ orig' = [orig EXCEPT ![p] = IF c.op \in DeviceOps THEN "none" ELSE @]

\* The handler notes the call in its own fields, and suppresses the ioctls it
\* will answer by writing -1 into orig_rax.
ExecuteBefore(p, o, c) ==
  /\ before' = [before EXCEPT ![o] = [op |-> c.op, addr |-> c.addr]]
  /\ orig' = [orig EXCEPT ![p] = IF c.op \in DeviceOps THEN "none" ELSE @]

\* A syscall stop while _exiting is false.
HandleEnter(p) ==
  /\ spinning
  /\ phase[p] \in {"enter", "exit"} /\ ~exiting[p]
  /\ GetOrAdd(p)
  /\ LET c == [call[p] EXCEPT !.op = orig[p]] IN
     \E o \in Lookup(p, c) :
       /\ cur' = [cur EXCEPT ![p] = o]
       /\ reg' = [reg EXCEPT ![p] = IF c.op = "close" THEN Unregister(@, c.fd) ELSE @]
       /\ IF o = None THEN UNCHANGED <<before, orig>> ELSE ExecuteBefore(p, o, c)
       /\ state' = IF c.op \in PathOps /\ o # None
                     THEN [state EXCEPT ![o] = InitVal] ELSE state
  /\ exiting' = [exiting EXCEPT ![p] = TRUE]
  /\ phase' = [phase EXCEPT ![p] = IF @ = "enter" THEN "kernel" ELSE "user"]
  /\ UNCHANGED <<files, fds, mem, call, rax, spinning>>

\* At the exit of SYS_clone the child gets a copy of the handles, if bit 10 of
\* rdx is clear (fork passes NULL there, a thread's is a pointer) and if the
\* dispatcher has already seen a stop of the child.
CloneHandles(p) ==
  \/ /\ orig[p] \in {"fork", "thread"}
     /\ reg' = IF rax[p] \in known
                 THEN [reg EXCEPT ![rax[p]] = RegisterMap(@, reg[p])] ELSE reg
  \/ /\ orig[p] # "fork"
     /\ UNCHANGED reg

\* The registration at the exit of an open, by the fd the kernel returned.
RegisterOpened(p) ==
  IF rax[p] \in Fd /\ cur[p] # None
    THEN reg' = [reg EXCEPT ![p] = Register(@, rax[p], cur[p])]
    ELSE UNCHANGED reg

\* Mutant: the result of a set is left as it is.
ExecuteAfterGetOnly(p, o) ==
  LET b == before[o] IN
  /\ rax' = IF b.op = "get" THEN [rax EXCEPT ![p] = "zero"] ELSE rax
  /\ mem' = IF b.op = "get" THEN [mem EXCEPT ![p][b.addr] = state[o]] ELSE mem
  /\ state' = IF b.op = "set" THEN [state EXCEPT ![o] = mem[p][b.addr]] ELSE state

\* The handler answers the call noted in its fields.
ExecuteAfter(p, o) ==
  LET b == before[o] IN
  /\ rax' = IF b.op \in DeviceOps THEN [rax EXCEPT ![p] = "zero"] ELSE rax
  /\ mem' = IF b.op = "get" THEN [mem EXCEPT ![p][b.addr] = state[o]] ELSE mem
  /\ state' = IF b.op = "set" THEN [state EXCEPT ![o] = mem[p][b.addr]] ELSE state

\* A syscall stop while _exiting is true.
HandleExit(p) ==
  /\ spinning
  /\ phase[p] \in {"enter", "exit"} /\ exiting[p]
  /\ GetOrAdd(p)
  /\ IF orig[p] = "open" THEN RegisterOpened(p) ELSE CloneHandles(p)
  /\ cur' = [cur EXCEPT ![p] = IF orig[p] = "open" /\ rax[p] \notin Fd THEN None ELSE @]
  /\ IF cur'[p] = None THEN UNCHANGED <<rax, mem, state>> ELSE ExecuteAfter(p, cur[p])
  /\ exiting' = [exiting EXCEPT ![p] = FALSE]
  /\ phase' = [phase EXCEPT ![p] = IF @ = "enter" THEN "kernel" ELSE "user"]
  /\ UNCHANGED <<files, fds, call, orig, before, spinning>>

\* Any other stop: the process is resumed, a signal is delivered to it.
SkipStop(p) ==
  /\ spinning
  /\ phase[p] \in {"born", "signal", "event"}
  /\ GetOrAdd(p)
  /\ phase' = [phase EXCEPT ![p] = IF @ = "event" THEN "exit" ELSE "user"]
  /\ UNCHANGED <<files, fds, mem, call, orig, rax,
                 spinning, exiting, cur, reg, before, state>>

\* Mutant: the handler of a process that is gone is kept for its pid.
DropKeepsHandler(p) ==
  /\ spinning
  /\ phase[p] = "zombie"
  /\ known' = known \ {p}
  /\ numberOfProcesses' = numberOfProcesses - (IF p \in known THEN 1 ELSE 0)
  /\ phase' = [phase EXCEPT ![p] = "absent"]
  /\ UNCHANGED <<files, fds, mem, call, orig, rax,
                 spinning, exiting, cur, reg, before, state>>

\* p has exited or was killed: GetOrAdd, then Drop.
Drop(p) ==
  /\ spinning
  /\ phase[p] = "zombie"
  /\ known' = known \ {p}
  /\ numberOfProcesses' = numberOfProcesses - (IF p \in known THEN 1 ELSE 0)
  /\ exiting' = [exiting EXCEPT ![p] = FALSE]
  /\ cur' = [cur EXCEPT ![p] = None]
  /\ reg' = [reg EXCEPT ![p] = NoHandles]
  /\ phase' = [phase EXCEPT ![p] = "absent"]
  /\ UNCHANGED <<files, fds, mem, call, orig, rax, spinning, before, state>>

\* Mutant: Spin misses the zero.
StopSpinningBelowZero ==
  /\ spinning
  /\ \A p \in Pid : phase[p] = "absent"
  /\ numberOfProcesses < 0
  /\ spinning' = FALSE
  /\ UNCHANGED <<kernelVars, known, numberOfProcesses, exiting, cur, reg, before, state>>

\* wait4 fails with ECHILD and no process is left.
StopSpinning ==
  /\ spinning
  /\ \A p \in Pid : phase[p] = "absent"
  /\ numberOfProcesses = 0
  /\ spinning' = FALSE
  /\ UNCHANGED <<kernelVars, known, numberOfProcesses, exiting, cur, reg, before, state>>

Environment(p) ==
  \/ MakeCall(p) \/ Signal(p) \/ Die(p)
  \/ KernelOpen(p) \/ KernelClose(p) \/ KernelDup(p) \/ KernelOther(p) \/ KernelClone(p)

Agent(p) == HandleEnter(p) \/ HandleExit(p) \/ SkipStop(p) \/ Drop(p)

Step == StopSpinning \/ \E p \in Pid : Agent(p)

Next == Step \/ \E p \in Pid : Environment(p)

Spec == Init /\ [][Next]_vars

\* wait4 returns as long as there is a status to report; nothing is assumed of
\* the order in which it reports the processes, nor of the tracees.
FairSpec == Spec /\ WF_vars(Step)
-----------------------------------------------------------------------------
(* Properties.                                                             *)

\* _exiting, which SpySyscallEnter and SpySyscallExit toggle and nothing ever
\* resynchronises, tells the two syscall stops of a call apart for every process,
\* whatever signals, clone events and deaths come between them, and for a pid
\* that was used before.
Aligned ==
  \A p \in Pid : Alive(p) => (exiting[p] <=> phase[p] \in {"kernel", "event", "exit"})

\* _numberOfProcesses counts the processes in _runtimeInfo, and these are ones
\* wait4 will still report on: when wait4 fails with ECHILD the count is zero,
\* so that Step neither goes on for ever nor adds a handler for pid -1.
Accounting ==
  /\ known \subseteq {p \in Pid : phase[p] # "absent"}
  /\ numberOfProcesses = Cardinality(known)

\* Between two calls of a process its registry holds exactly the handlers of the
\* devices its descriptors refer to (see the note on Disciplined).
Coherent ==
  \A p \in Pid : phase[p] \in {"user", "signal", "enter"} => reg[p] = HandlesOf(Table(p))

\* A get or set ioctl on a device returns the agent's answer and never the error
\* of the suppressed call; no other call is answered by the agent.
OwnAnswers ==
  \A p \in Pid :
    phase[p] = "user" /\ call[p].op # "none" =>
      IF call[p].op \in DeviceOps /\ Table(p)[call[p].fd] \in Obj
        THEN rax[p] = "zero"
        ELSE rax[p] \notin {"zero", "enosys"}

\* p's parent is still inside the clone that made p.
BeingCloned(p) == \E r \in Pid : rax[r] = p /\ phase[r] \in {"event", "exit"}

\* Once the clone has returned in the parent, the child's registry has a handler
\* for every device its descriptors refer to.
ForkInherits ==
  \A p \in Pid : phase[p] = "user" /\ ~BeingCloned(p) =>
    \A f \in Fd : Table(p)[f] \in Obj => reg[p][f] = Table(p)[f]

\* When all the tracees are gone Spin returns.
SpinReturns == (\A p \in Pid : ~Alive(p)) ~> ~spinning
-----------------------------------------------------------------------------
(* The abstract view: a call that the kernel executed has taken effect when  *)
(* the kernel is done with it, a suppressed one when the agent answers it.   *)

Ready(p) ==
  CASE ~Alive(p) -> "absent"
    [] phase[p] \in {"enter", "kernel"} \/ (phase[p] = "exit" /\ orig[p] = "none") -> "calling"
    [] OTHER -> "ready"

Device == INSTANCE DeviceCalls WITH
  ready <- [p \in Pid |-> Ready(p)],
  rax   <- [p \in Pid |-> IF Ready(p) = "calling" THEN "none" ELSE rax[p]],
  dev   <- [o \in Obj |-> IF \E p \in Pid, f \in Fd : fds[p][f] = o
                            THEN state[o] ELSE InitVal]

\* The split, interleaved handling of calls implements atomic devices.
ImplementsDevices == Device!Spec
=============================================================================
