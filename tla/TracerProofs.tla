---------------------------- MODULE TracerProofs ----------------------------
(***************************************************************************)
(* What holds of Tracer for any set of processes, descriptors, names,      *)
(* handlers and calls: for all tracees the types, the stops and the counts *)
(* of the agent; for disciplined tracees the registry, the answers and     *)
(* that Tracer implements DeviceCalls.                                     *)
(***************************************************************************)
EXTENDS TracerInv, TLAPS, FiniteSetTheorems
-----------------------------------------------------------------------------
(* Every tracee.                                                           *)

\* The initial values have their types.
LEMMA TypeInit == Init => TypeOK
BY TracerAssumption DEF Init, TypeOK, Phase, Entry, NoFiles, NoHandles, NoCall,
   Result, Ticket, AllOps, DeviceOps, PathOps, FdOps, CloneOps

\* Every step keeps every variable in its type.
LEMMA TypeStep == TypeOK /\ [Next]_vars => TypeOK'
<1> SUFFICES ASSUME TypeOK, [Next]_vars PROVE TypeOK'
  OBVIOUS
<1> USE TracerAssumption DEF TypeOK
<1>1. ASSUME NEW p \in Pid, MakeCall(p) PROVE TypeOK'
  <2>1. PICK c \in Calls :
          /\ call' = [call EXCEPT ![p] = c]
          /\ orig' = [orig EXCEPT ![p] = c.op]
          /\ IF c.op = "set"
               THEN \E v \in Val : mem' = [mem EXCEPT ![p][c.addr] = v]
               ELSE UNCHANGED mem
    BY <1>1 DEF MakeCall
  <2>2. /\ c.op \in AllOps
        /\ c.op = "set" => c.addr \in Addr
    BY DEF Calls, Call, AllOps, DeviceOps
  <2>3. mem' \in [Pid -> [Addr -> Val]]
    <3>1. CASE c.op = "set"
      <4>1. PICK v \in Val : mem' = [mem EXCEPT ![p][c.addr] = v]
        BY <2>1, <3>1
      <4> QED
        BY <4>1
    <3> QED
      BY <2>1, <3>1
  <2>4. /\ call' \in [Pid -> Calls \cup {NoCall}]
        /\ \A q \in Pid : orig'[q] \in {call'[q].op, "none"}
        /\ orig' \in [Pid -> AllOps \cup {"none"}]
    BY <2>1, <2>2
  <2> QED
    BY <1>1, <2>3, <2>4 DEF MakeCall, agentVars, Phase, Result
<1>2. ASSUME NEW p \in Pid, Signal(p) PROVE TypeOK'
  BY <1>2 DEF Signal, agentVars, Phase
<1>3. ASSUME NEW p \in Pid, Die(p) PROVE TypeOK'
  BY <1>3 DEF Die, agentVars, Phase, NoFiles, NoCall, Result, Entry
<1>4. ASSUME NEW p \in Pid, KernelOpen(p) PROVE TypeOK'
  <2>1. PICK r \in Fd \cup {"fail"} : Finish(p, r)
    BY <1>4 DEF KernelOpen
  <2>2. fds' \in [Pid -> [Fd -> Entry]]
    <3>1. CASE UNCHANGED fds
      BY <3>1
    <3>2. ASSUME NEW f \in Fd,
                 fds' = [fds EXCEPT ![files[p]][f] = IF cur[p] = None THEN "plain" ELSE cur[p]]
          PROVE  fds' \in [Pid -> [Fd -> Entry]]
      BY <3>2 DEF Entry
    <3> QED
      BY <1>4, <3>1, <3>2 DEF KernelOpen
  <2> QED
    BY <2>1, <2>2 DEF Finish, agentVars, Phase, Result
<1>5. ASSUME NEW p \in Pid, KernelClose(p) PROVE TypeOK'
  BY <1>5 DEF KernelClose, Finish, agentVars, Phase, Result, Entry
<1>6. ASSUME NEW p \in Pid, KernelDup(p) PROVE TypeOK'
  <2>1. PICK f \in Fd :
          /\ Table(p)[call[p].fd] # "closed"
          /\ fds' = [fds EXCEPT ![files[p]][f] = Table(p)[call[p].fd]]
          /\ Finish(p, f)
    BY <1>6 DEF KernelDup
  <2>2. call[p].fd \in Fd
    <3>1. call[p].op = "dup"
      BY <1>6 DEF KernelDup
    <3>2. call[p] \in Calls
      BY <3>1, NoCall.op = "none" DEF NoCall
    <3> QED
      BY <3>1, <3>2 DEF Calls, Call
  <2>3. Table(p)[call[p].fd] \in Entry
    BY <2>2 DEF Table
  <2>4. fds' \in [Pid -> [Fd -> Entry]]
    BY <2>1, <2>3
  <2> QED
    BY <2>1, <2>4 DEF Finish, agentVars, Phase, Result
<1>7. ASSUME NEW p \in Pid, KernelOther(p) PROVE TypeOK'
  BY <1>7 DEF KernelOther, Finish, agentVars, Phase, Result
<1>8. ASSUME NEW p \in Pid, KernelClone(p) PROVE TypeOK'
  <2>1. CASE Finish(p, "fail") /\ UNCHANGED fds
    BY <1>8, <2>1 DEF Finish, agentVars, Phase, Result
  <2>2. ASSUME NEW q \in Pid,
               phase' = [phase EXCEPT ![p] = "event", ![q] = "born"],
               files' = [files EXCEPT ![q] = IF orig[p] = "thread" THEN files[p] ELSE q],
               fds' = IF orig[p] = "thread" THEN fds ELSE [fds EXCEPT ![q] = Table(p)],
               mem' = [mem EXCEPT ![q] = mem[p]],
               rax' = [rax EXCEPT ![p] = q],
               UNCHANGED <<call, orig, agentVars>>
        PROVE TypeOK'
    <3>1. phase' \in [Pid -> Phase] /\ rax' \in [Pid -> Result]
      BY <2>2 DEF Phase, Result
    <3>2. files' \in [Pid -> Pid] /\ mem' \in [Pid -> [Addr -> Val]]
      BY <2>2
    <3>3. fds' \in [Pid -> [Fd -> Entry]]
      BY <2>2 DEF Table
    <3> QED
      BY <2>2, <3>1, <3>2, <3>3 DEF agentVars
  <2> QED
    BY <1>8, <2>1, <2>2 DEF KernelClone
<1>9. ASSUME NEW p \in Pid, HandleEnter(p) PROVE TypeOK'
  <2> DEFINE c == [call[p] EXCEPT !.op = orig[p]]
  <2>1. PICK o \in Lookup(p, c) :
          /\ cur' = [cur EXCEPT ![p] = o]
          /\ reg' = [reg EXCEPT ![p] = IF c.op = "close" THEN Unregister(@, c.fd) ELSE @]
          /\ IF o = None THEN UNCHANGED <<before, orig>> ELSE ExecuteBefore(p, o, c)
          /\ state' = IF c.op \in PathOps /\ o # None
                        THEN [state EXCEPT ![o] = InitVal] ELSE state
    BY <1>9 DEF HandleEnter
  <2>2. call[p] \in Call /\ orig[p] \in AllOps \cup {"none"}
    BY DEF Calls, Call, NoCall
  <2>3. /\ c \in Call /\ c.op = orig[p] /\ c.fd = call[p].fd /\ c.addr = call[p].addr
    BY <2>2 DEF Call
  <2>4. /\ c.op \in FdOps => c.fd \in Fd
        /\ c.op \in DeviceOps => c.addr \in Addr
        /\ c.op \in AllOps \ DeviceOps => c.addr = None
    BY <2>3 DEF Calls, Call, NoCall, AllOps, FdOps, DeviceOps, PathOps, CloneOps
  <2> HIDE DEF c
  <2>5. o \in Obj \cup {None} /\ (o # None => c.op \in PathOps \cup FdOps)
    BY <2>1, <2>4 DEF Lookup, FreeObj
  <2>6. o # None => [op |-> c.op, addr |-> c.addr] \in Ticket
    BY <2>4, <2>5 DEF Ticket, AllOps, FdOps, DeviceOps, PathOps, CloneOps
  <2>7. before' \in [Obj -> Ticket]
    <3>1. before' = before \/ (o # None /\ before' = [before EXCEPT ![o] = [op |-> c.op, addr |-> c.addr]])
      BY <2>1 DEF ExecuteBefore
    <3>2. before \in [Obj -> Ticket]
      OBVIOUS
    <3> HIDE DEF TypeOK
    <3> QED
      BY <2>5, <2>6, <3>1, <3>2
  <2>8. /\ orig' \in [Pid -> AllOps \cup {"none"}]
        /\ \A q \in Pid : orig'[q] \in {call[q].op, "none"}
    <3>1. orig' = orig \/ orig' = [orig EXCEPT ![p] = IF c.op \in DeviceOps THEN "none" ELSE @]
      BY <2>1 DEF ExecuteBefore
    <3> QED
      BY <3>1, ZenonT(60)
  <2>9. reg' \in [Pid -> [Fd -> Obj \cup {None}]]
    <3>1. Unregister(reg[p], c.fd) \in [Fd -> Obj \cup {None}]
      BY DEF Unregister
    <3> QED
      BY <2>1, <3>1
  <2>10. cur' \in [Pid -> Obj \cup {None}] /\ state' \in [Obj -> Val]
    BY <2>1, <2>5
  <2>11. /\ known' \subseteq Pid /\ numberOfProcesses' \in Int
         /\ exiting' \in [Pid -> BOOLEAN] /\ phase' \in [Pid -> Phase]
         /\ UNCHANGED <<files, fds, mem, call, rax, spinning>>
    BY <1>9 DEF HandleEnter, GetOrAdd, Phase
  <2> QED
    BY <2>7, <2>8, <2>9, <2>10, <2>11
<1>10. ASSUME NEW p \in Pid, HandleExit(p) PROVE TypeOK'
  <2>1. reg' \in [Pid -> [Fd -> Obj \cup {None}]]
    <3>1. CASE RegisterOpened(p)
      <4>1. CASE rax[p] \in Fd /\ cur[p] # None
        <5>1. reg' = [reg EXCEPT ![p] = [reg[p] EXCEPT ![rax[p]] = cur[p]]]
          BY <3>1, <4>1 DEF RegisterOpened, Register
        <5> QED
          BY <4>1, <5>1
      <4> QED
        BY <3>1, <4>1 DEF RegisterOpened
    <3>2. CASE CloneHandles(p)
      <4>1. CASE rax[p] \in known /\ reg' # reg
        <5> DEFINE merged == [f \in Fd |-> IF reg[rax[p]][f] # None
                                            THEN reg[rax[p]][f] ELSE reg[p][f]]
        <5>1. reg' = [reg EXCEPT ![rax[p]] = merged]
          BY <3>2, <4>1 DEF CloneHandles, RegisterMap
        <5>2. merged \in [Fd -> Obj \cup {None}]
          BY <4>1
        <5> QED
          BY <4>1, <5>1, <5>2
      <4> QED
        BY <3>2, <4>1 DEF CloneHandles
    <3> QED
      BY <1>10, <3>1, <3>2 DEF HandleExit
  <2>2. cur' = [cur EXCEPT ![p] = IF orig[p] = "open" /\ rax[p] \notin Fd THEN None ELSE @]
    BY <1>10 DEF HandleExit
  <2>3. rax' \in [Pid -> Result] /\ mem' \in [Pid -> [Addr -> Val]] /\ state' \in [Obj -> Val]
    <3>1. CASE cur'[p] = None
      BY <1>10, <3>1 DEF HandleExit
    <3>2. CASE cur'[p] # None
      <4>1. cur[p] \in Obj /\ ExecuteAfter(p, cur[p])
        BY <1>10, <2>2, <3>2 DEF HandleExit
      <4>2. before[cur[p]].op \in DeviceOps => before[cur[p]].addr \in Addr
        BY <4>1 DEF Ticket
      <4> QED
        BY <4>1, <4>2 DEF ExecuteAfter, Result, DeviceOps
    <3> QED
      BY <3>1, <3>2
  <2>4. /\ known' \subseteq Pid /\ numberOfProcesses' \in Int
        /\ exiting' \in [Pid -> BOOLEAN] /\ phase' \in [Pid -> Phase]
        /\ cur' \in [Pid -> Obj \cup {None}]
        /\ UNCHANGED <<files, fds, call, orig, before, spinning>>
    BY <1>10 DEF HandleExit, GetOrAdd, Phase
  <2> QED
    BY <2>1, <2>3, <2>4
<1>11. ASSUME NEW p \in Pid, SkipStop(p) PROVE TypeOK'
  BY <1>11 DEF SkipStop, GetOrAdd, Phase
<1>12. ASSUME NEW p \in Pid, Drop(p) PROVE TypeOK'
  BY <1>12 DEF Drop, Phase, NoHandles
<1>13. CASE StopSpinning
  BY <1>13 DEF StopSpinning, kernelVars
<1>14. CASE UNCHANGED vars
  BY <1>14 DEF vars, kernelVars, agentVars
<1> QED
  BY <1>1, <1>2, <1>3, <1>4, <1>5, <1>6, <1>7, <1>8, <1>9, <1>10, <1>11, <1>12, <1>13, <1>14
  DEF Next, Step, Agent, Environment

\* The type invariant is an invariant of the agent and its environment.
THEOREM TypeCorrect == Spec => []TypeOK
<1>1. Init => TypeOK
  BY TypeInit
<1>2. TypeOK /\ [Next]_vars => TypeOK'
  BY TypeStep
<1> QED
  BY <1>1, <1>2, PTL DEF Spec
-----------------------------------------------------------------------------
\* Every step keeps the toggle in step with the phase of the call.
LEMMA InStepStep == TypeOK /\ InStep /\ [Next]_vars => InStep'
<1> SUFFICES ASSUME TypeOK, InStep, [Next]_vars PROVE InStep'
  OBVIOUS
<1> USE DEF InStep
<1>0. phase \in [Pid -> Phase] /\ exiting \in [Pid -> BOOLEAN]
  BY DEF TypeOK
<1>1. ASSUME NEW p \in Pid, MakeCall(p) PROVE InStep'
  BY <1>0, <1>1 DEF MakeCall, agentVars
<1>2. ASSUME NEW p \in Pid, Signal(p) PROVE InStep'
  BY <1>0, <1>2 DEF Signal, agentVars
<1>3. ASSUME NEW p \in Pid, Die(p) PROVE InStep'
  BY <1>0, <1>3 DEF Die, agentVars
<1>4. ASSUME NEW p \in Pid, NEW r, phase[p] = "kernel", Finish(p, r) PROVE InStep'
  BY <1>0, <1>4 DEF Finish, agentVars
<1>5. ASSUME NEW p \in Pid, KernelClone(p) PROVE InStep'
  BY <1>0, <1>4, <1>5 DEF KernelClone, agentVars
<1>6. ASSUME NEW p \in Pid, HandleEnter(p) PROVE InStep'
  BY <1>0, <1>6 DEF HandleEnter
<1>7. ASSUME NEW p \in Pid, HandleExit(p) PROVE InStep'
  BY <1>0, <1>7 DEF HandleExit
<1>8. ASSUME NEW p \in Pid, SkipStop(p) PROVE InStep'
  BY <1>0, <1>8 DEF SkipStop
<1>9. ASSUME NEW p \in Pid, Drop(p) PROVE InStep'
  BY <1>0, <1>9 DEF Drop
<1>10. CASE StopSpinning
  BY <1>10 DEF StopSpinning, kernelVars
<1>11. CASE UNCHANGED vars
  BY <1>11 DEF vars, kernelVars, agentVars
<1>12. ASSUME NEW p \in Pid,
              KernelOpen(p) \/ KernelClose(p) \/ KernelDup(p) \/ KernelOther(p)
       PROVE InStep'
  BY <1>4, <1>12 DEF KernelOpen, KernelClose, KernelDup, KernelOther
<1> QED
  BY <1>1, <1>2, <1>3, <1>5, <1>6, <1>7, <1>8, <1>9, <1>10, <1>11, <1>12
  DEF Next, Step, Agent, Environment

\* Each syscall stop is taken for what it is: _exiting is never out of step.
THEOREM Alignment == Spec => []Aligned
<1>1. Init => InStep
  BY DEF Init, InStep
<1>2. TypeOK /\ InStep /\ [Next]_vars => InStep'
  BY InStepStep
<1>3. TypeOK /\ InStep => Aligned
  BY DEF TypeOK, InStep, Aligned, Alive, Phase
<1> QED
  BY <1>1, <1>2, <1>3, TypeCorrect, PTL DEF Spec

\* The agent's count and map of tracees agree and name live or unreaped ones.
THEOREM Counts == Spec => []Accounting
<1>1. Init => Counted
  BY FS_EmptySet DEF Init, Counted, Accounting
<1>2. TypeOK /\ Counted /\ [Next]_vars => Counted'
  <2> SUFFICES ASSUME TypeOK, Counted, [Next]_vars PROVE Counted'
    OBVIOUS
  <2> USE DEF Counted, Accounting
  <2>0. phase \in [Pid -> Phase] /\ known \subseteq Pid /\ numberOfProcesses \in Int
    BY DEF TypeOK
  <2>1. ASSUME UNCHANGED <<known, numberOfProcesses>>,
               \A q \in Pid : phase[q] # "absent" => phase'[q] # "absent"
        PROVE Counted'
    BY <2>0, <2>1
  <2>2. ASSUME NEW p \in Pid, Environment(p) PROVE Counted'
    <3>1. UNCHANGED <<known, numberOfProcesses>>
      BY <2>2 DEF Environment, MakeCall, Signal, Die, KernelOpen, KernelClose, KernelDup,
         KernelOther, KernelClone, Finish, agentVars
    <3>2. \A q \in Pid : phase[q] # "absent" => phase'[q] # "absent"
      BY <2>0, <2>2 DEF Environment, MakeCall, Signal, Die, KernelOpen, KernelClose,
         KernelDup, KernelOther, KernelClone, Finish
    <3> QED
      BY <2>1, <3>1, <3>2
  <2>3. ASSUME NEW p \in Pid, GetOrAdd(p), phase[p] # "absent", phase'[p] # "absent",
               \A q \in Pid : q # p => phase'[q] = phase[q]
        PROVE Counted'
    <3>1. /\ IsFiniteSet(known')
          /\ Cardinality(known') = Cardinality(known) + (IF p \in known THEN 0 ELSE 1)
      BY <2>0, <2>3, FS_AddElement DEF GetOrAdd
    <3> QED
      BY <2>0, <2>3, <3>1 DEF GetOrAdd
  <2>4. ASSUME NEW p \in Pid, HandleEnter(p) \/ HandleExit(p) \/ SkipStop(p) PROVE Counted'
    BY <2>0, <2>3, <2>4 DEF HandleEnter, HandleExit, SkipStop
  <2>5. ASSUME NEW p \in Pid, Drop(p) PROVE Counted'
    <3>1. /\ IsFiniteSet(known')
          /\ Cardinality(known') = Cardinality(known) - (IF p \in known THEN 1 ELSE 0)
      BY <2>0, <2>5, FS_RemoveElement DEF Drop
    <3> QED
      BY <2>0, <2>5, <3>1 DEF Drop
  <2>6. CASE StopSpinning
    BY <2>1, <2>6 DEF StopSpinning, kernelVars
  <2>7. CASE UNCHANGED vars
    BY <2>1, <2>7 DEF vars, kernelVars, agentVars
  <2> QED
    BY <2>2, <2>4, <2>5, <2>6, <2>7 DEF Next, Step, Agent
<1> QED
  BY <1>1, <1>2, TypeCorrect, PTL DEF Spec, Counted
-----------------------------------------------------------------------------
(* Disciplined tracees: the registry agrees with the descriptor tables and *)
(* every device call is answered by its own handler.                       *)

DParts == OwnTables /\ ClonesClean /\ Follows /\ Unshared /\ InCharge /\ Answered

\* What the assumptions say about disciplined tracees.
LEMMA DisciplinedCalls ==
  ASSUME Disciplined, NEW c \in Calls
  PROVE  /\ c.op \in AllOps \ {"dup", "thread"} /\ c.op # "none"
         /\ c.op \in FdOps \cup {"close"} => c.fd \in Fd
         /\ c.op \in DeviceOps => c.addr \in Addr
BY TracerAssumption DEF Calls, Call, AllOps, PathOps, FdOps, DeviceOps, CloneOps

\* p is at the phase, and with the call, DInv says it is.
LEMMA CallInProgress ==
  ASSUME Disciplined, DInv, NEW p \in Pid, phase[p] = "enter" \/ InCall(p)
  PROVE  /\ call[p] \in Calls
         /\ call[p].op \in AllOps \ {"dup", "thread"} /\ call[p].op # "none"
         /\ call[p].op \in FdOps \cup {"close"} => call[p].fd \in Fd
         /\ orig[p] \notin {"dup", "thread"}
         /\ orig[p] # "none" => orig[p] = call[p].op
         /\ Table(p) = fds[p]
BY DisciplinedCalls DEF DInv, InCharge, InCall, OwnTables, Table, TypeOK

LEMMA MakeCallKeeps ==
  ASSUME Disciplined, DInv, NEW p \in Pid, MakeCall(p)
  PROVE  DParts'
<1>0. TypeOK
  BY DEF DInv
<1>1. PICK c \in Calls :
        /\ c.op \in CloneOps => \A f \in Fd : fds[p][f] \notin Obj
        /\ call' = [call EXCEPT ![p] = c]
        /\ orig' = [orig EXCEPT ![p] = c.op]
  BY DEF MakeCall, DInv, OwnTables, Table
<1>2. /\ phase[p] = "user"
      /\ phase' = [phase EXCEPT ![p] = "enter"]
      /\ rax' = [rax EXCEPT ![p] = "none"]
      /\ UNCHANGED <<files, fds, agentVars>>
  BY DEF MakeCall
<1> USE <1>0, <1>1, <1>2 DEF TypeOK, DInv, agentVars
<1>3. OwnTables'
  BY DEF OwnTables, Alive
<1>4. ClonesClean'
  BY DEF ClonesClean, InCall
<1>5. Follows'
  BY DEF Follows, Alive, Closing, Opening, HandlesOf
<1>6. Unshared'
  BY DEF Unshared, Holds
<1>7. InCharge'
  BY DEF InCharge, InCall
<1>8. Answered'
  BY DEF Answered
<1> QED
  BY <1>3, <1>4, <1>5, <1>6, <1>7, <1>8 DEF DParts

LEMMA SignalKeeps ==
  ASSUME Disciplined, DInv, NEW p \in Pid, Signal(p)
  PROVE  DParts'
<1> USE DEF DInv, Signal, agentVars
<1>0. phase \in [Pid -> Phase] 
  BY DEF TypeOK
<1>1. OwnTables'
  BY <1>0 DEF OwnTables, Alive
<1>2. ClonesClean'
  BY <1>0 DEF ClonesClean, InCall
<1>3. Follows'
  BY <1>0 DEF Follows, Alive, Closing, Opening, HandlesOf
<1>4. Unshared'
  BY DEF Unshared, Holds
<1>5. InCharge'
  BY <1>0 DEF InCharge, InCall
<1>6. Answered'
  BY <1>0 DEF Answered
<1> QED
  BY <1>1, <1>2, <1>3, <1>4, <1>5, <1>6 DEF DParts

LEMMA DieKeeps ==
  ASSUME Disciplined, DInv, NEW p \in Pid, Die(p)
  PROVE  DParts'
<1>0. TypeOK
  BY DEF DInv
<1>1. /\ phase' = [phase EXCEPT ![p] = "zombie"]
      /\ files' = [files EXCEPT ![p] = p]
      /\ fds' = [fds EXCEPT ![p] = NoFiles]
      /\ call' = [call EXCEPT ![p] = NoCall]
      /\ orig' = [orig EXCEPT ![p] = "none"]
      /\ rax' = [rax EXCEPT ![p] = "none"]
      /\ UNCHANGED agentVars
  BY DEF Die, DInv, OwnTables
<1> USE <1>0, <1>1 DEF TypeOK, DInv, agentVars
<1>2. OwnTables'
  BY DEF OwnTables, Alive
<1>3. ClonesClean'
  BY DEF ClonesClean, InCall
<1>4. Follows'
  BY DEF Follows, Alive, Closing, Opening, HandlesOf
<1>5. Unshared'
  BY TracerAssumption DEF Unshared, Holds, NoFiles
<1>6. InCharge'
  BY DEF InCharge, InCall
<1>7. Answered'
  BY DEF Answered
<1> QED
  BY <1>2, <1>3, <1>4, <1>5, <1>6, <1>7 DEF DParts

LEMMA KernelOpenKeeps ==
  ASSUME Disciplined, DInv, NEW p \in Pid, KernelOpen(p)
  PROVE  DParts'
<1>0. TypeOK /\ phase[p] = "kernel" /\ call[p].op = "open" /\ Table(p) = fds[p] /\ files[p] = p
  BY CallInProgress DEF KernelOpen, InCall, DInv, OwnTables
<1>1. PICK r \in Fd \cup {"fail"} :
        /\ phase' = [phase EXCEPT ![p] = "exit"]
        /\ rax' = [rax EXCEPT ![p] = r]
        /\ UNCHANGED <<files, mem, call, orig, agentVars>>
        /\ r = "fail" => UNCHANGED fds
        /\ r \in Fd => /\ fds[p][r] = "closed"
                       /\ fds' = [fds EXCEPT ![p][r] = IF cur[p] = None THEN "plain" ELSE cur[p]]
  BY <1>0, TracerAssumption DEF KernelOpen, Finish
<1> USE TracerAssumption, <1>0, <1>1 DEF TypeOK, DInv, agentVars
<1>2. OwnTables'
  BY DEF OwnTables, Alive
<1>3. ClonesClean'
  BY DEF ClonesClean, InCall, CloneOps
<1>4. Follows'
  BY DEF Follows, Alive, Closing, Opening, HandlesOf
<1>5. Unshared'
  <2>1. ASSUME NEW q \in Pid, NEW o \in Obj, Holds(q, o)' PROVE Holds(q, o)
    <3>1. CASE cur[q] = o \/ \E f \in Fd : reg[q][f] = o
      BY <3>1 DEF Holds
    <3>2. ASSUME NEW f \in Fd, fds'[q][f] = o PROVE cur[q] = o \/ fds[q][f] = o
      <4>1. CASE q = p /\ f = r
        <5>1. fds'[p][r] = IF cur[p] = None THEN "plain" ELSE cur[p]
          BY <4>1
        <5> QED
          BY <3>2, <4>1, <5>1
      <4>2. CASE q # p \/ f # r
        BY <3>2, <4>2
      <4> QED
        BY <4>1, <4>2
    <3> QED
      BY <2>1, <3>1, <3>2 DEF Holds
  <2> QED
    BY <2>1 DEF Unshared
<1>6. InCharge'
  BY DEF InCharge, InCall, FdOps, PathOps, DeviceOps
<1>7. Answered'
  BY DEF Answered
<1> QED
  BY <1>2, <1>3, <1>4, <1>5, <1>6, <1>7 DEF DParts

LEMMA KernelCloseKeeps ==
  ASSUME Disciplined, DInv, NEW p \in Pid, KernelClose(p)
  PROVE  DParts'
<1>0. TypeOK /\ phase[p] = "kernel" /\ call[p].op = "close" /\ call[p].fd \in Fd /\ files[p] = p
  BY CallInProgress DEF KernelClose, InCall, DInv, OwnTables
<1>1. /\ phase' = [phase EXCEPT ![p] = "exit"]
      /\ rax' = [rax EXCEPT ![p] = "kernel"]
      /\ UNCHANGED <<files, mem, call, orig, agentVars>>
      /\ fds' = [fds EXCEPT ![p][call[p].fd] = "closed"]
  BY <1>0 DEF KernelClose, Finish
<1> USE TracerAssumption, <1>0, <1>1 DEF TypeOK, DInv, agentVars
<1>2. OwnTables'
  BY DEF OwnTables, Alive
<1>3. ClonesClean'
  BY DEF ClonesClean, InCall
<1>4. Follows'
  BY DEF Follows, Alive, Closing, Opening, HandlesOf
<1>5. Unshared'
  BY DEF Unshared, Holds
<1>6. InCharge'
  BY DEF InCharge, InCall, FdOps, PathOps, DeviceOps
<1>7. Answered'
  BY DEF Answered
<1> QED
  BY <1>2, <1>3, <1>4, <1>5, <1>6, <1>7 DEF DParts

LEMMA KernelOtherKeeps ==
  ASSUME Disciplined, DInv, NEW p \in Pid, KernelOther(p)
  PROVE  DParts'
<1>0. TypeOK /\ phase[p] = "kernel" /\ call[p].op \in FdOps \cup {"stat"}
  BY CallInProgress DEF KernelOther, InCall, DInv, InCharge, FdOps
<1>1. /\ phase' = [phase EXCEPT ![p] = "exit"]
      /\ rax' = [rax EXCEPT ![p] = IF orig[p] = "none" THEN "enosys" ELSE "kernel"]
      /\ UNCHANGED <<files, mem, call, orig, fds, agentVars>>
  BY <1>0 DEF KernelOther, Finish
<1> USE TracerAssumption, <1>0, <1>1 DEF TypeOK, DInv, agentVars, FdOps, DeviceOps, CloneOps
<1>2. OwnTables'
  BY DEF OwnTables, Alive
<1>3. ClonesClean'
  BY DEF ClonesClean, InCall
<1>4. Follows'
  BY DEF Follows, Alive, Closing, Opening, HandlesOf
<1>5. Unshared'
  BY DEF Unshared, Holds
<1>6. InCharge'
  BY DEF InCharge, InCall
<1>7. Answered'
  BY DEF Answered
<1> QED
  BY <1>2, <1>3, <1>4, <1>5, <1>6, <1>7 DEF DParts

LEMMA KernelCloneKeeps ==
  ASSUME Disciplined, DInv, NEW p \in Pid, KernelClone(p)
  PROVE  DParts'
<1>0. /\ TypeOK /\ phase[p] = "kernel" /\ call[p].op \in CloneOps /\ orig[p] = call[p].op
      /\ Table(p) = fds[p] /\ orig[p] # "thread"
  BY CallInProgress DEF KernelClone, InCall, DInv, CloneOps
<1> USE TracerAssumption, <1>0 DEF TypeOK, DInv, agentVars, FdOps, DeviceOps, CloneOps
<1>1. CASE Finish(p, "fail") /\ UNCHANGED fds
  <2> USE <1>1 DEF Finish
  <2>1. OwnTables'
    BY DEF OwnTables, Alive
  <2>2. ClonesClean'
    BY DEF ClonesClean, InCall
  <2>3. Follows'
    BY DEF Follows, Alive, Closing, Opening, HandlesOf
  <2>4. Unshared'
    BY DEF Unshared, Holds
  <2>5. InCharge'
    BY DEF InCharge, InCall
  <2>6. Answered'
    BY DEF Answered
  <2> QED
    BY <2>1, <2>2, <2>3, <2>4, <2>5, <2>6 DEF DParts
<1>2. ASSUME NEW q \in Pid, phase[q] = "absent",
             phase' = [phase EXCEPT ![p] = "event", ![q] = "born"],
             files' = [files EXCEPT ![q] = q],
             fds' = [fds EXCEPT ![q] = fds[p]],
             rax' = [rax EXCEPT ![p] = q],
             UNCHANGED <<call, orig, agentVars>>
      PROVE  DParts'
  <2> USE <1>2
  <2>1. OwnTables'
    BY DEF OwnTables, Alive
  <2>2. ClonesClean'
    BY DEF ClonesClean, InCall
  <2>3. Follows'
    <3>1. q # p /\ reg[q] = NoHandles /\ \A f \in Fd : fds[p][f] \notin Obj
      BY <1>2 DEF OwnTables, ClonesClean, InCall
    <3> QED
      BY <3>1 DEF Follows, Alive, Closing, Opening, HandlesOf, NoHandles
  <2>4. Unshared'
    <3>1. /\ q # p /\ reg[q] = NoHandles /\ cur[q] = None
          /\ \A f \in Fd : fds[p][f] \notin Obj
      BY <1>2 DEF OwnTables, ClonesClean, InCall
    <3>2. \A r \in Pid, o \in Obj : Holds(r, o)' => Holds(r, o)
      BY <3>1 DEF Holds, NoHandles
    <3> QED
      BY <3>2 DEF Unshared
  <2>5. InCharge'
    BY DEF InCharge, InCall
  <2>6. Answered'
    BY DEF Answered
  <2> QED
    BY <2>1, <2>2, <2>3, <2>4, <2>5, <2>6 DEF DParts
<1> QED
  BY <1>1, <1>2 DEF KernelClone

LEMMA HandleEnterKeeps ==
  ASSUME Disciplined, DInv, NEW p \in Pid, HandleEnter(p)
  PROVE  DParts'
<1>0. /\ TypeOK /\ phase[p] = "enter" /\ orig[p] = call[p].op
      /\ phase' = [phase EXCEPT ![p] = "kernel"]
      /\ UNCHANGED <<files, fds, mem, call, rax>>
  BY DEF HandleEnter, DInv, InStep, InCharge, TypeOK
<1>1. /\ call[p] \in Calls
      /\ call[p].op \in AllOps \ {"dup", "thread"} /\ call[p].op # "none"
      /\ call[p].op \in FdOps \cup {"close"} => call[p].fd \in Fd
  BY <1>0, CallInProgress
<1>2. [call[p] EXCEPT !.op = orig[p]] = call[p]
  BY <1>0, <1>1 DEF Calls, Call
<1>3. PICK o \in Lookup(p, call[p]) :
        /\ cur' = [cur EXCEPT ![p] = o]
        /\ reg' = [reg EXCEPT ![p] = IF call[p].op = "close"
                                       THEN Unregister(reg[p], call[p].fd) ELSE reg[p]]
        /\ IF o = None THEN UNCHANGED <<before, orig>> ELSE ExecuteBefore(p, o, call[p])
  BY <1>2 DEF HandleEnter
<1>4. /\ o \in Obj \cup {None}
      /\ o # None => call[p].op \in PathOps \cup FdOps
      /\ call[p].op \in FdOps => o = reg[p][call[p].fd]
      /\ call[p].op \in PathOps /\ o # None => o \in FreeObj(p)
      /\ call[p].op \notin PathOps \cup FdOps => o = None
  BY <1>0, <1>1, <1>3 DEF Lookup, FreeObj, PathOps, FdOps, DeviceOps, TypeOK
\* Nobody else holds the handler this call gets.
<1>5. ASSUME o # None, NEW q \in Pid, Holds(q, o) PROVE q = p
  <2>1. CASE call[p].op \in PathOps
    BY <1>4, <1>5, <2>1 DEF FreeObj, Holds
  <2>2. CASE call[p].op \in FdOps
    BY <1>1, <1>4, <1>5, <2>2 DEF Unshared, Holds, DInv
  <2> QED
    BY <1>4, <1>5, <2>1, <2>2
<1>6. reg' = [reg EXCEPT ![p] = IF call[p].op = "close"
                                  THEN [reg[p] EXCEPT ![call[p].fd] = None] ELSE reg[p]]
  BY <1>3 DEF Unregister
<1>7. /\ before' = IF o = None THEN before
                   ELSE [before EXCEPT ![o] = [op |-> call[p].op, addr |-> call[p].addr]]
      /\ orig' = [orig EXCEPT ![p] = IF o # None /\ call[p].op \in DeviceOps
                                       THEN "none" ELSE call[p].op]
  BY <1>0, <1>3 DEF ExecuteBefore, TypeOK
<1> USE TracerAssumption, <1>0, <1>1, <1>3, <1>4, <1>6, <1>7 DEF TypeOK, DInv
<1>8. OwnTables'
  BY DEF OwnTables, Alive
<1>9. ClonesClean'
  BY DEF ClonesClean, InCall
<1>10. Follows'
  BY DEF Follows, Alive, Closing, Opening, HandlesOf
<1>11. Unshared'
  <2>1. \A q \in Pid, x \in Obj : Holds(q, x)' => Holds(q, x) \/ (q = p /\ x = o)
    BY DEF Holds
  <2>2. ASSUME NEW q \in Pid, NEW r \in Pid, NEW x \in Obj, Holds(q, x)', Holds(r, x)'
        PROVE  q = r
    <3>1. CASE x = o
      <4>1. o # None
        BY <3>1
      <4>2. q = p /\ r = p
        BY <1>5, <2>1, <2>2, <3>1, <4>1
      <4> QED
        BY <4>2
    <3>2. CASE x # o
      BY <2>1, <2>2, <3>2 DEF Unshared
    <3> QED
      BY <3>1, <3>2
  <2> QED
    BY <2>2 DEF Unshared
<1>12. InCharge'
  <2>1. ASSUME NEW q \in Pid, q # p, cur[q] # None PROVE before'[cur[q]] = before[cur[q]]
    BY <1>5, <2>1 DEF Holds
  <2>2. o # None => before'[o] = [op |-> call[p].op, addr |-> call[p].addr]
    OBVIOUS
  <2>3. call[p].op \in FdOps => o = reg'[p][call[p].fd]
    BY DEF FdOps, DeviceOps
  <2> QED
    BY <2>1, <2>2, <2>3 DEF InCharge, InCall
<1>13. Answered'
  <2> SUFFICES ASSUME NEW q \in Pid, phase'[q] \in {"user", "signal"}
               PROVE  phase[q] = phase'[q]
    BY DEF Answered
  <2> QED
    OBVIOUS
<1> QED
  BY <1>8, <1>9, <1>10, <1>11, <1>12, <1>13 DEF DParts

LEMMA HandleExitKeeps ==
  ASSUME Disciplined, DInv, NEW p \in Pid, HandleExit(p)
  PROVE  DParts'
<1>0. /\ TypeOK /\ phase[p] = "exit"
      /\ phase' = [phase EXCEPT ![p] = "user"]
      /\ cur' = [cur EXCEPT ![p] = IF orig[p] = "open" /\ rax[p] \notin Fd THEN None ELSE @]
      /\ UNCHANGED <<files, fds, call, orig, before>>
  BY DEF HandleExit, DInv, InStep, TypeOK
<1>1. /\ call[p] \in Calls
      /\ call[p].op \in AllOps \ {"dup", "thread"} /\ call[p].op # "none"
      /\ call[p].op \in FdOps \cup {"close"} => call[p].fd \in Fd
      /\ call[p].op = "open" <=> orig[p] = "open"
  BY <1>0, CallInProgress DEF InCall, DInv, InCharge, DeviceOps
<1>2. reg' = [reg EXCEPT ![p] = IF call[p].op = "open" /\ rax[p] \in Fd
                                  THEN [reg[p] EXCEPT ![rax[p]] = cur[p]] ELSE reg[p]]
  <2>1. CASE call[p].op = "open"
    <3>1. RegisterOpened(p)
      BY <1>0, <1>1, <2>1 DEF HandleExit
    <3>2. CASE rax[p] \in Fd /\ cur[p] = None
      <4>1. reg[p][rax[p]] = None
        BY <1>0, <2>1, <3>2 DEF DInv, Follows, Alive, Opening, Closing
      <4>2. [reg[p] EXCEPT ![rax[p]] = cur[p]] = reg[p]
        BY <1>0, <3>2, <4>1 DEF TypeOK
      <4> QED
        BY <1>0, <3>1, <3>2, <4>2 DEF RegisterOpened, TypeOK
    <3>3. CASE ~(rax[p] \in Fd /\ cur[p] = None)
      BY <1>0, <2>1, <3>1, <3>3 DEF RegisterOpened, Register, TypeOK
    <3> QED
      BY <3>2, <3>3
  <2>2. CASE call[p].op # "open"
    <3>1. CASE UNCHANGED reg
      BY <2>2, <3>1 DEF DInv, TypeOK
    <3>2. CASE call[p].op = "fork" /\ reg' = [reg EXCEPT ![rax[p]] = RegisterMap(@, reg[p])]
               /\ rax[p] \in known
      <4>1. reg[p] = NoHandles
        <5>1. \A f \in Fd : fds[p][f] \notin Obj
          BY <1>0, <3>2 DEF DInv, ClonesClean, InCall, CloneOps
        <5>2. \A f \in Fd : reg[p][f] = None
          BY <1>0, <3>2, <5>1 DEF DInv, Follows, Alive, Closing, Opening, HandlesOf
        <5>3. reg[p] \in [Fd -> Obj \cup {None}]
          BY <1>0 DEF TypeOK
        <5> QED
          BY <5>2, <5>3 DEF NoHandles
      <4>2. rax[p] \in Pid /\ RegisterMap(reg[rax[p]], reg[p]) = reg[rax[p]]
        BY <1>0, <3>2, <4>1 DEF RegisterMap, NoHandles, TypeOK
      <4> QED
        BY <1>0, <2>2, <3>2, <4>2 DEF TypeOK
    <3> QED
      BY <1>0, <1>1, <2>2, <3>1, <3>2 DEF HandleExit, CloneHandles, DInv, TypeOK
  <2> QED
    BY <2>1, <2>2
<1>3. rax' = [rax EXCEPT ![p] = IF cur[p] # None /\ call[p].op \in DeviceOps
                                  THEN "zero" ELSE rax[p]]
  <2>1. CASE cur'[p] = None
    <3>1. cur[p] = None \/ call[p].op \notin DeviceOps
      BY <1>0, <1>1, <2>1 DEF TypeOK, DeviceOps
    <3> QED
      BY <1>0, <2>1, <3>1 DEF HandleExit, TypeOK
  <2>2. CASE cur'[p] # None
    <3>1. cur[p] # None /\ ExecuteAfter(p, cur[p])
      BY <1>0, <2>2 DEF HandleExit, TypeOK
    <3>2. before[cur[p]].op = call[p].op
      <4>1. before[cur[p]] = [op |-> call[p].op, addr |-> call[p].addr]
        BY <1>0, <3>1 DEF DInv, InCharge, InCall
      <4> QED
        BY <4>1
    <3> QED
      BY <1>0, <3>1, <3>2 DEF ExecuteAfter, TypeOK
  <2> QED
    BY <2>1, <2>2
<1> USE TracerAssumption, <1>0, <1>1, <1>2, <1>3 DEF TypeOK, DInv
<1>4. OwnTables'
  BY DEF OwnTables, Alive
<1>5. ClonesClean'
  BY DEF ClonesClean, InCall
<1>6. Follows'
  BY DEF Follows, Alive, Closing, Opening, HandlesOf
<1>7. Unshared'
  BY DEF Unshared, Holds
<1>8. InCharge'
  BY DEF InCharge, InCall
<1>9. Answered'
  <2>1. ASSUME NEW q \in Pid, q # p, phase[q] \in {"user", "signal"}, call[q].op # "none"
        PROVE  rax'[q] = rax[q] /\ fds'[q] = fds[q]
    BY <2>1
  <2>2. orig[p] = IF call[p].op \in DeviceOps /\ cur[p] # None THEN "none" ELSE call[p].op
    BY DEF InCharge, InCall
  <2>3. rax[p] \notin {"zero"} /\ (orig[p] # "none" => rax[p] # "enosys")
    BY DEF InCharge
  <2>4. call[p].op \in DeviceOps => (cur[p] # None <=> fds[p][call[p].fd] \in Obj)
    <3>1. ASSUME call[p].op \in DeviceOps
          PROVE  cur[p] = HandlesOf(fds[p])[call[p].fd] /\ call[p].fd \in Fd
      <4>1. cur[p] = reg[p][call[p].fd] /\ call[p].fd \in Fd
        BY <3>1 DEF InCharge, InCall, FdOps
      <4>2. ~Closing(p, call[p].fd) /\ ~Opening(p, call[p].fd) /\ Alive(p)
        BY <3>1 DEF Closing, Opening, Alive, DeviceOps
      <4> QED
        BY <4>1, <4>2 DEF Follows
    <3> QED
      BY <3>1 DEF HandlesOf
  <2>5. rax'[p] = IF cur[p] # None /\ call[p].op \in DeviceOps THEN "zero" ELSE rax[p]
    OBVIOUS
  <2>6. IF call[p].op \in DeviceOps /\ fds'[p][call[p].fd] \in Obj
          THEN rax'[p] = "zero"
          ELSE rax'[p] \notin {"zero", "enosys"}
    BY <1>1, <2>2, <2>3, <2>4, <2>5
  <2> QED
    BY <2>1, <2>6 DEF Answered
<1> QED
  BY <1>4, <1>5, <1>6, <1>7, <1>8, <1>9 DEF DParts

LEMMA SkipStopKeeps ==
  ASSUME Disciplined, DInv, NEW p \in Pid, SkipStop(p)
  PROVE  DParts'
<1>0. /\ TypeOK /\ phase[p] \in {"born", "signal", "event"}
      /\ phase' = [phase EXCEPT ![p] = IF @ = "event" THEN "exit" ELSE "user"]
      /\ UNCHANGED <<files, fds, mem, call, orig, rax, exiting, cur, reg, before, state>>
  BY DEF SkipStop, DInv
<1> USE TracerAssumption, <1>0 DEF TypeOK, DInv
<1>1. OwnTables'
  BY DEF OwnTables, Alive
<1>2. ClonesClean'
  BY DEF ClonesClean, InCall
<1>3. Follows'
  <2> SUFFICES ASSUME NEW q \in Pid, NEW f \in Fd, Alive(q)'
               PROVE  (IF Closing(q, f) THEN reg[q][f] = None
                       ELSE IF Opening(q, f)
                         THEN reg[q][f] = None /\ fds[q][f] = IF cur[q] = None THEN "plain" ELSE cur[q]
                         ELSE reg[q][f] = HandlesOf(fds[q])[f])'
    BY DEF Follows
  <2>1. Alive(q)
    BY DEF Alive
  <2>2. (Closing(q, f) <=> Closing(q, f)') /\ (Opening(q, f) <=> Opening(q, f)')
    BY ZenonT(60) DEF Closing, Opening, InCharge, CloneOps
  <2> QED
    BY <2>1, <2>2 DEF Follows, HandlesOf
<1>4. Unshared'
  BY DEF Unshared, Holds
<1>5. InCharge'
  BY DEF InCharge, InCall, CloneOps, FdOps, DeviceOps
<1>6. Answered'
  BY DEF Answered, OwnTables, NoCall
<1> QED
  BY <1>1, <1>2, <1>3, <1>4, <1>5, <1>6 DEF DParts

LEMMA DropKeeps ==
  ASSUME Disciplined, DInv, NEW p \in Pid, Drop(p)
  PROVE  DParts'
<1>0. TypeOK
  BY DEF DInv
<1> USE TracerAssumption, <1>0 DEF TypeOK, DInv, Drop
<1>1. OwnTables'
  BY DEF OwnTables, Alive
<1>2. ClonesClean'
  BY DEF ClonesClean, InCall
<1>3. Follows'
  BY DEF Follows, Alive, Closing, Opening, HandlesOf
<1>4. Unshared'
  BY DEF Unshared, Holds, NoHandles
<1>5. InCharge'
  BY DEF InCharge, InCall
<1>6. Answered'
  BY DEF Answered
<1> QED
  BY <1>1, <1>2, <1>3, <1>4, <1>5, <1>6 DEF DParts
-----------------------------------------------------------------------------
LEMMA DInvInit == Init => DInv
<1> SUFFICES ASSUME Init PROVE DInv
  OBVIOUS
<1> USE TracerAssumption DEF Init
<1>1. TypeOK
  BY TypeInit
<1>2. InStep
  BY DEF InStep
<1>3. OwnTables /\ ClonesClean /\ InCharge /\ Answered
  BY DEF OwnTables, ClonesClean, InCharge, Answered, InCall, NoCall, Alive
<1>4. Follows
  BY DEF Follows, Closing, Opening, HandlesOf, NoFiles, NoHandles
<1>5. Unshared
  BY DEF Unshared, Holds, NoFiles, NoHandles
<1> QED
  BY <1>1, <1>2, <1>3, <1>4, <1>5 DEF DInv

LEMMA DInvStep == ASSUME Disciplined, DInv, [Next]_vars PROVE DInv'
<1>1. TypeOK' /\ InStep'
  BY TypeStep, InStepStep DEF DInv
<1>2. ASSUME NEW p \in Pid, Environment(p) PROVE DParts'
  <2>1. ~KernelDup(p)
    BY CallInProgress DEF KernelDup, InCall
  <2> QED
    BY <1>2, <2>1, MakeCallKeeps, SignalKeeps, DieKeeps, KernelOpenKeeps, KernelCloseKeeps,
       KernelOtherKeeps, KernelCloneKeeps DEF Environment
<1>3. ASSUME NEW p \in Pid, Agent(p) PROVE DParts'
  BY <1>3, HandleEnterKeeps, HandleExitKeeps, SkipStopKeeps, DropKeeps DEF Agent
<1>4. ASSUME StopSpinning \/ UNCHANGED vars PROVE DParts'
  <2>1. UNCHANGED <<kernelVars, exiting, cur, reg, before, state>>
    BY <1>4 DEF StopSpinning, vars, agentVars
  <2> USE <2>1 DEF kernelVars, DInv
  <2>2. OwnTables' /\ ClonesClean' /\ InCharge' /\ Answered'
    BY DEF OwnTables, ClonesClean, InCharge, Answered, InCall, Alive
  <2>3. Follows'
    BY DEF Follows, Closing, Opening, HandlesOf, Alive
  <2>4. Unshared'
    BY DEF Unshared, Holds
  <2> QED
    BY <2>2, <2>3, <2>4 DEF DParts
<1>5. DParts'
  BY <1>2, <1>3, <1>4 DEF Next, Step
<1> QED
  BY <1>1, <1>5 DEF DInv, DParts

LEMMA DInvHolds == ASSUME Disciplined PROVE Spec => []DInv
<1>1. DInv /\ [Next]_vars => DInv'
  BY DInvStep
<1> QED
  BY <1>1, DInvInit, PTL DEF Spec

\* The registry of a process that is not inside a call names exactly the
\* handlers of the devices its descriptors refer to.
THEOREM Coherence == ASSUME Disciplined PROVE Spec => []Coherent
<1>1. DInv => Coherent
  <2> SUFFICES ASSUME DInv, NEW p \in Pid, phase[p] \in {"user", "signal", "enter"}
               PROVE  reg[p] = HandlesOf(Table(p))
    BY DEF Coherent
  <2>1. Table(p) = fds[p] /\ reg[p] \in [Fd -> Obj \cup {None}]
    BY DEF DInv, OwnTables, Table, TypeOK
  <2>2. \A f \in Fd : reg[p][f] = HandlesOf(fds[p])[f]
    BY DEF DInv, Follows, Alive, Closing, Opening
  <2> QED
    BY <2>1, <2>2 DEF HandlesOf
<1> QED
  BY <1>1, DInvHolds, PTL

\* A device's ioctl gets the agent's answer, and only a device's ioctl does.
THEOREM Answers == ASSUME Disciplined PROVE Spec => []OwnAnswers
<1>1. DInv => OwnAnswers
  BY DEF DInv, OwnTables, Table, Answered, OwnAnswers
<1> QED
  BY <1>1, DInvHolds, PTL
-----------------------------------------------------------------------------
(* The refinement of DeviceCalls: every step of the agent, the kernel or a *)
(* tracee is a step of the atomic devices, or changes nothing of what a    *)
(* tracee can see.                                                         *)

aReady == [p \in Pid |-> Ready(p)]
aRax   == [p \in Pid |-> IF Ready(p) = "calling" THEN "none" ELSE rax[p]]
aDev   == [o \in Obj |-> IF \E p \in Pid, f \in Fd : fds[p][f] = o THEN state[o] ELSE InitVal]

\* What a step of p changes of the abstract state, in terms of p alone.
LEMMA ReadyOthers ==
  ASSUME TypeOK, NEW p \in Pid,
         \A q \in Pid : q # p => phase'[q] = phase[q] /\ orig'[q] = orig[q] /\ rax'[q] = rax[q]
  PROVE  /\ aReady' = [aReady EXCEPT ![p] = Ready(p)']
         /\ aRax' = [aRax EXCEPT ![p] = IF Ready(p)' = "calling" THEN "none" ELSE rax'[p]]
<1>1. \A q \in Pid : q # p => Ready(q)' = Ready(q)
  BY DEF Ready, Alive
<1> QED
  BY <1>1 DEF aReady, aRax

LEMMA ReadySame ==
  ASSUME NEW p \in Pid,
         \A q \in Pid : q # p => phase'[q] = phase[q] /\ orig'[q] = orig[q] /\ rax'[q] = rax[q],
         Ready(p)' = Ready(p),
         Ready(p) = "calling" \/ rax'[p] = rax[p]
  PROVE  aReady' = aReady /\ aRax' = aRax
<1>1. \A q \in Pid : q # p => Ready(q)' = Ready(q)
  BY DEF Ready, Alive
<1>2. \A q \in Pid : aReady'[q] = aReady[q] /\ aRax'[q] = aRax[q]
  BY <1>1 DEF aReady, aRax
<1> QED
  BY <1>2 DEF aReady, aRax

\* Only the states of descriptions that are open are visible.
LEMMA DevSame ==
  ASSUME UNCHANGED fds,
         \A p \in Pid, f \in Fd : fds[p][f] \in Obj => state'[fds[p][f]] = state[fds[p][f]]
  PROVE  aDev' = aDev
BY DEF aDev

LEMMA InitMaps == Init => Device!Init
BY TracerAssumption DEF Init, Device!Init, Ready, Alive, NoFiles

LEMMA MakeCallMaps ==
  ASSUME Disciplined, DInv, NEW p \in Pid, MakeCall(p)
  PROVE  Device!Begin(p)
<1>1. TypeOK /\ files[p] = p /\ Table(p) = fds[p]
  BY DEF DInv, OwnTables, Table
<1>2. PICK c \in Calls :
       /\ c.op \in CloneOps => \A f \in Fd : fds[p][f] \notin Obj
       /\ call' = [call EXCEPT ![p] = c]
       /\ orig' = [orig EXCEPT ![p] = c.op]
       /\ IF c.op = "set"
            THEN \E v \in Val : mem' = [mem EXCEPT ![p][c.addr] = v]
            ELSE UNCHANGED mem
  BY <1>1 DEF MakeCall
<1>3. /\ phase[p] = "user"
      /\ phase' = [phase EXCEPT ![p] = "enter"]
      /\ rax' = [rax EXCEPT ![p] = "none"]
      /\ UNCHANGED <<files, fds, agentVars>>
  BY DEF MakeCall
<1>4. Ready(p) = "ready" /\ Ready(p)' = "calling"
  BY <1>1, <1>3 DEF Ready, Alive, TypeOK
<1>5. /\ aReady' = [aReady EXCEPT ![p] = "calling"]
      /\ aRax' = [aRax EXCEPT ![p] = "none"]
  BY <1>1, <1>2, <1>3, <1>4, ReadyOthers DEF TypeOK
<1>6. aDev' = aDev
  BY <1>3, DevSame DEF agentVars
<1>7. aReady[p] = "ready"
  BY <1>4 DEF aReady
<1> QED
  BY <1>2, <1>3, <1>5, <1>6, <1>7 DEF Device!Begin, aReady, aRax, aDev

LEMMA EnterFacts ==
  ASSUME Disciplined, DInv, NEW p \in Pid, HandleEnter(p)
  PROVE  /\ phase[p] = "enter" /\ phase' = [phase EXCEPT ![p] = "kernel"]
         /\ call[p] \in Calls /\ [call[p] EXCEPT !.op = orig[p]] = call[p]
         /\ UNCHANGED <<files, fds, mem, call, rax>>
<1>1. /\ TypeOK /\ phase[p] = "enter" /\ phase' = [phase EXCEPT ![p] = "kernel"]
      /\ UNCHANGED <<files, fds, mem, call, rax>>
  BY DEF HandleEnter, DInv, InStep, TypeOK
<1>2. orig[p] = call[p].op /\ call[p] \in Calls
  BY <1>1 DEF DInv, InCharge
<1>3. [call[p] EXCEPT !.op = orig[p]] = call[p]
  BY <1>2 DEF Calls, Call
<1> QED
  BY <1>1, <1>2, <1>3

LEMMA FreshStep ==
  ASSUME Disciplined, DInv, Fresh, [Next]_vars
  PROVE  Fresh'
<1>0. TypeOK
  BY DEF DInv
<1>1. ASSUME NEW p \in Pid, MakeCall(p) \/ Signal(p) \/ Die(p) PROVE Fresh'
  <2>1. /\ UNCHANGED <<cur, state>>
        /\ ~InCall(p)'
        /\ \A q \in Pid : q # p => phase'[q] = phase[q] /\ call'[q] = call[q] /\ fds'[q] = fds[q]
    BY <1>0, <1>1 DEF MakeCall, Signal, Die, InCall, agentVars, TypeOK, DInv, OwnTables
  <2> QED
    BY <2>1 DEF Fresh, InCall
<1>2. ASSUME NEW p \in Pid,
             KernelOpen(p) \/ KernelClose(p) \/ KernelDup(p) \/ KernelOther(p) \/ KernelClone(p)
      PROVE  Fresh'
  <2>1. /\ UNCHANGED <<cur, state, call>>
        /\ phase[p] = "kernel" /\ phase'[p] \in {"exit", "event"}
        /\ \A q \in Pid : q # p => \/ phase'[q] = "born"
                                   \/ phase'[q] = phase[q] /\ fds'[q] = fds[q]
    BY <1>0, <1>2 DEF KernelOpen, KernelClose, KernelDup, KernelOther, KernelClone, Finish,
       agentVars, TypeOK, DInv, OwnTables, Table
  <2> QED
    BY <2>1 DEF Fresh, InCall
<1>3. ASSUME NEW p \in Pid, SkipStop(p) \/ Drop(p) PROVE Fresh'
  <2>1. /\ UNCHANGED <<state, call, fds>>
        /\ InCall(p)' => InCall(p) /\ cur'[p] = cur[p] /\ phase'[p] # "kernel"
        /\ \A q \in Pid : q # p => phase'[q] = phase[q] /\ cur'[q] = cur[q]
    BY <1>0, <1>3 DEF SkipStop, Drop, InCall, TypeOK
  <2> QED
    BY <2>1 DEF Fresh, InCall
<1>4. ASSUME NEW p \in Pid, HandleEnter(p) PROVE Fresh'
  <2>1. /\ phase[p] = "enter" /\ phase' = [phase EXCEPT ![p] = "kernel"]
        /\ call[p] \in Calls /\ [call[p] EXCEPT !.op = orig[p]] = call[p]
        /\ UNCHANGED <<files, fds, mem, call, rax>>
    BY <1>4, EnterFacts
  <2>2. PICK o \in Lookup(p, call[p]) :
          /\ cur' = [cur EXCEPT ![p] = o]
          /\ state' = IF call[p].op \in PathOps /\ o # None
                        THEN [state EXCEPT ![o] = InitVal] ELSE state
    BY <1>4, <2>1 DEF HandleEnter
  <2>3. call[p].op \in PathOps =>
          IF call[p].path \in SpyPath THEN o \in FreeObj(p) ELSE o = None
    BY <2>2 DEF Lookup, PathOps, FdOps, DeviceOps
  <2>4. /\ call[p].op \in PathOps => (o # None <=> call[p].path \in SpyPath)
        /\ call[p].op = "open" /\ o # None =>
             state'[o] = InitVal /\ \A f \in Fd : fds[p][f] # o
    BY <1>0, <2>2, <2>3, TracerAssumption DEF FreeObj, PathOps, TypeOK
  <2>5. \A q \in Pid : q # p /\ cur[q] # None => state'[cur[q]] = state[cur[q]]
    BY <1>0, <2>2, <2>3 DEF FreeObj, TypeOK
  <2> QED
    BY <1>0, <2>1, <2>2, <2>4, <2>5 DEF Fresh, InCall, TypeOK
<1>5. ASSUME NEW p \in Pid, HandleExit(p) PROVE Fresh'
  <2>1. /\ phase' = [phase EXCEPT ![p] = "user"] /\ UNCHANGED <<call, fds>>
        /\ \A q \in Pid : q # p => cur'[q] = cur[q]
    BY <1>0, <1>5 DEF HandleExit, DInv, InStep, TypeOK
  <2>2. state' = state \/ (cur[p] # None /\ \E v : state' = [state EXCEPT ![cur[p]] = v])
    BY <1>0, <1>5 DEF HandleExit, ExecuteAfter, TypeOK
  <2>3. \A q \in Pid : q # p /\ cur[q] # None => state'[cur[q]] = state[cur[q]]
    BY <1>0, <2>2 DEF DInv, Unshared, Holds, TypeOK
  <2> QED
    BY <1>0, <2>1, <2>3 DEF Fresh, InCall, TypeOK
<1>6. CASE StopSpinning \/ UNCHANGED vars
  BY <1>6 DEF StopSpinning, vars, kernelVars, agentVars, Fresh, InCall
<1> QED
  BY <1>1, <1>2, <1>3, <1>4, <1>5, <1>6 DEF Next, Step, Agent, Environment
-----------------------------------------------------------------------------
\* The abstract state does not change.
AbstractSame == UNCHANGED <<aReady, fds, mem, call, aRax, aDev>>

LEMMA SignalMaps == ASSUME DInv, NEW p \in Pid, Signal(p) PROVE AbstractSame
<1>1. TypeOK /\ phase[p] = "user" /\ phase' = [phase EXCEPT ![p] = "signal"]
      /\ UNCHANGED <<files, fds, mem, call, orig, rax, agentVars>>
  BY DEF Signal, DInv
<1>2. Ready(p) = Ready(p)' /\ Ready(p) = "ready"
  BY <1>1 DEF Ready, Alive, TypeOK
<1>3. aReady' = aReady /\ aRax' = aRax
  BY <1>1, <1>2, ReadySame DEF TypeOK
<1> QED
  BY <1>1, <1>3, DevSame DEF AbstractSame, agentVars

LEMMA DieMaps == ASSUME Disciplined, DInv, NEW p \in Pid, Die(p) PROVE Device!Die(p)
<1>1. /\ TypeOK /\ Alive(p)
      /\ phase' = [phase EXCEPT ![p] = "zombie"]
      /\ fds' = [fds EXCEPT ![p] = NoFiles]
      /\ mem' = [mem EXCEPT ![p] = [a \in Addr |-> InitVal]]
      /\ call' = [call EXCEPT ![p] = NoCall]
      /\ orig' = [orig EXCEPT ![p] = "none"]
      /\ rax' = [rax EXCEPT ![p] = "none"]
      /\ UNCHANGED agentVars
  BY DEF Die, DInv, OwnTables
<1>2. Ready(p)' = "absent" /\ Ready(p) # "absent"
  BY <1>1 DEF Ready, Alive, TypeOK
<1>3. /\ aReady' = [aReady EXCEPT ![p] = "absent"] /\ aReady[p] # "absent"
      /\ aRax' = [aRax EXCEPT ![p] = "none"]
  <2>1. rax'[p] = "none"
    BY <1>1 DEF TypeOK
  <2> QED
    BY <1>1, <1>2, <2>1, ReadyOthers DEF TypeOK, aReady
<1>4. aDev' = [o \in Obj |-> IF \E q \in Pid, f \in Fd : fds'[q][f] = o
                              THEN aDev[o] ELSE InitVal]
  <2>1. ASSUME NEW o \in Obj, NEW q \in Pid, NEW f \in Fd, fds'[q][f] = o
        PROVE  fds[q][f] = o
    BY <1>1, <2>1, TracerAssumption DEF NoFiles, TypeOK
  <2> QED
    BY <1>1, <2>1 DEF aDev, agentVars
<1> QED
  BY <1>1, <1>3, <1>4 DEF Device!Die, Device!Forget, NoFiles, aReady, aRax, aDev

LEMMA SkipStopMaps == ASSUME DInv, NEW p \in Pid, SkipStop(p) PROVE AbstractSame
<1>1. /\ TypeOK /\ phase[p] \in {"born", "signal", "event"}
      /\ phase' = [phase EXCEPT ![p] = IF @ = "event" THEN "exit" ELSE "user"]
      /\ UNCHANGED <<files, fds, mem, call, orig, rax, exiting, cur, reg, before, state>>
  BY DEF SkipStop, DInv
<1>2. phase[p] = "event" => orig[p] # "none"
  BY <1>1 DEF DInv, InCharge, InCall, CloneOps, DeviceOps
<1>3. Ready(p) = Ready(p)' /\ Ready(p) = "ready"
  BY <1>1, <1>2 DEF Ready, Alive, TypeOK
<1>4. aReady' = aReady /\ aRax' = aRax
  BY <1>1, <1>3, ReadySame DEF TypeOK
<1> QED
  BY <1>1, <1>4, DevSame DEF AbstractSame

LEMMA DropMaps == ASSUME DInv, NEW p \in Pid, Drop(p) PROVE AbstractSame
<1>1. /\ TypeOK /\ phase[p] = "zombie" /\ phase' = [phase EXCEPT ![p] = "absent"]
      /\ UNCHANGED <<files, fds, mem, call, orig, rax, spinning, before, state>>
  BY DEF Drop, DInv
<1>2. Ready(p) = Ready(p)' /\ Ready(p) = "absent"
  BY <1>1 DEF Ready, Alive, TypeOK
<1>3. aReady' = aReady /\ aRax' = aRax
  BY <1>1, <1>2, ReadySame DEF TypeOK
<1> QED
  BY <1>1, <1>3, DevSame DEF AbstractSame

LEMMA HandleEnterMaps ==
  ASSUME Disciplined, DInv, NEW p \in Pid, HandleEnter(p)
  PROVE  AbstractSame
<1>1. TypeOK
  BY DEF DInv
<1>2. PICK o \in Lookup(p, call[p]) :
        /\ IF o = None THEN UNCHANGED <<before, orig>> ELSE ExecuteBefore(p, o, call[p])
        /\ state' = IF call[p].op \in PathOps /\ o # None
                      THEN [state EXCEPT ![o] = InitVal] ELSE state
  BY EnterFacts DEF HandleEnter
<1>3. call[p].op \in PathOps /\ o # None => o \in FreeObj(p)
  BY <1>1, <1>2 DEF Lookup, PathOps, FdOps, DeviceOps
<1>4. aDev' = aDev
  <2>1. \A q \in Pid, f \in Fd : fds[q][f] \in Obj => state'[fds[q][f]] = state[fds[q][f]]
    BY <1>1, <1>2, <1>3 DEF FreeObj, TypeOK
  <2> QED
    BY <2>1, EnterFacts, DevSame
<1>5. Ready(p) = "calling" /\ Ready(p)' = "calling"
  BY <1>1, EnterFacts DEF Ready, Alive, TypeOK
<1>6. \A q \in Pid : q # p => phase'[q] = phase[q] /\ orig'[q] = orig[q] /\ rax'[q] = rax[q]
  BY <1>1, <1>2, EnterFacts DEF ExecuteBefore, TypeOK
<1>7. aReady' = aReady /\ aRax' = aRax
  BY <1>5, <1>6, ReadySame
<1> QED
  BY <1>4, <1>7, EnterFacts DEF AbstractSame

\* The end of a call in the kernel that was not suppressed is its end.
LEMMA FinishMaps ==
  ASSUME TypeOK, NEW p \in Pid, phase[p] = "kernel", orig[p] # "none",
         NEW r \in Result, Finish(p, r)
  PROVE  /\ aReady[p] = "calling"
         /\ aReady' = [aReady EXCEPT ![p] = "ready"]
         /\ aRax' = [aRax EXCEPT ![p] = r]
<1>1. /\ phase' = [phase EXCEPT ![p] = "exit"] /\ rax' = [rax EXCEPT ![p] = r]
      /\ orig' = orig
  BY DEF Finish
<1>2. Ready(p) = "calling" /\ Ready(p)' = "ready" /\ rax'[p] = r
  BY <1>1 DEF Ready, Alive, TypeOK
<1> QED
  BY <1>1, <1>2, ReadyOthers DEF aReady, TypeOK

LEMMA KernelOpenMaps ==
  ASSUME Disciplined, DInv, Fresh, NEW p \in Pid, KernelOpen(p)
  PROVE  Device!Open(p) \/ Device!OpenFails(p)
<1>1. /\ TypeOK /\ phase[p] = "kernel" /\ call[p].op = "open" /\ orig[p] = "open"
      /\ Table(p) = fds[p] /\ files[p] = p
  BY CallInProgress DEF KernelOpen, InCall, DInv, OwnTables
<1>2. CASE Finish(p, "fail") /\ UNCHANGED fds
  <2>1. aDev' = aDev
    BY <1>2, DevSame DEF Finish, agentVars
  <2>2. Device!Return(p, "open", "fail")
    BY <1>1, <1>2, FinishMaps DEF Device!Return, Finish, Result, aReady, aRax
  <2> QED
    BY <1>2, <2>1, <2>2 DEF Device!OpenFails, Finish, aDev
<1>3. ASSUME NEW f \in Fd, fds[p][f] = "closed", Finish(p, f),
             fds' = [fds EXCEPT ![p][f] = IF cur[p] = None THEN "plain" ELSE cur[p]]
      PROVE  Device!Open(p)
  <2> DEFINE d == IF cur[p] = None THEN "plain" ELSE cur[p]
  <2>1. d \in {"plain"} \cup Obj /\ (d \in Obj <=> cur[p] # None)
    BY <1>1, TracerAssumption DEF TypeOK
  <2>2. d \in Obj <=> call[p].path \in SpyPath
    BY <1>1, <2>1 DEF Fresh, InCall, PathOps
  <2>3. d \in Obj => ~Device!IsOpen(d)
    BY <1>1, <2>1 DEF Device!IsOpen, DInv, Unshared, Holds, Fresh
  <2>4. aDev' = aDev
    <3>1. ASSUME NEW o \in Obj PROVE aDev'[o] = aDev[o]
      <4>1. CASE o = d
        <5>1. aDev[o] = InitVal /\ state[o] = InitVal /\ state' = state
          BY <1>1, <1>3, <2>1, <2>3, <4>1 DEF aDev, Device!IsOpen, Fresh, Finish, agentVars
        <5> QED
          BY <5>1 DEF aDev
      <4>2. CASE o # d
        <5>1. \A q \in Pid, g \in Fd : fds'[q][g] = o <=> fds[q][g] = o
          BY <1>1, <1>3, <4>2, TracerAssumption DEF TypeOK
        <5> QED
          BY <1>3, <5>1 DEF aDev, Finish, agentVars
      <4> QED
        BY <4>1, <4>2
    <3> QED
      BY <3>1 DEF aDev
  <2>5. Device!Return(p, "open", f)
    BY <1>1, <1>3, FinishMaps DEF Device!Return, Finish, Result, aReady, aRax
  <2>6. fds' = [fds EXCEPT ![p][f] = d] /\ mem' = mem
    BY <1>3 DEF Finish
  <2> HIDE DEF d
  <2> QED
    BY <1>3, <2>1, <2>2, <2>3, <2>4, <2>5, <2>6 DEF Device!Open, aDev
<1> QED
  BY <1>1, <1>2, <1>3 DEF KernelOpen

LEMMA KernelCloseMaps ==
  ASSUME Disciplined, DInv, NEW p \in Pid, KernelClose(p)
  PROVE  Device!Close(p)
<1>1. /\ TypeOK /\ phase[p] = "kernel" /\ call[p].op = "close" /\ orig[p] = "close"
      /\ call[p].fd \in Fd /\ files[p] = p
      /\ fds' = [fds EXCEPT ![p][call[p].fd] = "closed"] /\ Finish(p, "kernel")
  BY CallInProgress DEF KernelClose, InCall, DInv, OwnTables
<1>2. Device!Return(p, "close", "kernel")
  BY <1>1, FinishMaps DEF Device!Return, Finish, Result, aReady, aRax
<1>3. aDev' = [o \in Obj |-> IF \E q \in Pid, f \in Fd : fds'[q][f] = o
                              THEN aDev[o] ELSE InitVal]
  <2>1. ASSUME NEW o \in Obj, NEW q \in Pid, NEW f \in Fd, fds'[q][f] = o
        PROVE  fds[q][f] = o
    BY <1>1, <2>1, TracerAssumption DEF TypeOK
  <2> QED
    BY <1>1, <2>1 DEF aDev, Finish, agentVars
<1> QED
  BY <1>1, <1>2, <1>3 DEF Device!Close, Device!Forget, Finish, aDev

LEMMA KernelOtherMaps ==
  ASSUME Disciplined, DInv, NEW p \in Pid, KernelOther(p)
  PROVE  Device!Kernel(p) \/ AbstractSame
<1>1. TypeOK /\ phase[p] = "kernel" /\ UNCHANGED <<fds, mem, call, orig, agentVars>>
      /\ orig[p] \in FdOps \cup {"stat", "none"}
  BY CallInProgress DEF KernelOther, Finish, InCall, DInv
<1>2. aDev' = aDev
  BY <1>1, DevSame DEF agentVars
<1>3. CASE orig[p] = "none"
  <2>1. /\ \A q \in Pid : q # p => phase'[q] = phase[q] /\ orig'[q] = orig[q] /\ rax'[q] = rax[q]
        /\ Ready(p)' = Ready(p) /\ Ready(p) = "calling"
    BY <1>1, <1>3 DEF KernelOther, Finish, Ready, Alive, TypeOK
  <2>2. aReady' = aReady /\ aRax' = aRax
    BY <2>1, ReadySame
  <2> QED
    BY <1>1, <1>2, <2>2 DEF AbstractSame
<1>4. CASE orig[p] # "none"
  <2>1. call[p].op = orig[p] /\ Finish(p, "kernel")
    BY <1>1, <1>4, CallInProgress DEF KernelOther, InCall
  <2>2. Device!Return(p, orig[p], "kernel")
    BY <1>1, <1>4, <2>1, FinishMaps DEF Device!Return, Result, aReady, aRax
  <2>3. orig[p] \in DeviceOps => fds[p][call[p].fd] \notin Obj
    <3>1. ASSUME orig[p] \in DeviceOps
          PROVE  cur[p] = None /\ cur[p] = reg[p][call[p].fd] /\ call[p].fd \in Fd
      BY <1>1, <1>4, <2>1, <3>1, CallInProgress DEF DInv, InCharge, InCall, FdOps
    <3>2. orig[p] \in DeviceOps => reg[p][call[p].fd] = HandlesOf(fds[p])[call[p].fd]
      BY <1>1, <2>1, <3>1 DEF DInv, Follows, Alive, Closing, Opening, DeviceOps
    <3> QED
      BY <3>1, <3>2, TracerAssumption DEF HandlesOf
  <2> QED
    BY <1>1, <1>2, <1>4, <2>2, <2>3 DEF Device!Kernel, FdOps, DeviceOps, aDev
<1> QED
  BY <1>3, <1>4

LEMMA KernelCloneMaps ==
  ASSUME Disciplined, DInv, NEW p \in Pid, KernelClone(p)
  PROVE  Device!Kernel(p) \/ Device!Clone(p)
<1>1. /\ TypeOK /\ phase[p] = "kernel" /\ call[p].op \in CloneOps /\ orig[p] = call[p].op
      /\ Table(p) = fds[p] /\ orig[p] # "thread" /\ orig[p] # "none"
  BY CallInProgress DEF KernelClone, InCall, DInv, CloneOps
<1>2. CASE Finish(p, "fail") /\ UNCHANGED fds
  <2>1. aDev' = aDev
    BY <1>2, DevSame DEF Finish, agentVars
  <2>2. Device!Return(p, call[p].op, "fail")
    BY <1>1, <1>2, FinishMaps DEF Device!Return, Finish, Result, aReady, aRax
  <2> QED
    BY <1>1, <1>2, <2>1, <2>2 DEF Device!Kernel, Finish, aDev
<1>3. ASSUME NEW q \in Pid, phase[q] = "absent",
             phase' = [phase EXCEPT ![p] = "event", ![q] = "born"],
             fds' = [fds EXCEPT ![q] = fds[p]],
             mem' = [mem EXCEPT ![q] = mem[p]],
             rax' = [rax EXCEPT ![p] = q],
             UNCHANGED <<call, orig, agentVars>>
      PROVE  Device!Clone(p)
  <2>1. q # p /\ \A f \in Fd : fds[p][f] \notin Obj
    BY <1>1, <1>3 DEF DInv, ClonesClean, InCall
  <2>2. /\ Ready(p) = "calling" /\ Ready(q) = "absent" /\ Ready(p)' = "ready" /\ Ready(q)' = "ready"
        /\ \A r \in Pid : r # p /\ r # q => Ready(r)' = Ready(r)
    BY <1>1, <1>3, <2>1 DEF Ready, Alive, TypeOK
  <2>3. /\ aReady[p] = "calling" /\ aReady[q] = "absent"
        /\ aReady' = [aReady EXCEPT ![p] = "ready", ![q] = "ready"]
    BY <2>2 DEF aReady
  <2>4. aRax' = [aRax EXCEPT ![p] = q]
    BY <1>1, <1>3, <2>1, <2>2 DEF aRax, TypeOK
  <2>5. aDev' = aDev
    <3>1. \A o \in Obj : (\E r \in Pid, f \in Fd : fds'[r][f] = o)
                            <=> (\E r \in Pid, f \in Fd : fds[r][f] = o)
      BY <1>1, <1>3, <2>1, TracerAssumption DEF DInv, OwnTables, Alive, NoFiles, TypeOK
    <3> QED
      BY <1>3, <3>1 DEF aDev, agentVars
  <2> QED
    BY <1>1, <1>3, <2>3, <2>4, <2>5 DEF Device!Clone, aReady, aRax, aDev
<1> QED
  BY <1>1, <1>2, <1>3 DEF KernelClone

LEMMA HandleExitMaps ==
  ASSUME Disciplined, DInv, NEW p \in Pid, HandleExit(p)
  PROVE  Device!Get(p) \/ Device!Set(p) \/ AbstractSame
<1>1. /\ TypeOK /\ phase[p] = "exit"
      /\ phase' = [phase EXCEPT ![p] = "user"]
      /\ UNCHANGED <<files, fds, call, orig, before>>
  BY DEF HandleExit, DInv, InStep, TypeOK
<1>2. Ready(p)' = "ready" /\ Ready(p) = IF orig[p] = "none" THEN "calling" ELSE "ready"
  BY <1>1 DEF Ready, Alive, TypeOK
<1>3. orig[p] = "none" <=> call[p].op \in DeviceOps /\ cur[p] # None
  BY <1>1, CallInProgress DEF DInv, InCharge, InCall
<1>4. cur[p] # None => before[cur[p]].op = call[p].op /\ before[cur[p]].addr = call[p].addr
  <2>1. cur[p] # None => before[cur[p]] = [op |-> call[p].op, addr |-> call[p].addr]
    BY <1>1 DEF DInv, InCharge, InCall
  <2> QED
    BY <2>1
<1>5. CASE orig[p] # "none"
  <2>1. UNCHANGED <<rax, mem, state>>
    <3>1. CASE cur'[p] = None
      BY <3>1 DEF HandleExit
    <3>2. CASE cur'[p] # None
      <4>1. cur[p] # None /\ ExecuteAfter(p, cur[p]) /\ call[p].op \notin DeviceOps
        BY <1>1, <1>3, <1>5, <3>2 DEF HandleExit, TypeOK
      <4> QED
        BY <1>4, <4>1 DEF ExecuteAfter, DeviceOps
    <3> QED
      BY <3>1, <3>2
  <2>2. aReady' = aReady /\ aRax' = aRax
    BY <1>1, <1>2, <1>5, <2>1, ReadySame DEF TypeOK
  <2> QED
    BY <1>1, <2>1, <2>2, DevSame DEF AbstractSame
<1>6. CASE orig[p] = "none"
  <2>1. /\ call[p].op \in DeviceOps /\ cur[p] \in Obj /\ ExecuteAfter(p, cur[p])
        /\ call[p] \in Calls /\ call[p].fd \in Fd /\ call[p].addr \in Addr
    BY <1>1, <1>3, <1>6, CallInProgress, DisciplinedCalls
    DEF HandleExit, TypeOK, InCall, FdOps
  <2>2. fds[p][call[p].fd] = cur[p]
    <3>1. cur[p] = reg[p][call[p].fd]
      BY <1>1, <2>1 DEF DInv, InCharge, InCall, FdOps
    <3>2. reg[p][call[p].fd] = HandlesOf(fds[p])[call[p].fd]
      BY <1>1, <2>1 DEF DInv, Follows, Alive, Closing, Opening, DeviceOps
    <3> QED
      BY <2>1, <3>1, <3>2, TracerAssumption DEF HandlesOf
  <2>3. /\ rax' = [rax EXCEPT ![p] = "zero"]
        /\ mem' = IF call[p].op = "get"
                    THEN [mem EXCEPT ![p][call[p].addr] = state[cur[p]]] ELSE mem
        /\ state' = IF call[p].op = "set"
                      THEN [state EXCEPT ![cur[p]] = mem[p][call[p].addr]] ELSE state
    <3>1. cur[p] # None
      BY <2>1, TracerAssumption
    <3>2. before[cur[p]].op = call[p].op /\ before[cur[p]].addr = call[p].addr
      BY <1>4, <3>1
    <3>3. rax' = [rax EXCEPT ![p] = "zero"]
      BY <2>1, <3>2 DEF ExecuteAfter
    <3>4. mem' = IF call[p].op = "get"
                   THEN [mem EXCEPT ![p][call[p].addr] = state[cur[p]]] ELSE mem
      BY <2>1, <3>2 DEF ExecuteAfter
    <3>5. state' = IF call[p].op = "set"
                     THEN [state EXCEPT ![cur[p]] = mem[p][call[p].addr]] ELSE state
      BY <2>1, <3>2 DEF ExecuteAfter
    <3> QED
      BY <3>3, <3>4, <3>5
  <2>4. /\ aReady[p] = "calling" /\ aReady' = [aReady EXCEPT ![p] = "ready"]
        /\ aRax' = [aRax EXCEPT ![p] = "zero"]
    BY <1>1, <1>2, <1>6, <2>3, ReadyOthers DEF aReady, TypeOK
  <2>5. Device!Return(p, call[p].op, "zero")
    BY <1>1, <2>4 DEF Device!Return, aReady, aRax
  <2>6. aDev[cur[p]] = state[cur[p]]
    BY <2>1, <2>2 DEF aDev
  <2>7. CASE call[p].op = "get"
    <3>1. aDev' = aDev
      BY <1>1, <2>3, <2>7, DevSame
    <3> QED
      BY <1>1, <2>1, <2>2, <2>3, <2>5, <2>6, <2>7, <3>1 DEF Device!Get, aDev
  <2>8. CASE call[p].op = "set"
    <3>1. aDev' = [aDev EXCEPT ![cur[p]] = mem[p][call[p].addr]]
      BY <1>1, <2>1, <2>2, <2>3, <2>8 DEF aDev, TypeOK
    <3> QED
      BY <1>1, <2>1, <2>2, <2>3, <2>5, <2>8, <3>1 DEF Device!Set, aDev
  <2> QED
    BY <2>1, <2>7, <2>8 DEF DeviceOps
<1> QED
  BY <1>5, <1>6
-----------------------------------------------------------------------------
\* Disciplined tracees cannot tell LoWeAgent from drivers that execute every
\* device call at once.
THEOREM Refinement == ASSUME Disciplined PROVE Spec => ImplementsDevices
<1>1. Init => Fresh
  BY DEF Init, Fresh, InCall
<1>2. DInv /\ Fresh /\ [Next]_vars => Fresh'
  BY FreshStep
<1>3. DInv /\ Fresh /\ [Next]_vars => [Device!Next]_(Device!vars)
  <2> SUFFICES ASSUME DInv, Fresh, [Next]_vars
               PROVE  Device!Next \/ UNCHANGED Device!vars
    OBVIOUS
  <2>1. AbstractSame => UNCHANGED Device!vars
    BY DEF AbstractSame, Device!vars, aReady, aRax, aDev
  <2>2. ASSUME NEW p \in Pid, Environment(p) PROVE Device!Next \/ AbstractSame
    <3>1. ~KernelDup(p)
      BY CallInProgress DEF KernelDup, InCall
    <3> QED
      BY <2>2, <3>1, MakeCallMaps, SignalMaps, DieMaps, KernelOpenMaps, KernelCloseMaps,
         KernelOtherMaps, KernelCloneMaps DEF Environment, Device!Next
  <2>3. ASSUME NEW p \in Pid, Agent(p) PROVE Device!Next \/ AbstractSame
    BY <2>3, HandleEnterMaps, HandleExitMaps, SkipStopMaps, DropMaps DEF Agent, Device!Next
  <2>4. CASE StopSpinning \/ UNCHANGED vars
    <3>1. UNCHANGED <<kernelVars, state>>
      BY <2>4 DEF StopSpinning, vars, agentVars
    <3> QED
      BY <2>1, <3>1 DEF AbstractSame, kernelVars, aReady, aRax, aDev, Ready, Alive
  <2> QED
    BY <2>1, <2>2, <2>3, <2>4 DEF Next, Step
<1> QED
  BY <1>1, <1>2, <1>3, InitMaps, DInvHolds, PTL DEF Spec, ImplementsDevices, Device!Spec
=============================================================================
