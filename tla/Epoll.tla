-------------------------------- MODULE Epoll --------------------------------
(***************************************************************************)
(* Epoll for the agent's devices.  The kernel knows nothing of the devices *)
(* behind the files that stand for them, so ProgRuntimeHandler notes every *)
(* epoll_ctl in epollList and, at the exit of epoll_wait, writes events of *)
(* its own into the program's array, at most one per device and 50 ms,     *)
(* whatever the kernel has put there.  The array is written by pokeData,   *)
(* in words that are larger than the last piece of an event.               *)
(*                                                                         *)
(* One program with one epoll instance is modelled, its other threads as   *)
(* stores to what lies behind the array.  Memory is counted in halves of a *)
(* word (4 bytes): a packed epoll_event has three of them.                 *)
(***************************************************************************)
EXTENDS Integers, FiniteSets, Functions

CONSTANTS
  Fd,         \* descriptors
  Kinds,      \* Kinds[f]: what f may be opened as, "plain" or "dev"
  Data,       \* values of epoll_data
  Slots,      \* the length of the program's array
  MaxStores,  \* bound: stores of the other threads during a call
  None

ASSUME EpollAssumption ==
  /\ IsFiniteSet(Fd)
  /\ Kinds \in [Fd -> SUBSET {"plain", "dev"}]
  /\ Slots \in Nat \ {0} /\ MaxStores \in Nat
  /\ None \notin Data \cup Fd

VARIABLES
  \* The program and the kernel.
  file,       \* file[f]: "closed", "plain", or "dev" if the registry has f
  wanted,     \* wanted[f]: the data f was last registered with, None if it is not
  ready,      \* plain descriptors with input
  mem,        \* the array, and the half of a word behind it
  ends,       \* nothing is mapped behind the array
  stored,     \* how often other threads have stored behind the array in this call
  raced,      \* the last such store was between the two halves of a PokeTail
  \* The call of epoll_wait.
  pc,         \* "user", "kernel", "exit", "poke", "tail", "back"
  maxEvents,
  rax,
  \* The agent.
  list,       \* epollList[epfd]: the data of an entry, or None
  due,        \* due[f]: lastAccess + 50 < t
  odd,        \* descriptors whose entry the program's calls have made stale
  todo,       \* the entries the loop has not come to, of those due when it began
  current,    \* the entry whose event is being written
  count,      \* currentEventCount
  peeked      \* what the tail of the word held

programVars == <<file, wanted, ready, ends>>
storeVars   == <<stored, raced>>
callVars    == <<pc, maxEvents, rax>>
loopVars    == <<todo, current, count, peeked>>
vars == <<programVars, mem, storeVars, callVars, list, odd, due, loopVars>>

In     == <<"EPOLLIN", None>>
Lo(d)  == <<"low", d>>
Hi(d)  == <<"high", d>>
Own(n) == <<"own", n>>
Junk   == <<"junk", None>>

Behind == 3 * Slots     \* the half behind the array
Event(k) == <<mem[3 * k], mem[3 * k + 1], mem[3 * k + 2]>>

\* What half of a word may hold: a piece of an event or what the program stored.
Half ==
  {In, Junk} \cup {Lo(d) : d \in Data} \cup {Hi(d) : d \in Data}
    \cup {Own(n) : n \in 0..MaxStores}

TypeOK ==
  /\ file \in [Fd -> {"closed", "plain", "dev"}]
  /\ wanted \in [Fd -> Data \cup {None}]
  /\ ready \subseteq Fd
  /\ mem \in [0..Behind -> Half]
  /\ ends \in BOOLEAN /\ stored \in 0..MaxStores /\ raced \in BOOLEAN
  /\ pc \in {"user", "kernel", "exit", "poke", "tail", "back"}
  /\ maxEvents \in 1..Slots /\ rax \in -1..Slots
  /\ list \in [Fd -> Data \cup {None}] /\ due \in [Fd -> BOOLEAN]
  /\ odd \subseteq Fd /\ todo \subseteq Fd /\ current \in Fd \cup {None} /\ count \in 0..Slots
  /\ peeked \in Half

EmptyArray == [i \in 0..Behind |-> IF i = Behind THEN Own(0) ELSE Junk]

Init ==
  /\ file = [f \in Fd |-> "closed"] /\ wanted = [f \in Fd |-> None] /\ ready = {}
  /\ ends \in BOOLEAN /\ stored = 0 /\ raced = FALSE
  /\ mem = EmptyArray
  /\ pc = "user" /\ maxEvents = Slots /\ rax = 0
  /\ list = [f \in Fd |-> None] /\ due = [f \in Fd |-> FALSE] /\ odd = {}
  /\ todo = {} /\ current = None /\ count = 0 /\ peeked = Junk
-----------------------------------------------------------------------------
(* The program's calls; the agent sees each of them.                       *)

OpenFile(f) ==
  /\ pc = "user" /\ file[f] = "closed"
  /\ \E kind \in Kinds[f] : file' = [file EXCEPT ![f] = kind]
  /\ UNCHANGED <<wanted, ready, ends, mem, storeVars, callVars, list, odd, due, loopVars>>

\* close takes the descriptor out of the registry and not out of epollList; the
\* kernel ends its registration.
CloseFile(f) ==
  /\ pc = "user" /\ file[f] # "closed"
  /\ file' = [file EXCEPT ![f] = "closed"]
  /\ wanted' = [wanted EXCEPT ![f] = None]
  /\ ready' = ready \ {f}
  /\ odd' = IF wanted[f] # None THEN odd \cup {f} ELSE odd
  /\ UNCHANGED <<ends, mem, storeVars, callVars, list, due, loopVars>>

\* Programs tell their descriptors apart by their data.
Fresh(f, d) == \A g \in Fd \ {f} : wanted[g] # d

\* Mutant: the entry is not erased.
EpollListKeepsDeleted(op, f, d) ==
  CASE op = "ADD" /\ list[f] = None ->
         list' = [list EXCEPT ![f] = d] /\ due' = [due EXCEPT ![f] = TRUE]
    [] OTHER -> UNCHANGED <<list, due>>

\* What the agent does at the entry of epoll_ctl, whether or not the kernel
\* refuses it then: emplace leaves an entry that is there, MOD does nothing.
EpollList(op, f, d) ==
  CASE op = "ADD" /\ list[f] = None ->
         list' = [list EXCEPT ![f] = d] /\ due' = [due EXCEPT ![f] = TRUE]
    [] op = "DEL" ->
         list' = [list EXCEPT ![f] = None] /\ due' = [due EXCEPT ![f] = FALSE]
    [] OTHER -> UNCHANGED <<list, due>>

\* The kernel may refuse an ADD, of a device too: the entry is there all the same.
\* A DEL takes the entry away even if the kernel knows nothing of the descriptor.
EpollCtl(op, f, d) ==
  /\ pc = "user"
  /\ \/ /\ op = "ADD" /\ wanted[f] = None /\ Fresh(f, d)
        /\ \/ file[f] # "closed" /\ wanted' = [wanted EXCEPT ![f] = d] /\ UNCHANGED odd
           \/ odd' = odd \cup {f} /\ UNCHANGED wanted
     \/ /\ op = "MOD" /\ wanted[f] # None /\ Fresh(f, d)
        /\ wanted' = [wanted EXCEPT ![f] = d]
        /\ odd' = IF wanted[f] = d THEN odd ELSE odd \cup {f}
     \/ /\ op = "DEL"
        /\ wanted' = [wanted EXCEPT ![f] = None] /\ odd' = odd \ {f}
  /\ EpollList(op, f, d)
  /\ UNCHANGED <<file, ready, ends, mem, storeVars, callVars, loopVars>>

\* The epoll instance is closed, and a new one gets its number.
ReopenEpoll ==
  /\ pc = "user"
  /\ wanted' = [f \in Fd |-> None]
  /\ odd' = odd \cup {f \in Fd : wanted[f] # None}
  /\ UNCHANGED <<file, ready, ends, mem, storeVars, callVars, list, due, loopVars>>

\* The program passes room for max events.
EpollWait(max) ==
  /\ pc = "user"
  /\ pc' = "kernel" /\ maxEvents' = max /\ rax' = 0
  /\ UNCHANGED <<programVars, mem, storeVars, list, odd, due, loopVars>>

\* The program has looked at the events, has read what was to be read and cares
\* for the array and what lay behind it.
Heard ==
  {f \in Fd : /\ pc = "back" /\ wanted[f] # None
              /\ \E k \in 0..rax - 1 : mem[3 * k + 1] = Lo(wanted[f])}

Consume ==
  /\ pc = "back"
  /\ pc' = "user" /\ rax' = 0 /\ maxEvents' = Slots
  /\ ready' = ready \ Heard
  /\ mem' = EmptyArray /\ stored' = 0 /\ raced' = FALSE
  /\ UNCHANGED <<file, wanted, ends, list, odd, due, loopVars>>

\* Another thread stores behind the array during the call.
Store ==
  /\ pc \notin {"user", "back"} /\ ~ends /\ stored < MaxStores
  /\ stored' = stored + 1
  /\ mem' = [mem EXCEPT ![Behind] = Own(stored')]
  /\ raced' = (pc = "tail" /\ count = Slots - 1)
  /\ UNCHANGED <<programVars, callVars, list, odd, due, loopVars>>

Program ==
  \/ \E f \in Fd : OpenFile(f) \/ CloseFile(f)
  \/ \E f \in Fd, d \in Data, op \in {"ADD", "MOD", "DEL"} : EpollCtl(op, f, d)
  \/ ReopenEpoll \/ Consume \/ Store
  \/ \E max \in 1..Slots : EpollWait(max)
-----------------------------------------------------------------------------
(* The kernel and the time.                                                *)

Input(f) ==
  /\ file[f] = "plain" /\ f \notin ready
  /\ ready' = ready \cup {f}
  /\ UNCHANGED <<file, wanted, ends, mem, storeVars, callVars, list, odd, due, loopVars>>

\* More than 50 ms have passed since f's last event.
Tick(f) ==
  /\ list[f] # None /\ ~due[f]
  /\ due' = [due EXCEPT ![f] = TRUE]
  /\ UNCHANGED <<programVars, mem, storeVars, callVars, list, odd, loopVars>>

\* The kernel knows the plain descriptors only; the call returns what is ready,
\* none at its timeout, or an error.
KernelReady == {f \in ready : file[f] = "plain" /\ wanted[f] # None}

KernelWait ==
  /\ pc = "kernel"
  /\ \/ LET n == IF Cardinality(KernelReady) < maxEvents
                   THEN Cardinality(KernelReady) ELSE maxEvents
        IN  \E at \in [0..n - 1 -> KernelReady] :
              /\ IsInjective(at)
              /\ mem' = [i \in 0..Behind |->
                           IF i < 3 * n
                             THEN LET d == wanted[at[i \div 3]]
                                  IN  <<In, Lo(d), Hi(d)>>[(i % 3) + 1]
                             ELSE mem[i]]
              /\ rax' = n
     \/ /\ KernelReady = {} /\ rax' = -1
        /\ UNCHANGED mem
  /\ pc' = "exit"
  /\ UNCHANGED <<programVars, storeVars, maxEvents, list, odd, due, loopVars>>
-----------------------------------------------------------------------------
(* SpySyscallExit for epoll_wait.                                          *)

\* Mutants: the descriptor is not looked up; the registry is walked, not epollList.
CustomUnchecked == {f \in Fd : list[f] # None /\ due[f]}

CustomUnlisted == {f \in Fd : file[f] = "dev"}

\* The entries whose descriptor has a handler and that have waited long enough.
Custom == {f \in Fd : list[f] # None /\ file[f] = "dev" /\ due[f]}

HandleExit ==
  /\ pc = "exit"
  /\ todo' = Custom /\ count' = 0
  /\ pc' = "poke"
  /\ UNCHANGED <<programVars, mem, storeVars, maxEvents, rax, list, odd, due, current, peeked>>

\* Nothing can be read or written where memory ends.
Fails == count = Slots - 1 /\ ends

\* An event: its first word, and a look at the word its last piece is in.
Poke(f) ==
  /\ pc = "poke" /\ f \in todo /\ count < maxEvents
  /\ mem' = [mem EXCEPT ![3 * count] = In, ![3 * count + 1] = Lo(list[f])]
  /\ peeked' = IF Fails THEN Junk ELSE mem[3 * count + 3]
  /\ due' = [due EXCEPT ![f] = FALSE]
  /\ current' = f /\ todo' = todo \ {f}
  /\ pc' = "tail"
  /\ UNCHANGED <<programVars, storeVars, maxEvents, rax, list, odd, count>>

\* Mutant: the rest of the word is filled.
PokeTailWhole ==
  /\ pc = "tail"
  /\ mem' = IF Fails THEN mem
            ELSE [mem EXCEPT ![3 * count + 2] = Hi(list[current]), ![3 * count + 3] = Junk]
  /\ count' = count + 1
  /\ pc' = "poke" /\ current' = None /\ peeked' = Junk
  /\ UNCHANGED <<programVars, storeVars, maxEvents, rax, list, odd, due, todo>>

\* The last piece, with the rest of its word as it was.
PokeTail ==
  /\ pc = "tail"
  /\ mem' = IF Fails THEN mem
            ELSE [mem EXCEPT ![3 * count + 2] = Hi(list[current]), ![3 * count + 3] = peeked]
  /\ count' = count + 1
  /\ pc' = "poke" /\ current' = None /\ peeked' = Junk
  /\ UNCHANGED <<programVars, storeVars, maxEvents, rax, list, odd, due, todo>>

\* Mutant: the count of the kernel's events is always replaced.
FinishAlways ==
  /\ pc = "poke"
  /\ todo = {} \/ count >= maxEvents
  /\ rax' = count
  /\ pc' = "back" /\ todo' = {} /\ count' = 0
  /\ UNCHANGED <<programVars, mem, storeVars, maxEvents, list, odd, due, current, peeked>>

\* The end of the loop: rax is replaced if there were events.
Finish ==
  /\ pc = "poke"
  /\ todo = {} \/ count >= maxEvents
  /\ rax' = IF count > 0 THEN count ELSE rax
  /\ pc' = "back" /\ todo' = {} /\ count' = 0
  /\ UNCHANGED <<programVars, mem, storeVars, maxEvents, list, odd, due, current, peeked>>

Agent == HandleExit \/ (\E f \in Fd : Poke(f)) \/ PokeTail \/ Finish

Next == Program \/ (\E f \in Fd : Input(f) \/ Tick(f)) \/ KernelWait \/ Agent

Spec == Init /\ [][Next]_vars

\* The program goes on waiting, with room for all its descriptors and with a
\* timeout.
FairSpec ==
  /\ Spec
  /\ WF_vars(Agent) /\ WF_vars(KernelWait) /\ WF_vars(Consume)
  /\ \A f \in Fd : WF_vars(Tick(f))
  /\ SF_vars(EpollWait(Slots))
-----------------------------------------------------------------------------
(* Properties.                                                             *)

\* A slot holds an event of f with data d, and f has one to tell of.
Slot(k, f, d) ==
  /\ \/ d = wanted[f] /\ (file[f] = "dev" \/ f \in ready)
     \/ d = list[f] /\ file[f] = "dev" /\ f \in odd
  /\ mem[3 * k] = In /\ mem[3 * k + 1] = Lo(d)
  /\ mem[3 * k + 2] = Hi(d) \/ (k = Slots - 1 /\ ends)

\* The first n slots are events of different descriptors in fds.
Whole(n, fds) ==
  \E at \in [0..n - 1 -> fds], data \in [0..n - 1 -> Data] :
    \A k \in 0..n - 1 : Slot(k, at[k], data[k]) /\ \A j \in 0..k - 1 : at[j] # at[k]

\* What epoll_wait returns are events of different descriptors, as many as there
\* is room for, each of a device or of a descriptor with input, and each with the
\* data it was registered with last: the events the agent writes over the
\* kernel's, in pieces, leave no mixture behind.  An event is wrong only for a
\* descriptor whose own entry has become stale: closed or its epoll instance
\* closed without a DEL, changed with MOD, or refused by the kernel.  And the
\* upper half of the data is missing in the last slot where memory ends behind it.
EventsRight == pc = "back" /\ rax > 0 => rax <= maxEvents /\ Whole(rax, Fd)

\* What lies behind the array is what the program has stored there, except for a
\* store that came between the reading and the writing of the word it shares with
\* the last event.
BehindKept == mem[Behind] = Own(stored) \/ raced

\* A program that waits is told of a device it has registered, unless the entry
\* has become stale.
DeviceHeard ==
  \A f \in Fd :
    (file[f] = "dev" /\ wanted[f] # None) ~>
      (f \in Heard \/ file[f] # "dev" \/ wanted[f] = None \/ f \in odd)

\* An ordinary descriptor with input is reported if, now and then, a call returns
\* within 50 ms of the last event of every device: in all the others the agent's
\* events replace the kernel's, and a program that is slower than that hears of
\* nothing but its devices.
PlainHeard ==
  []<><<HandleExit /\ Custom = {}>>_vars =>
    \A f \in Fd :
      (f \in ready /\ wanted[f] # None) ~> (f \in Heard \/ f \notin ready \/ wanted[f] = None)
=============================================================================
