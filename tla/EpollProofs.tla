------------------------------ MODULE EpollProofs ------------------------------
(***************************************************************************)
(* What holds of Epoll for any descriptors, data and length of the array.  *)
(***************************************************************************)
EXTENDS EpollInv, FiniteSetTheorems, TLAPS

LEMMA Cells ==
  /\ In \in Half /\ Junk \in Half
  /\ \A d \in Data : Lo(d) \in Half /\ Hi(d) \in Half
  /\ \A n \in 0..MaxStores : Own(n) \in Half
BY DEF Half

\* The places in the array.
LEMMA Places ==
  ASSUME NEW n \in 0..Slots - 1
  PROVE  /\ 3 * n \in 0..Behind /\ 3 * n + 1 \in 0..Behind /\ 3 * n + 2 \in 0..Behind
         /\ 3 * n + 3 \in 0..Behind
         /\ 3 * n # Behind /\ 3 * n + 1 # Behind /\ 3 * n + 2 # Behind
         /\ 3 * n + 3 = Behind <=> n = Slots - 1
         /\ Behind \in 0..Behind
         /\ \A k \in 0..n - 1 : /\ k \in 0..Slots - 1 /\ k # Slots - 1
                                /\ 3 * k + 3 <= 3 * n
BY EpollAssumption DEF Behind

\* What the kernel returns.
LEMMA Kernel ==
  ASSUME TypeOK, KernelWait
  PROVE  \/ rax' = -1 /\ mem' = mem
         \/ \E n \in 0..maxEvents : \E at \in [0..n - 1 -> KernelReady] :
              /\ rax' = n /\ IsInjective(at)
              /\ mem' = [i \in 0..Behind |->
                           IF i < 3 * n
                             THEN LET d == wanted[at[i \div 3]]
                                  IN  <<In, Lo(d), Hi(d)>>[(i % 3) + 1]
                             ELSE mem[i]]
<1> DEFINE n == IF Cardinality(KernelReady) < maxEvents
                  THEN Cardinality(KernelReady) ELSE maxEvents
<1>1. Cardinality(KernelReady) \in Nat
  <2>1. KernelReady \subseteq Fd /\ IsFiniteSet(Fd)
    BY EpollAssumption DEF KernelReady, TypeOK
  <2> QED
    BY <2>1, FS_Subset, FS_CardinalityType
<1>2. maxEvents \in 1..Slots
  BY DEF TypeOK
<1>3. n \in 0..maxEvents
  BY <1>1, <1>2, EpollAssumption
<1>4. \/ rax' = -1 /\ mem' = mem
      \/ \E at \in [0..n - 1 -> KernelReady] :
              /\ IsInjective(at)
              /\ mem' = [i \in 0..Behind |->
                           IF i < 3 * n
                             THEN LET d == wanted[at[i \div 3]]
                                  IN  <<In, Lo(d), Hi(d)>>[(i % 3) + 1]
                             ELSE mem[i]]
              /\ rax' = n
  BY DEF KernelWait
<1> HIDE DEF n
<1> QED
  BY <1>3, <1>4

\* The three pieces of an event.
LEMMA Thirds ==
  ASSUME NEW k \in Nat
  PROVE  /\ (3 * k) \div 3 = k /\ (3 * k) % 3 = 0
         /\ (3 * k + 1) \div 3 = k /\ (3 * k + 1) % 3 = 1
         /\ (3 * k + 2) \div 3 = k /\ (3 * k + 2) % 3 = 2
OBVIOUS

LEMMA ThirdOf ==
  ASSUME NEW n \in Nat, NEW i \in Nat, i < 3 * n
  PROVE  i \div 3 \in 0..n - 1 /\ (i % 3) + 1 \in {1, 2, 3}
OBVIOUS

LEMMA KernelEvents ==
  ASSUME TypeOK, KernelWait
  PROVE  /\ mem' \in [0..Behind -> Half] /\ mem'[Behind] = mem[Behind]
         /\ rax' \in -1..Slots /\ rax' <= maxEvents
         /\ rax' > 0 => Whole(rax, Fd)'
<1>1. CASE rax' = -1 /\ mem' = mem
  BY <1>1, EpollAssumption DEF TypeOK
<1>2. ASSUME NEW n \in 0..maxEvents, NEW at \in [0..n - 1 -> KernelReady],
             rax' = n, IsInjective(at),
             mem' = [i \in 0..Behind |->
                           IF i < 3 * n
                             THEN LET d == wanted[at[i \div 3]]
                                  IN  <<In, Lo(d), Hi(d)>>[(i % 3) + 1]
                             ELSE mem[i]]
      PROVE  /\ mem' \in [0..Behind -> Half] /\ mem'[Behind] = mem[Behind]
             /\ rax' \in -1..Slots /\ rax' <= maxEvents
             /\ rax' > 0 => Whole(rax, Fd)'
  <2>1. n \in Nat /\ n <= Slots /\ 3 * n <= Behind /\ Behind \in Nat
    BY <1>2, EpollAssumption DEF TypeOK, Behind
  <2>2. \A k \in 0..n - 1 : /\ at[k] \in Fd /\ at[k] \in ready
                            /\ wanted[at[k]] \in Data
    BY <1>2 DEF KernelReady, TypeOK
  <2>3. mem' \in [0..Behind -> Half]
    <3>1. ASSUME NEW i \in 0..Behind PROVE mem'[i] \in Half
      <4>1. CASE i < 3 * n
        <5>1. i \div 3 \in 0..n - 1 /\ (i % 3) + 1 \in {1, 2, 3}
          BY <2>1, <4>1, ThirdOf
        <5>2. wanted[at[i \div 3]] \in Data
          BY <2>2, <5>1
        <5>3. mem'[i] = <<In, Lo(wanted[at[i \div 3]]), Hi(wanted[at[i \div 3]])>>[(i % 3) + 1]
          BY <1>2, <4>1
        <5> QED
          BY <5>1, <5>2, <5>3, Cells
      <4>2. CASE ~ (i < 3 * n)
        BY <1>2, <4>2 DEF TypeOK
      <4> QED
        BY <4>1, <4>2
    <3> QED
      BY <1>2, <3>1
  <2>4. mem'[Behind] = mem[Behind]
    BY <1>2, <2>1
  <2>5. ASSUME NEW k \in 0..n - 1
        PROVE  /\ mem'[3 * k] = In /\ mem'[3 * k + 1] = Lo(wanted[at[k]])
               /\ mem'[3 * k + 2] = Hi(wanted[at[k]])
    <3>1. /\ 3 * k \in 0..Behind /\ 3 * k + 1 \in 0..Behind /\ 3 * k + 2 \in 0..Behind
          /\ 3 * k < 3 * n /\ 3 * k + 1 < 3 * n /\ 3 * k + 2 < 3 * n /\ k \in Nat
      BY <2>1
    <3>2. /\ mem'[3 * k] = <<In, Lo(wanted[at[k]]), Hi(wanted[at[k]])>>[1]
          /\ mem'[3 * k + 1] = <<In, Lo(wanted[at[k]]), Hi(wanted[at[k]])>>[2]
          /\ mem'[3 * k + 2] = <<In, Lo(wanted[at[k]]), Hi(wanted[at[k]])>>[3]
      BY <1>2, <3>1, Thirds
    <3> QED
      BY <3>2
  <2>6. Whole(rax, Fd)'
    <3>1. PICK data \in [0..n - 1 -> Data] : \A k \in 0..n - 1 : data[k] = wanted[at[k]]
      <4> USE <2>2
      <4> WITNESS [k \in 0..n - 1 |-> wanted[at[k]]] \in [0..n - 1 -> Data]
      <4> QED
        OBVIOUS
    <3> at \in [0..n - 1 -> Fd]
      BY <2>2
    <3>2. UNCHANGED <<wanted, file, ready, list, odd, ends>>
      BY DEF KernelWait, programVars
    <3>3. \A k \in 0..n - 1 : Slot(k, at[k], data[k])'
      BY <2>2, <2>5, <3>1, <3>2 DEF Slot
    <3>4. \A k \in 0..n - 1 : \A j \in 0..k - 1 : at[j] # at[k]
      BY <1>2, <2>1 DEF IsInjective
    <3> QED
      BY <1>2, <3>1, <3>3, <3>4 DEF Whole
  <2>7. rax' \in -1..Slots /\ rax' <= maxEvents
    BY <1>2, <2>1 DEF TypeOK
  <2> QED
    BY <2>3, <2>4, <2>6, <2>7
<1> QED
  BY <1>1, <1>2, Kernel
-----------------------------------------------------------------------------
(* ArrayInv is an invariant.                                               *)

LEMMA WholeKept ==
  ASSUME NEW n, NEW fds, NEW gds, fds \subseteq gds, Whole(n, fds),
         \A k \in 0..n - 1, f \in fds, d \in Data : Slot(k, f, d) => Slot(k, f, d)'
  PROVE  Whole(n, gds)'
<1>1. PICK at \in [0..n - 1 -> fds], data \in [0..n - 1 -> Data] :
        \A k \in 0..n - 1 : Slot(k, at[k], data[k]) /\ \A j \in 0..k - 1 : at[j] # at[k]
  BY DEF Whole
<1>2. at \in [0..n - 1 -> gds]
  OBVIOUS
<1>3. \A k \in 0..n - 1 : Slot(k, at[k], data[k])'
  BY <1>1
<1> QED
  BY <1>1, <1>2, <1>3 DEF Whole

LEMMA ArrayInit == Init => ArrayInv
<1> SUFFICES ASSUME Init PROVE ArrayInv
  OBVIOUS
<1> USE EpollAssumption
<1>1. EmptyArray \in [0..Behind -> Half] /\ EmptyArray[Behind] = Own(0)
  BY Cells DEF EmptyArray, Behind
<1>2. TypeOK
  <2>1. /\ file \in [Fd -> {"closed", "plain", "dev"}] /\ wanted \in [Fd -> Data \cup {None}]
        /\ list \in [Fd -> Data \cup {None}] /\ due \in [Fd -> BOOLEAN]
        /\ ready \subseteq Fd /\ odd \subseteq Fd /\ todo \subseteq Fd
        /\ current \in Fd \cup {None}
    BY DEF Init
  <2>2. /\ mem \in [0..Behind -> Half] /\ peeked \in Half
    BY <1>1, Cells DEF Init
  <2>3. /\ ends \in BOOLEAN /\ raced \in BOOLEAN
        /\ pc \in {"user", "kernel", "exit", "poke", "tail", "back"}
    BY DEF Init
  <2>4. /\ stored \in 0..MaxStores
        /\ maxEvents \in 1..Slots /\ rax \in -1..Slots /\ count \in 0..Slots
    BY DEF Init
  <2> QED
    BY <2>1, <2>2, <2>3, <2>4 DEF TypeOK
<1>3. Listed /\ BehindKept
  BY <1>1 DEF Init, Listed, BehindKept
<1>4. Loop /\ Returned
  BY DEF Init, Loop, Returned
<1> QED
  BY <1>2, <1>3, <1>4 DEF ArrayInv

\* While the program's own code runs, the loop and the array do not matter.
LEMMA UserStep ==
  ASSUME ArrayInv, pc = "user", UNCHANGED <<ends, mem, storeVars, callVars, loopVars>>,
         file' \in [Fd -> {"closed", "plain", "dev"}],
         wanted' \in [Fd -> Data \cup {None}], ready' \subseteq Fd,
         list' \in [Fd -> Data \cup {None}], due' \in [Fd -> BOOLEAN], odd' \subseteq Fd,
         Listed'
  PROVE  ArrayInv'
<1>1. TypeOK'
  BY DEF ArrayInv, TypeOK, storeVars, callVars, loopVars
<1>2. Loop' /\ BehindKept' /\ Returned'
  BY DEF ArrayInv, Loop, BehindKept, Returned, storeVars, callVars, loopVars
<1> QED
  BY <1>1, <1>2 DEF ArrayInv

LEMMA Updated ==
  ASSUME NEW S, NEW T, NEW g \in [S -> T], NEW x \in S, NEW v \in T
  PROVE  [g EXCEPT ![x] = v] \in [S -> T]
OBVIOUS

LEMMA FilesStep ==
  ASSUME ArrayInv, NEW f \in Fd, OpenFile(f) \/ CloseFile(f)
  PROVE  ArrayInv'
<1>1. TypeOK /\ Listed
  BY DEF ArrayInv
<1>2. CASE OpenFile(f)
  <2>1. file' \in [Fd -> {"closed", "plain", "dev"}]
    <3>1. PICK kind \in Kinds[f] : file' = [file EXCEPT ![f] = kind]
      BY <1>2 DEF OpenFile
    <3>2. kind \in {"closed", "plain", "dev"}
      BY EpollAssumption
    <3> QED
      BY <1>1, <3>1, <3>2, Updated DEF TypeOK
  <2>2. Listed'
    BY <1>1, <1>2 DEF OpenFile, Listed
  <2>3. /\ pc = "user" /\ UNCHANGED <<ends, mem, storeVars, callVars, loopVars>>
        /\ UNCHANGED <<wanted, ready, list, odd, due>>
    BY <1>2 DEF OpenFile
  <2> QED
    BY <1>1, <2>1, <2>2, <2>3, UserStep DEF TypeOK
<1>3. CASE CloseFile(f)
  <2>1. /\ pc = "user" /\ UNCHANGED <<ends, mem, storeVars, callVars, loopVars>>
        /\ file' = [file EXCEPT ![f] = "closed"] /\ wanted' = [wanted EXCEPT ![f] = None]
        /\ ready' = ready \ {f} /\ UNCHANGED <<list, due>>
        /\ odd' = IF wanted[f] # None THEN odd \cup {f} ELSE odd
    BY <1>3 DEF CloseFile
  <2>2. /\ file' \in [Fd -> {"closed", "plain", "dev"}]
        /\ wanted' \in [Fd -> Data \cup {None}] /\ odd' \subseteq Fd
    BY <1>1, <2>1 DEF TypeOK
  <2>3. Listed'
    BY <1>1, <2>1 DEF Listed, TypeOK
  <2> QED
    BY <1>1, <2>1, <2>2, <2>3, UserStep DEF TypeOK
<1> QED
  BY <1>2, <1>3

LEMMA EpollCtlStep ==
  ASSUME ArrayInv, NEW f \in Fd, NEW d \in Data, NEW op \in {"ADD", "MOD", "DEL"},
         EpollCtl(op, f, d)
  PROVE  ArrayInv'
<1>1. TypeOK /\ Listed
  BY DEF ArrayInv
<1>2. /\ pc = "user" /\ UNCHANGED <<ends, mem, storeVars, callVars, loopVars>>
      /\ UNCHANGED <<file, ready>>
  BY DEF EpollCtl
<1>3. /\ list' \in [Fd -> Data \cup {None}] /\ due' \in [Fd -> BOOLEAN]
      /\ \A g \in Fd \ {f} : list'[g] = list[g]
  BY <1>1, ZenonT(60) DEF EpollCtl, EpollList, TypeOK
<1>4. /\ wanted' \in [Fd -> Data \cup {None}] /\ odd' \subseteq Fd
      /\ \A g \in Fd \ {f} : wanted'[g] = wanted[g] /\ (g \in odd' <=> g \in odd)
  BY <1>1 DEF EpollCtl, TypeOK
<1>5. list'[f] # None => list'[f] = wanted'[f] \/ f \in odd'
  <2>1. CASE op = "ADD" /\ list[f] = None
    BY <1>1, <2>1 DEF EpollCtl, EpollList, TypeOK
  <2>2. CASE op = "ADD" /\ list[f] # None
    <3>1. list' = list
      BY <2>2 DEF EpollCtl, EpollList
    <3>2. f \in odd \/ wanted[f] = list[f]
      BY <1>1, <2>2 DEF Listed
    <3> QED
      BY <1>1, <2>2, <3>1, <3>2 DEF EpollCtl, TypeOK
  <2>3. CASE op = "MOD"
    <3>1. list' = list
      BY <2>3 DEF EpollCtl, EpollList
    <3>2. list[f] # None => f \in odd \/ wanted[f] = list[f]
      BY <1>1 DEF Listed
    <3> QED
      BY <1>1, <2>3, <3>1, <3>2 DEF EpollCtl, TypeOK
  <2>4. CASE op = "DEL"
    BY <1>1, <2>4 DEF EpollCtl, EpollList, TypeOK
  <2> QED
    BY <2>1, <2>2, <2>3, <2>4
<1>6. Listed'
  BY <1>1, <1>3, <1>4, <1>5 DEF Listed
<1> QED
  BY <1>1, <1>2, <1>3, <1>4, <1>6, UserStep DEF TypeOK

LEMMA ReopenStep ==
  ASSUME ArrayInv, ReopenEpoll
  PROVE  ArrayInv'
<1>1. TypeOK /\ Listed
  BY DEF ArrayInv
<1>2. /\ pc = "user" /\ UNCHANGED <<ends, mem, storeVars, callVars, loopVars>>
      /\ UNCHANGED <<file, ready, list, due>> /\ wanted' = [f \in Fd |-> None]
      /\ odd' = odd \cup {f \in Fd : wanted[f] # None}
  BY DEF ReopenEpoll
<1>3. Listed'
  BY <1>1, <1>2 DEF Listed
<1> QED
  BY <1>1, <1>2, <1>3, UserStep DEF TypeOK

\* A store behind the array leaves the events alone.
LEMMA SlotsKept ==
  ASSUME TypeOK, NEW n \in 0..Slots,
         UNCHANGED <<wanted, file, list, odd, ends>>, ready \subseteq ready',
         \A i \in 0..Behind : i < 3 * n => mem'[i] = mem[i]
  PROVE  \A k \in 0..n - 1, f \in Fd, d \in Data : Slot(k, f, d) => Slot(k, f, d)'
<1> SUFFICES ASSUME NEW k \in 0..n - 1, NEW f \in Fd, NEW d \in Data, Slot(k, f, d)
             PROVE  Slot(k, f, d)'
  OBVIOUS
<1>1. /\ 3 * k \in 0..Behind /\ 3 * k + 1 \in 0..Behind /\ 3 * k + 2 \in 0..Behind
      /\ 3 * k < 3 * n /\ 3 * k + 1 < 3 * n /\ 3 * k + 2 < 3 * n
  BY EpollAssumption DEF Behind
<1>2. mem'[3 * k] = mem[3 * k] /\ mem'[3 * k + 1] = mem[3 * k + 1]
      /\ mem'[3 * k + 2] = mem[3 * k + 2]
  BY <1>1
<1> QED
  BY <1>2 DEF Slot

\* Returned does not change while the array, the place in the loop and what the
\* events are about do not.
LEMMA ReturnedKept ==
  ASSUME TypeOK, Returned,
         UNCHANGED <<wanted, file, list, odd, ends, callVars, todo, current, count>>,
         ready \subseteq ready', \A i \in 0..Behind : i # Behind => mem'[i] = mem[i]
  PROVE  Returned'
<1>1. \A k \in 0..Slots - 1, f \in Fd, d \in Data : Slot(k, f, d) => Slot(k, f, d)'
  <2>1. \A i \in 0..Behind : i < 3 * Slots => mem'[i] = mem[i]
    BY EpollAssumption DEF Behind
  <2>2. Slots \in 0..Slots
    BY EpollAssumption
  <2> QED
    BY <2>1, <2>2, SlotsKept
<1>2. ASSUME NEW n \in 0..Slots, NEW fds \in SUBSET Fd, Whole(n, fds)
      PROVE  Whole(n, fds)'
  <2>1. \A k \in 0..n - 1 : k \in 0..Slots - 1
    BY EpollAssumption
  <2> QED
    BY <1>1, <1>2, <2>1, WholeKept
<1>3. pc \in {"poke", "tail"} => Whole(count, Fd \ (todo \cup {current}))'
  BY <1>2 DEF TypeOK, Returned
<1>4. (pc \in {"exit", "back"} \/ (pc = "poke" /\ count = 0)) /\ rax > 0 =>
        rax <= maxEvents /\ Whole(rax, Fd)'
  <2> SUFFICES ASSUME (pc \in {"exit", "back"} \/ (pc = "poke" /\ count = 0)) /\ rax > 0
               PROVE  rax <= maxEvents /\ Whole(rax, Fd)'
    OBVIOUS
  <2>1. rax \in 0..Slots
    BY EpollAssumption DEF TypeOK
  <2>2. rax <= maxEvents /\ Whole(rax, Fd)
    BY DEF Returned
  <2>3. rax' = rax
    BY DEF callVars
  <2> QED
    BY <1>2, <2>1, <2>2, <2>3
<1> QED
  BY <1>3, <1>4 DEF Returned, callVars

LEMMA InputStep ==
  ASSUME ArrayInv, NEW f \in Fd, Input(f) \/ Tick(f)
  PROVE  ArrayInv'
<1>1. TypeOK /\ Listed /\ Loop /\ BehindKept /\ Returned
  BY DEF ArrayInv
<1>2. /\ UNCHANGED <<wanted, file, list, odd, ends, callVars, todo, current, count>>
      /\ UNCHANGED <<mem, storeVars, peeked>>
      /\ ready \subseteq ready' /\ ready' \subseteq Fd /\ due' \in [Fd -> BOOLEAN]
  BY <1>1 DEF Input, Tick, TypeOK, programVars, loopVars
<1>3. TypeOK'
  BY <1>1, <1>2 DEF TypeOK, storeVars, callVars
<1>4. Listed' /\ Loop' /\ BehindKept'
  BY <1>1, <1>2 DEF Listed, Loop, BehindKept, Fails, storeVars, callVars
<1>5. Returned'
  BY <1>1, <1>2, ReturnedKept
<1> QED
  BY <1>3, <1>4, <1>5 DEF ArrayInv

LEMMA StoreStep ==
  ASSUME ArrayInv, Store
  PROVE  ArrayInv'
<1>1. TypeOK /\ Listed /\ Loop /\ BehindKept /\ Returned
  BY DEF ArrayInv
<1>2. /\ UNCHANGED <<wanted, file, ready, list, odd, ends, due, callVars>>
      /\ UNCHANGED <<todo, current, count, peeked>>
      /\ pc \notin {"user", "back"} /\ ~ends /\ stored < MaxStores /\ stored' = stored + 1
      /\ mem' = [mem EXCEPT ![Behind] = Own(stored')]
      /\ raced' = (pc = "tail" /\ count = Slots - 1)
  BY DEF Store, programVars, loopVars
<1>3. stored' \in 0..MaxStores /\ Behind \in 0..Behind
  BY <1>1, <1>2, EpollAssumption DEF TypeOK, Behind
<1>4. mem' \in [0..Behind -> Half] /\ mem'[Behind] = Own(stored')
      /\ \A i \in 0..Behind : i # Behind => mem'[i] = mem[i]
  BY <1>1, <1>2, <1>3, Cells DEF TypeOK
<1>5. TypeOK'
  <2>1. raced' \in BOOLEAN
    BY <1>2
  <2> QED
    BY <1>1, <1>2, <1>3, <1>4, <2>1 DEF TypeOK, callVars
<1>6. Listed' /\ BehindKept'
  BY <1>1, <1>2, <1>4 DEF Listed, BehindKept
<1>7. Loop'
  <2>1. CASE pc = "tail"
    <3>1. count \in 0..Slots - 1
      BY <1>1, <2>1, EpollAssumption DEF Loop, TypeOK
    <3>2. mem'[3 * count] = mem[3 * count] /\ mem'[3 * count + 1] = mem[3 * count + 1]
      BY <1>4, <3>1, Places
    <3>3. count = Slots - 1 => raced'
      BY <1>2, <2>1
    <3> QED
      BY <1>1, <1>2, <2>1, <3>2, <3>3 DEF Loop, Fails, callVars
  <2>2. CASE pc # "tail"
    BY <1>1, <1>2, <2>2 DEF Loop, callVars
  <2> QED
    BY <2>1, <2>2
<1>8. Returned'
  BY <1>1, <1>2, <1>4, ReturnedKept
<1> QED
  BY <1>5, <1>6, <1>7, <1>8 DEF ArrayInv

LEMMA CallStep ==
  ASSUME ArrayInv, Consume \/ \E max \in 1..Slots : EpollWait(max)
  PROVE  ArrayInv'
<1>1. TypeOK /\ Listed /\ Loop /\ BehindKept /\ Returned
  BY DEF ArrayInv
<1>2. CASE Consume
  <2>1. /\ pc = "back" /\ pc' = "user" /\ rax' = 0 /\ maxEvents' = Slots
        /\ ready' \subseteq Fd /\ mem' = EmptyArray /\ stored' = 0 /\ raced' = FALSE
        /\ UNCHANGED <<file, wanted, ends, list, odd, due, todo, current, count, peeked>>
    BY <1>1, <1>2 DEF Consume, TypeOK, loopVars
  <2>2. EmptyArray \in [0..Behind -> Half] /\ EmptyArray[Behind] = Own(0)
    BY EpollAssumption, Cells DEF EmptyArray, Behind
  <2>3. TypeOK'
    <3>1. stored' \in 0..MaxStores /\ maxEvents' \in 1..Slots /\ rax' \in -1..Slots
      BY <2>1, EpollAssumption
    <3> QED
      BY <1>1, <2>1, <2>2, <3>1 DEF TypeOK
  <2>4. Loop'
    <3>1. count' = 0 /\ count' <= maxEvents' /\ current' = None
      BY <1>1, <2>1, EpollAssumption DEF Loop
    <3> QED
      BY <2>1, <3>1 DEF Loop
  <2> QED
    BY <1>1, <2>1, <2>2, <2>3, <2>4 DEF ArrayInv, Listed, BehindKept, Returned
<1>3. CASE \E max \in 1..Slots : EpollWait(max)
  <2>1. /\ pc = "user" /\ pc' = "kernel" /\ maxEvents' \in 1..Slots /\ rax' = 0
        /\ UNCHANGED <<file, wanted, ready, ends, mem, stored, raced, list, odd, due>>
        /\ UNCHANGED <<todo, current, count, peeked>>
    BY <1>3 DEF EpollWait, programVars, storeVars, loopVars
  <2>2. TypeOK'
    <3>1. rax' \in -1..Slots
      BY <2>1, EpollAssumption
    <3> QED
      BY <1>1, <2>1, <3>1 DEF TypeOK
  <2>3. Loop'
    <3>1. count' = 0 /\ count' <= maxEvents' /\ current' = None
      BY <1>1, <2>1, EpollAssumption DEF Loop
    <3> QED
      BY <2>1, <3>1 DEF Loop
  <2> QED
    BY <1>1, <2>1, <2>2, <2>3 DEF ArrayInv, Listed, BehindKept, Returned
<1> QED
  BY <1>2, <1>3

LEMMA KernelStep ==
  ASSUME ArrayInv, KernelWait
  PROVE  ArrayInv'
<1>1. TypeOK /\ Listed /\ Loop /\ BehindKept /\ Returned
  BY DEF ArrayInv
<1>2. /\ pc = "kernel" /\ pc' = "exit"
      /\ UNCHANGED <<file, wanted, ready, ends, stored, raced, maxEvents, list, odd, due>>
      /\ UNCHANGED <<todo, current, count, peeked>>
  BY DEF KernelWait, programVars, storeVars, loopVars
<1>3. /\ mem' \in [0..Behind -> Half] /\ mem'[Behind] = mem[Behind]
      /\ rax' \in -1..Slots /\ rax' <= maxEvents
      /\ rax' > 0 => Whole(rax, Fd)'
  BY <1>1, KernelEvents
<1>4. TypeOK'
  BY <1>1, <1>2, <1>3 DEF TypeOK
<1>5. Listed' /\ Loop' /\ BehindKept'
  BY <1>1, <1>2, <1>3 DEF Listed, Loop, BehindKept
<1>6. Returned'
  BY <1>2, <1>3 DEF Returned
<1> QED
  BY <1>4, <1>5, <1>6 DEF ArrayInv

LEMMA ExitStep ==
  ASSUME ArrayInv, HandleExit
  PROVE  ArrayInv'
<1>1. TypeOK /\ Listed /\ Loop /\ BehindKept /\ Returned
  BY DEF ArrayInv
<1>2. /\ pc = "exit" /\ pc' = "poke" /\ todo' = Custom /\ count' = 0
      /\ UNCHANGED <<file, wanted, ready, ends, mem, stored, raced, maxEvents, rax>>
      /\ UNCHANGED <<list, odd, due, current, peeked>>
  BY DEF HandleExit, programVars, storeVars
<1>3. Custom \subseteq Fd /\ \A f \in Custom : list[f] # None /\ file[f] = "dev"
  BY DEF Custom
<1>4. TypeOK'
  <2>1. count' \in 0..Slots
    BY <1>2, EpollAssumption
  <2> QED
    BY <1>1, <1>2, <1>3, <2>1 DEF TypeOK
<1>5. Listed' /\ BehindKept'
  BY <1>1, <1>2 DEF Listed, BehindKept
<1>6. Loop'
  <2>1. count' <= maxEvents'
    BY <1>1, <1>2, EpollAssumption DEF TypeOK
  <2> QED
    BY <1>1, <1>2, <1>3, <2>1 DEF Loop
<1>7. Returned'
  <2>1. Whole(count, Fd \ (todo \cup {current}))'
    <3>1. PICK none \in [0..0 - 1 -> {}] : TRUE
      <4>1. [k \in 0..0 - 1 |-> None] \in [0..0 - 1 -> {}]
        OBVIOUS
      <4> QED
        BY <4>1
    <3>2. /\ none \in [0..count' - 1 -> Fd \ (todo' \cup {current'})]
          /\ none \in [0..count' - 1 -> Data]
      BY <1>2, <3>1
    <3>3. \A k \in 0..count' - 1 : FALSE
      BY <1>2
    <3> QED
      BY <3>2, <3>3 DEF Whole
  <2>2. rax > 0 => rax <= maxEvents /\ Whole(rax, Fd)'
    <3> SUFFICES ASSUME rax > 0 PROVE rax <= maxEvents /\ Whole(rax, Fd)'
      OBVIOUS
    <3>1. rax <= maxEvents /\ Whole(rax, Fd)
      BY <1>1, <1>2 DEF Returned
    <3>2. PICK n : n = rax
      OBVIOUS
    <3>3. Whole(n, Fd)'
      <4>1. \A k \in 0..n - 1, f \in Fd, d \in Data : Slot(k, f, d) => Slot(k, f, d)'
        BY <1>2 DEF Slot
      <4>2. Whole(n, Fd)
        BY <3>1, <3>2
      <4> QED
        BY <4>1, <4>2, WholeKept
    <3>4. rax' = n
      BY <1>2, <3>2
    <3> QED
      BY <3>1, <3>3, <3>4
  <2> QED
    BY <1>2, <2>1, <2>2 DEF Returned
<1> QED
  BY <1>4, <1>5, <1>6, <1>7 DEF ArrayInv

LEMMA FinishStep ==
  ASSUME ArrayInv, Finish
  PROVE  ArrayInv'
<1>1. TypeOK /\ Listed /\ Loop /\ BehindKept /\ Returned
  BY DEF ArrayInv
<1>2. /\ pc = "poke" /\ pc' = "back" /\ rax' = (IF count > 0 THEN count ELSE rax)
      /\ todo' = {} /\ count' = 0
      /\ UNCHANGED <<file, wanted, ready, ends, mem, stored, raced, maxEvents>>
      /\ UNCHANGED <<list, odd, due, current, peeked>>
  BY DEF Finish, programVars, storeVars
<1>3. TypeOK'
  <2>1. rax' \in -1..Slots
    BY <1>1, <1>2, EpollAssumption DEF TypeOK
  <2>2. count' \in 0..Slots
    BY <1>2, EpollAssumption
  <2> QED
    BY <1>1, <1>2, <2>1, <2>2 DEF TypeOK
<1>4. Listed' /\ BehindKept'
  BY <1>1, <1>2 DEF Listed, BehindKept
<1>5. Loop'
  <2>1. count' <= maxEvents'
    BY <1>1, <1>2, EpollAssumption DEF TypeOK
  <2> QED
    BY <1>1, <1>2, <2>1 DEF Loop
<1>6. Returned'
  <2> SUFFICES ASSUME rax' > 0 PROVE rax' <= maxEvents /\ Whole(rax, Fd)'
    BY <1>2 DEF Returned
  <2>1. PICK n : n = rax'
    OBVIOUS
  <2>2. n <= maxEvents /\ \E fds \in SUBSET Fd : Whole(n, fds)
    <3>1. CASE count > 0
      BY <1>1, <1>2, <2>1, <3>1 DEF Loop, Returned
    <3>2. CASE ~ (count > 0)
      <4>1. count = 0 /\ rax' = rax
        BY <1>1, <1>2, <3>2, EpollAssumption DEF TypeOK
      <4>2. rax <= maxEvents /\ Whole(rax, Fd)
        BY <1>1, <1>2, <4>1 DEF Returned
      <4> QED
        BY <2>1, <4>1, <4>2
    <3> QED
      BY <3>1, <3>2
  <2>3. PICK fds \in SUBSET Fd : Whole(n, fds)
    BY <2>2
  <2>4. \A k \in 0..n - 1, f \in fds, d \in Data : Slot(k, f, d) => Slot(k, f, d)'
    BY <1>2 DEF Slot
  <2>5. Whole(n, Fd)'
    BY <2>3, <2>4, WholeKept
  <2> QED
    BY <2>1, <2>2, <2>5
<1> QED
  BY <1>3, <1>4, <1>5, <1>6 DEF ArrayInv

\* The events written already lie before the slot that is being written.
LEMMA WrittenKept ==
  ASSUME TypeOK, NEW n \in 0..Slots - 1, NEW fds \in SUBSET Fd, Whole(n, fds),
         UNCHANGED <<wanted, file, ready, list, odd, ends>>,
         \A i \in 0..Behind : i < 3 * n => mem'[i] = mem[i]
  PROVE  Whole(n, fds)'
<1>1. n \in 0..Slots /\ ready \subseteq ready'
  BY EpollAssumption
<1>2. \A k \in 0..n - 1, f \in fds, d \in Data : Slot(k, f, d) => Slot(k, f, d)'
  BY <1>1, SlotsKept
<1> QED
  BY <1>2, WholeKept

LEMMA PokeStep ==
  ASSUME ArrayInv, NEW f \in Fd, Poke(f)
  PROVE  ArrayInv'
<1>1. TypeOK /\ Listed /\ Loop /\ BehindKept /\ Returned
  BY DEF ArrayInv
<1>2. /\ pc = "poke" /\ pc' = "tail" /\ f \in todo /\ count < maxEvents
      /\ mem' = [mem EXCEPT ![3 * count] = In, ![3 * count + 1] = Lo(list[f])]
      /\ peeked' = IF Fails THEN Junk ELSE mem[3 * count + 3]
      /\ due' = [due EXCEPT ![f] = FALSE] /\ current' = f /\ todo' = todo \ {f}
      /\ UNCHANGED <<file, wanted, ready, ends, stored, raced, maxEvents, rax>>
      /\ UNCHANGED <<list, odd, count>>
  BY DEF Poke, programVars, storeVars
<1>3. PICK n \in 0..Slots - 1 : n = count
  BY <1>1, <1>2, EpollAssumption DEF TypeOK
<1>4. PICK d \in Data : d = list[f]
  BY <1>1, <1>2 DEF Loop, TypeOK
<1>5. /\ 3 * n \in 0..Behind /\ 3 * n + 1 \in 0..Behind /\ 3 * n + 3 \in 0..Behind
      /\ 3 * n # Behind /\ 3 * n + 1 # Behind /\ Behind \in 0..Behind
      /\ (n = Slots - 1 => 3 * n + 3 = Behind)
  BY Places
<1>6. mem' = [mem EXCEPT ![3 * n] = In, ![3 * n + 1] = Lo(d)]
  BY <1>2, <1>3, <1>4
<1>7. /\ mem' \in [0..Behind -> Half] /\ mem'[3 * n] = In /\ mem'[3 * n + 1] = Lo(d)
      /\ \A i \in 0..Behind : i # 3 * n /\ i # 3 * n + 1 => mem'[i] = mem[i]
  BY <1>1, <1>5, <1>6, Cells DEF TypeOK
<1>8. TypeOK'
  <2>1. peeked' \in Half
    BY <1>1, <1>2, <1>3, <1>5, Cells DEF TypeOK
  <2>2. due' \in [Fd -> BOOLEAN]
    BY <1>1, <1>2 DEF TypeOK
  <2> QED
    BY <1>1, <1>2, <1>7, <2>1, <2>2 DEF TypeOK
<1>9. Listed' /\ BehindKept'
  BY <1>1, <1>2, <1>5, <1>7 DEF Listed, BehindKept
<1>10. Loop'
  <2>1. mem'[3 * count'] = In /\ mem'[3 * count' + 1] = Lo(list'[current'])
    BY <1>2, <1>3, <1>4, <1>7
  <2>2. ~ Fails' /\ count' = Slots - 1 => peeked' = Own(stored') \/ raced'
    <3> SUFFICES ASSUME ~ Fails', count' = Slots - 1
                 PROVE  peeked' = Own(stored') \/ raced'
      OBVIOUS
    <3>1. ~ Fails /\ n = Slots - 1
      BY <1>2, <1>3 DEF Fails
    <3>2. peeked' = mem[Behind]
      BY <1>2, <1>3, <1>5, <3>1
    <3> QED
      BY <1>1, <1>2, <3>2 DEF BehindKept
  <2>3. /\ count' <= maxEvents' /\ count' < maxEvents' /\ pc' = "tail"
        /\ \A g \in todo' : list'[g] # None /\ file'[g] = "dev"
        /\ current' \in Fd /\ current' \notin todo'
        /\ list'[current'] # None /\ file'[current'] = "dev"
    BY <1>1, <1>2 DEF Loop
  <2> QED
    BY <2>1, <2>2, <2>3 DEF Loop
<1>11. Returned'
  <2>1. PICK fds \in SUBSET Fd : fds = Fd \ (todo \cup {current})
    OBVIOUS
  <2>2. fds = Fd \ (todo' \cup {current'})
    <3>1. current = None /\ todo \subseteq Fd
      BY <1>1, <1>2 DEF Loop, TypeOK
    <3> QED
      BY <1>2, <2>1, <3>1, EpollAssumption
  <2>3. Whole(n, fds)
    BY <1>1, <1>2, <1>3, <2>1 DEF Returned
  <2>4. \A i \in 0..Behind : i < 3 * n => mem'[i] = mem[i]
    BY <1>7, EpollAssumption DEF Behind
  <2>5. Whole(n, fds)'
    BY <1>1, <1>2, <2>3, <2>4, WrittenKept
  <2>6. count' = n
    BY <1>2, <1>3
  <2> QED
    BY <1>2, <2>2, <2>5, <2>6 DEF Returned
<1> QED
  BY <1>8, <1>9, <1>10, <1>11 DEF ArrayInv

LEMMA PokeTailStep ==
  ASSUME ArrayInv, PokeTail
  PROVE  ArrayInv'
<1>1. TypeOK /\ Listed /\ Loop /\ BehindKept /\ Returned
  BY DEF ArrayInv
<1>2. /\ pc = "tail" /\ pc' = "poke" /\ count' = count + 1
      /\ mem' = IF Fails THEN mem
                ELSE [mem EXCEPT ![3 * count + 2] = Hi(list[current]),
                                 ![3 * count + 3] = peeked]
      /\ current' = None /\ peeked' = Junk
      /\ UNCHANGED <<file, wanted, ready, ends, stored, raced, maxEvents, rax>>
      /\ UNCHANGED <<list, odd, due, todo>>
  BY DEF PokeTail, programVars, storeVars
<1>3. PICK n \in 0..Slots - 1 : n = count
  BY <1>1, <1>2, EpollAssumption DEF TypeOK, Loop
<1>4. PICK f \in Fd : f = current
  BY <1>1, <1>2 DEF Loop
<1>5. PICK d \in Data : d = list[f]
  BY <1>1, <1>2, <1>4 DEF Loop, TypeOK
<1>6. /\ 3 * n \in 0..Behind /\ 3 * n + 1 \in 0..Behind
      /\ 3 * n + 2 \in 0..Behind /\ 3 * n + 3 \in 0..Behind
      /\ 3 * n + 2 # Behind /\ Behind \in 0..Behind
      /\ (3 * n + 3 = Behind <=> n = Slots - 1)
  BY Places
<1>7. mem' = IF Fails THEN mem ELSE [mem EXCEPT ![3 * n + 2] = Hi(d), ![3 * n + 3] = peeked]
  BY <1>2, <1>3, <1>4, <1>5
<1>8. /\ mem' \in [0..Behind -> Half]
      /\ \A i \in 0..Behind : i # 3 * n + 2 /\ i # 3 * n + 3 => mem'[i] = mem[i]
      /\ ~ Fails => mem'[3 * n + 2] = Hi(d) /\ mem'[3 * n + 3] = peeked
  <2>1. peeked \in Half /\ mem \in [0..Behind -> Half] /\ Hi(d) \in Half
    BY <1>1, Cells DEF TypeOK
  <2>2. CASE Fails
    BY <1>7, <2>1, <2>2
  <2>3. CASE ~ Fails
    <3>1. mem' = [mem EXCEPT ![3 * n + 2] = Hi(d), ![3 * n + 3] = peeked]
      BY <1>7, <2>3
    <3> QED
      BY <1>6, <2>1, <3>1, SMTT(30)
  <2> QED
    BY <2>2, <2>3
<1>9. n + 1 \in 0..Slots /\ count' = n + 1 /\ n + 1 <= maxEvents
  BY <1>1, <1>2, <1>3, EpollAssumption DEF Loop, TypeOK
<1>10. TypeOK'
  <2>1. peeked' \in Half /\ count' \in 0..Slots /\ current' \in Fd \cup {None}
    BY <1>2, <1>9, Cells
  <2> QED
    BY <1>1, <1>2, <1>8, <2>1 DEF TypeOK
<1>11. Listed' /\ BehindKept'
  <2>1. mem'[Behind] = Own(stored) \/ raced
    <3>1. CASE n = Slots - 1 /\ ~ Fails
      <4>1. mem'[Behind] = peeked
        BY <1>6, <1>8, <3>1
      <4>2. peeked = Own(stored) \/ raced
        BY <1>1, <1>2, <1>3, <3>1 DEF Loop
      <4> QED
        BY <4>1, <4>2
    <3>2. CASE n # Slots - 1
      <4>1. mem'[Behind] = mem[Behind]
        BY <1>6, <1>8, <3>2
      <4> QED
        BY <1>1, <4>1 DEF BehindKept
    <3>3. CASE Fails
      BY <1>1, <1>7, <3>3 DEF BehindKept
    <3> QED
      BY <3>1, <3>2, <3>3
  <2> QED
    BY <1>1, <1>2, <2>1 DEF Listed, BehindKept
<1>12. Loop'
  <2>1. \A g \in todo' : list'[g] # None /\ file'[g] = "dev"
    BY <1>1, <1>2 DEF Loop
  <2> QED
    BY <1>2, <1>9, <2>1 DEF Loop
<1>13. Returned'
  <2>1. PICK fds \in SUBSET Fd : fds = Fd \ (todo \cup {current})
    OBVIOUS
  <2>2. PICK gds \in SUBSET Fd : gds = Fd \ (todo' \cup {current'})
    OBVIOUS
  <2>3. f \notin fds /\ f \in gds /\ fds \subseteq gds
    <3>1. f \notin todo /\ f # None
      BY <1>1, <1>2, <1>4, EpollAssumption DEF Loop
    <3>2. None \notin Fd
      BY EpollAssumption
    <3> QED
      BY <1>2, <1>4, <2>1, <2>2, <3>1, <3>2
  <2>4. Whole(n, fds)
    BY <1>1, <1>2, <1>3, <2>1 DEF Returned
  <2>5. \A i \in 0..Behind : i < 3 * n + 2 => mem'[i] = mem[i]
    BY <1>6, <1>8, EpollAssumption DEF Behind
  <2>6. Whole(n, fds)'
    <3>1. \A i \in 0..Behind : i < 3 * n => mem'[i] = mem[i]
      BY <2>5, EpollAssumption DEF Behind
    <3> QED
      BY <1>1, <1>2, <2>4, <3>1, WrittenKept
  <2>7. Slot(n, f, d)'
    <3>1. mem'[3 * n] = In /\ mem'[3 * n + 1] = Lo(d)
      <4>1. mem[3 * n] = In /\ mem[3 * n + 1] = Lo(d)
        BY <1>1, <1>2, <1>3, <1>4, <1>5 DEF Loop
      <4> QED
        BY <1>6, <2>5, <4>1
    <3>2. mem'[3 * n + 2] = Hi(d) \/ (n = Slots - 1 /\ ends)
      BY <1>3, <1>8 DEF Fails
    <3>3. \/ d = wanted[f] /\ (file[f] = "dev" \/ f \in ready)
          \/ d = list[f] /\ file[f] = "dev" /\ f \in odd
      <4>1. list[f] # None /\ file[f] = "dev"
        BY <1>1, <1>2, <1>4 DEF Loop
      <4> QED
        BY <1>1, <1>5, <4>1 DEF Listed
    <3> QED
      BY <1>2, <3>1, <3>2, <3>3 DEF Slot
  <2>8. Whole(n + 1, gds)'
    <3>1. PICK at \in [0..n - 1 -> fds], data \in [0..n - 1 -> Data] :
            \A k \in 0..n - 1 : Slot(k, at[k], data[k])' /\ \A j \in 0..k - 1 : at[j] # at[k]
      BY <2>6 DEF Whole
    <3>2. PICK at2 \in [0..(n + 1) - 1 -> gds] :
            at2[n] = f /\ \A k \in 0..n - 1 : at2[k] = at[k]
      <4> DEFINE a == [k \in 0..(n + 1) - 1 |-> IF k = n THEN f ELSE at[k]]
      <4>1. a \in [0..(n + 1) - 1 -> gds]
        BY <2>3
      <4>2. a[n] = f /\ \A k \in 0..n - 1 : a[k] = at[k]
        OBVIOUS
      <4> HIDE DEF a
      <4> QED
        BY <4>1, <4>2
    <3>3. PICK data2 \in [0..(n + 1) - 1 -> Data] :
            data2[n] = d /\ \A k \in 0..n - 1 : data2[k] = data[k]
      <4> DEFINE a == [k \in 0..(n + 1) - 1 |-> IF k = n THEN d ELSE data[k]]
      <4>1. a \in [0..(n + 1) - 1 -> Data]
        OBVIOUS
      <4>2. a[n] = d /\ \A k \in 0..n - 1 : a[k] = data[k]
        OBVIOUS
      <4> HIDE DEF a
      <4> QED
        BY <4>1, <4>2
    <3>4. ASSUME NEW k \in 0..(n + 1) - 1
          PROVE  Slot(k, at2[k], data2[k])' /\ \A j \in 0..k - 1 : at2[j] # at2[k]
      <4>1. CASE k = n
        <5>1. \A j \in 0..k - 1 : at2[j] \in fds /\ at2[k] = f
          BY <3>2, <4>1
        <5> QED
          BY <2>3, <2>7, <3>2, <3>3, <4>1, <5>1
      <4>2. CASE k # n
        <5>1. k \in 0..n - 1 /\ \A j \in 0..k - 1 : j \in 0..n - 1
          BY <4>2
        <5> QED
          BY <3>1, <3>2, <3>3, <5>1
      <4> QED
        BY <4>1, <4>2
    <3> QED
      BY <3>4 DEF Whole
  <2>9. count' = n + 1 /\ count' # 0
    BY <1>9
  <2> QED
    BY <1>2, <2>2, <2>8, <2>9 DEF Returned
<1> QED
  BY <1>10, <1>11, <1>12, <1>13 DEF ArrayInv
-----------------------------------------------------------------------------
(* The theorems.                                                           *)

LEMMA ArrayStep == ArrayInv /\ [Next]_vars => ArrayInv'
<1> SUFFICES ASSUME ArrayInv, [Next]_vars PROVE ArrayInv'
  OBVIOUS
<1>1. CASE Program
  <2>1. CASE \E f \in Fd : OpenFile(f) \/ CloseFile(f)
    BY <2>1, FilesStep
  <2>2. CASE \E f \in Fd, d \in Data, op \in {"ADD", "MOD", "DEL"} : EpollCtl(op, f, d)
    BY <2>2, EpollCtlStep
  <2> QED
    BY <1>1, <2>1, <2>2, ReopenStep, StoreStep, CallStep DEF Program
<1>2. CASE \E f \in Fd : Input(f) \/ Tick(f)
  BY <1>2, InputStep
<1>3. CASE Agent
  BY <1>3, ExitStep, PokeStep, PokeTailStep, FinishStep DEF Agent
<1>4. CASE UNCHANGED vars
  <2>1. TypeOK /\ Returned
    BY DEF ArrayInv
  <2>2. UNCHANGED <<wanted, file, ready, list, odd, ends, callVars, todo, current, count>>
    BY <1>4 DEF vars, programVars, loopVars
  <2>3. UNCHANGED <<mem, due, stored, raced, peeked>>
    BY <1>4 DEF vars, storeVars, loopVars
  <2>4. Returned'
    BY <2>1, <2>2, <2>3, ReturnedKept
  <2> QED
    BY <2>2, <2>3, <2>4 DEF ArrayInv, TypeOK, Listed, Loop, BehindKept, Fails, callVars
<1> QED
  BY <1>1, <1>2, <1>3, <1>4, KernelStep DEF Next

\* The strengthening: the array and the loop that writes it.
THEOREM Array == Spec => []ArrayInv
BY ArrayInit, ArrayStep, PTL DEF Spec

\* The call, the memory of the program and the agent's lists stay what they are
\* declared to be.
THEOREM TypeCorrect == Spec => []TypeOK
<1>1. ArrayInv => TypeOK
  BY DEF ArrayInv
<1> QED
  BY Array, <1>1, PTL

\* Whatever the words the agent writes cover, the program's memory behind the
\* array keeps what the program stored, but for the store that comes between the
\* reading and the writing of the shared word.
THEOREM BehindStays == Spec => []BehindKept
<1>1. ArrayInv => BehindKept
  BY DEF ArrayInv
<1> QED
  BY Array, <1>1, PTL

\* What epoll_wait returns are whole events of different descriptors, each with the
\* data it is registered with: the events SpySyscallExit writes and the events of
\* the kernel do not mix.
THEOREM EventsStayRight == Spec => []EventsRight
<1>1. ArrayInv => EventsRight
  BY DEF ArrayInv, Returned, EventsRight
<1> QED
  BY Array, <1>1, PTL
=============================================================================
