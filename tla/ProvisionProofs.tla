---------------------------- MODULE ProvisionProofs ----------------------------
(***************************************************************************)
(* What holds of Provision for any agents, ids and ports.                  *)
(***************************************************************************)
EXTENDS ProvisionInv, SequenceTheorems, TLAPS

\* A function updated at a point with a value of its range is of its type.
LEMMA Updated ==
  ASSUME NEW S, NEW T, NEW f \in [S -> T], NEW x, NEW v \in T
  PROVE  [f EXCEPT ![x] = v] \in [S -> T]
OBVIOUS

LEMMA Types ==
  ASSUME TypeOK, NEW a \in Agent
  PROVE  /\ todo \in [Agent -> SUBSET Id] /\ lost \in [Agent -> SUBSET Id]
         /\ todo[a] \subseteq Id /\ lost[a] \subseteq Id /\ needs[a] \subseteq Id
         /\ again \in [Agent -> BOOLEAN]
         /\ got \in [Agent -> [Id -> Port \cup {Stopped, None}]]
         /\ got[a] \in [Id -> Port \cup {Stopped, None}]
         /\ Unknown \in [Id -> Port \cup {Stopped, None}]
BY DEF TypeOK, Unknown

LEMMA BeginsCheck ==
  ASSUME TypeOK, NEW a \in Agent, NEW second \in BOOLEAN, BeginCheck(a, second)
  PROVE  /\ todo' \in [Agent -> SUBSET Id] /\ lost' \in [Agent -> SUBSET Id]
         /\ again' \in [Agent -> BOOLEAN] /\ greeted' \subseteq Conn
<1>1. todo' \in [Agent -> SUBSET Id]
  BY Types, Updated DEF BeginCheck
<1>2. lost' \in [Agent -> SUBSET Id]
  BY Types, Updated DEF BeginCheck
<1>3. again' \in [Agent -> BOOLEAN]
  BY Types, Updated DEF BeginCheck
<1> QED
  BY <1>1, <1>2, <1>3 DEF BeginCheck, TypeOK

LEMMA Forgets ==
  ASSUME TypeOK, NEW a \in Agent, NEW ports \in [Id -> Port \cup {Stopped, None}], Forget(a, ports)
  PROVE  /\ todo' \in [Agent -> SUBSET Id] /\ lost' \in [Agent -> SUBSET Id]
         /\ again' \in [Agent -> BOOLEAN] /\ greeted' \subseteq Conn
         /\ got' \in [Agent -> [Id -> Port \cup {Stopped, None}]]
<1>1. todo' \in [Agent -> SUBSET Id]
  BY Types, Updated DEF Forget
<1>2. lost' \in [Agent -> SUBSET Id]
  BY Types, Updated DEF Forget
<1>3. again' \in [Agent -> BOOLEAN]
  BY Types, Updated DEF Forget
<1>4. got' \in [Agent -> [Id -> Port \cup {Stopped, None}]]
  BY Types, Updated DEF Forget
<1> QED
  BY <1>1, <1>2, <1>3, <1>4 DEF Forget, TypeOK

\* What Start does: each handler has a port of its own, on which nobody listened.
LEMMA Starts ==
  ASSUME TypeOK, NEW ids \in SUBSET Id, Start(ids)
  PROVE  /\ port' \in [Id -> Port \cup {Stopped, None}]
         /\ listens' \in [Server -> Id \cup {Main, None}]
         /\ \A i \in ids : port'[i] \in Port /\ listens[port'[i]] = None /\ listens'[port'[i]] = i
         /\ \A i \in Id \ ids : port'[i] = port[i]
         /\ \A s \in Server : listens[s] # None => listens'[s] = listens[s]
<1>1. PICK p \in [ids -> {s \in Port : listens[s] = None}] :
        /\ IsInjective(p)
        /\ port' = [i \in Id |-> IF i \in ids THEN p[i] ELSE port[i]]
        /\ listens' = [s \in Server |-> IF \E i \in ids : p[i] = s
                                          THEN CHOOSE i \in ids : p[i] = s ELSE listens[s]]
  BY DEF Start
<1>2. \A i, j \in ids : p[i] = p[j] => i = j
  BY <1>1 DEF IsInjective
<1>3. \A s \in Server : (\E i \in ids : p[i] = s) =>
        listens'[s] \in ids /\ p[listens'[s]] = s
  BY <1>1
<1>4. \A i \in ids : port'[i] = p[i] /\ p[i] \in Port /\ listens[p[i]] = None
  BY <1>1
<1>5. \A i \in ids : listens'[p[i]] = i
  BY <1>2, <1>3, <1>4 DEF Server
<1>6. listens' \in [Server -> Id \cup {Main, None}]
  <2>1. \A s \in Server : listens'[s] \in Id \cup {Main, None}
    BY <1>1, <1>3 DEF TypeOK
  <2> QED
    BY <1>1, <2>1
<1>7. port' \in [Id -> Port \cup {Stopped, None}]
  BY <1>1, <1>4 DEF TypeOK
<1>8. \A s \in Server : listens[s] # None => listens'[s] = listens[s]
  BY <1>1, <1>4
<1> QED
  BY <1>1, <1>4, <1>5, <1>6, <1>7, <1>8

\* What Unlisten does to the types.
LEMMA Unlistens ==
  ASSUME TypeOK, NEW gone, Unlisten(gone)
  PROVE  /\ listens' \in [Server -> Id \cup {Main, None}]
         /\ alive' \subseteq {s \in Server : listens'[s] # None}
         /\ queue' \in [Server -> Seq(Conn)]
         /\ serving' \in [Server -> Conn \cup {None}]
         /\ link' \in [Conn -> {"none", "open", "asked", "answered", "cut"}]
         /\ \A c \in Conn : link'[c] \in {link[c], "cut"}
<1>1. /\ listens' \in [Server -> Id \cup {Main, None}]
      /\ alive' \subseteq {s \in Server : listens'[s] # None}
  BY DEF TypeOK, Unlisten
<1>2. queue' \in [Server -> Seq(Conn)]
  BY DEF TypeOK, Unlisten
<1>3. serving' \in [Server -> Conn \cup {None}]
  BY DEF TypeOK, Unlisten
<1>4. PICK leaked : link' = [c \in Conn |->
                 IF \E s \in gone : \/ c \in ToSet(queue[s])
                                    \/ c = serving[s] /\ c \notin leaked
                   THEN "cut" ELSE link[c]]
  BY DEF Unlisten
<1>5. \A c \in Conn : link'[c] \in {link[c], "cut"}
  BY <1>4
<1>6. link' \in [Conn -> {"none", "open", "asked", "answered", "cut"}]
  BY <1>4 DEF TypeOK
<1> QED
  BY <1>1, <1>2, <1>3, <1>5, <1>6

LEMMA Connects ==
  ASSUME TypeOK, NEW c \in Conn, NEW s, NEW state \in {"none", "open", "asked"}, Connect(c, s, state)
  PROVE  /\ queue' \in [Server -> Seq(Conn)]
         /\ link' \in [Conn -> {"none", "open", "asked", "answered", "cut"}]
         /\ \A d \in Conn \ {c} : link'[d] = link[d]
         /\ link'[c] = state
<1>1. link' = [link EXCEPT ![c] = state] /\ queue' = [queue EXCEPT ![s] = Append(@, c)]
  BY DEF Connect
<1>2. queue' \in [Server -> Seq(Conn)]
  <2>1. \A t \in Server : queue'[t] \in {queue[t], Append(queue[t], c)}
    BY <1>1 DEF TypeOK
  <2>2. \A t \in Server : queue[t] \in Seq(Conn) /\ Append(queue[t], c) \in Seq(Conn)
    BY DEF TypeOK
  <2>3. queue' = [t \in Server |-> queue'[t]]
    BY <1>1 DEF TypeOK
  <2> QED
    BY <2>1, <2>2, <2>3
<1>3. link' \in [Conn -> {"none", "open", "asked", "answered", "cut"}]
  BY <1>1 DEF TypeOK
<1> QED
  BY <1>1, <1>2, <1>3 DEF TypeOK

LEMMA TypeInit == Init => TypeOK
<1> SUFFICES ASSUME Init PROVE TypeOK
  OBVIOUS
<1> USE ProvisionAssumption DEF Init
<1>1. listens \in [Server -> Id \cup {Main, None}] /\ alive \subseteq {s \in Server : listens[s] # None}
  BY DEF Server
<1>2. queue \in [Server -> Seq(Conn)]
  OBVIOUS
<1> QED
  BY <1>1, <1>2 DEF TypeOK

\* Every step keeps every variable in its type.
LEMMA TypeStep == TypeOK /\ [Next]_vars => TypeOK'
<1> SUFFICES ASSUME TypeOK, [Next]_vars PROVE TypeOK'
  OBVIOUS
<1>1. ASSUME NEW a \in Agent, Launch(a) PROVE TypeOK'
  <2>1. <<a, Main>> \in Conn
    BY DEF Conn
  <2>2. PICK ids \in Needs[a] : needs' = [needs EXCEPT ![a] = ids]
    BY <1>1 DEF Launch
  <2>3. needs' \in [Agent -> SUBSET Id]
    BY <2>2, ProvisionAssumption DEF TypeOK
  <2> QED
    BY <1>1, <2>1, <2>3, Connects DEF Launch, TypeOK, exposerVars
<1>2. ASSUME NEW a \in Agent, Ask(a) PROVE TypeOK'
  BY <1>2 DEF Ask, TypeOK, exposerVars, serverVars, agentVars
<1>3. ASSUME NEW a \in Agent, TakePorts(a) PROVE TypeOK'
  <2>1. /\ link' \in [Conn -> {"none", "open", "asked", "answered", "cut"}]
        /\ phase' \in [Agent -> {"off", "asking", "checking", "running", "failed", "killed"}]
    BY <1>3 DEF TakePorts, TypeOK
  <2>2. CASE BeginCheck(a, FALSE) /\ UNCHANGED got
    BY <1>3, <2>1, <2>2, BeginsCheck DEF TakePorts, TypeOK, exposerVars, serverVars
  <2>3. CASE Forget(a, Unknown)
    BY <1>3, <2>1, <2>3, Forgets, Types DEF TakePorts, TypeOK, exposerVars, serverVars
  <2> QED
    BY <1>3, <2>2, <2>3 DEF TakePorts
<1>4. ASSUME NEW a \in Agent, NEW i \in Id, Probe(a, i) PROVE TypeOK'
  <2>1. <<a, i>> \in Conn
    BY DEF Conn
  <2>2. CASE Connect(<<a, i>>, got[a][i], "asked") /\ UNCHANGED <<todo, lost>>
    BY <1>4, <2>1, <2>2, Connects DEF Probe, TypeOK, exposerVars
  <2>3. CASE Unavailable(a, i) /\ UNCHANGED <<queue, link>>
    BY <1>4, <2>3 DEF Probe, Unavailable, TypeOK, exposerVars
  <2> QED
    BY <1>4, <2>2, <2>3 DEF Probe
<1>5. ASSUME NEW a \in Agent, NEW i \in Id, EndProbe(a, i) PROVE TypeOK'
  <2>1. link' \in [Conn -> {"none", "open", "asked", "answered", "cut"}]
    BY <1>5 DEF EndProbe, TypeOK
  <2>2. todo' \in [Agent -> SUBSET Id]
    <3>1. todo' = [todo EXCEPT ![a] = todo[a] \ {i}]
      BY <1>5 DEF EndProbe, Unavailable
    <3> QED
      BY <3>1, Types, Updated
  <2>3. lost' \in [Agent -> SUBSET Id]
    <3>1. lost' \in {lost, [lost EXCEPT ![a] = lost[a] \cup {i}]}
      BY <1>5 DEF EndProbe, Unavailable
    <3>2. lost[a] \cup {i} \in SUBSET Id
      BY Types
    <3>3. [lost EXCEPT ![a] = lost[a] \cup {i}] \in [Agent -> SUBSET Id]
      BY <3>2, Types, Updated
    <3> QED
      BY <3>1, <3>3, Types
  <2> QED
    BY <1>5, <2>1, <2>2, <2>3 DEF EndProbe, TypeOK, exposerVars, serverVars
<1>6. ASSUME NEW a \in Agent, EndCheck(a) PROVE TypeOK'
  <2>1. /\ phase' \in [Agent -> {"off", "asking", "checking", "running", "failed", "killed"}]
        /\ files' \subseteq Id
    BY <1>6 DEF EndCheck, Fixable, TypeOK
  <2>2. CASE BeginCheck(a, TRUE) /\ UNCHANGED got
    BY <1>6, <2>1, <2>2, BeginsCheck DEF EndCheck, TypeOK, exposerVars, serverVars
  <2>3. ASSUME NEW ports \in {got[a], Unknown}, Forget(a, ports) PROVE TypeOK'
    <3>1. ports \in [Id -> Port \cup {Stopped, None}]
      BY Types
    <3> QED
      BY <1>6, <2>1, <2>3, <3>1, Forgets DEF EndCheck, TypeOK, exposerVars, serverVars
  <2> QED
    BY <1>6, <2>2, <2>3 DEF EndCheck
<1>7. ASSUME NEW a \in Agent, Kill(a) PROVE TypeOK'
  BY <1>7, Forgets, Types DEF Kill, TypeOK, exposerVars, serverVars
<1>8. ASSUME NEW a \in Agent, NEW i \in Id, OpenSession(a, i) PROVE TypeOK'
  <2>1. <<a, i>> \in Conn
    BY DEF Conn
  <2> QED
    BY <1>8, <2>1, Connects DEF OpenSession, TypeOK, exposerVars, agentVars
<1>9. ASSUME NEW s \in Server, Accept(s) PROVE TypeOK'
  <2>1. Head(queue[s]) \in Conn /\ Tail(queue[s]) \in Seq(Conn)
    BY <1>9 DEF Accept, TypeOK
  <2> QED
    BY <1>9, <2>1 DEF Accept, TypeOK, exposerVars, agentVars
<1>10. ASSUME NEW s \in Server, Greet(s) PROVE TypeOK'
  <2>1. serving[s] \in Conn
    BY <1>10 DEF Greet, Asked, TypeOK
  <2>2. /\ link' \in [Conn -> {"none", "open", "asked", "answered", "cut"}]
        /\ greeted' \subseteq Conn
    <3>1. \E state \in {"answered", "open"} : link' = [link EXCEPT ![serving[s]] = state]
      BY <1>10 DEF Greet
    <3>2. greeted' \in {greeted, greeted \cup {serving[s]}}
      BY <1>10 DEF Greet
    <3> QED
      BY <2>1, <3>1, <3>2, Updated DEF TypeOK
  <2>3. serving' \in [Server -> Conn \cup {None}]
    BY <1>10 DEF Greet, TypeOK
  <2> QED
    BY <1>10, <2>2, <2>3 DEF Greet, TypeOK, exposerVars, agentVars
<1>11. ASSUME NEW s \in Server, Preempt(s) PROVE TypeOK'
  BY <1>11 DEF Preempt, TypeOK, exposerVars, agentVars
<1>12. ASSUME NEW s \in Server, Throw(s) PROVE TypeOK'
  BY <1>12, Unlistens DEF Throw, TypeOK, exposerVars, agentVars
<1>13. ASSUME Asked(MainPort), GetResult(serving[MainPort]) PROVE TypeOK'
  <2> DEFINE c       == serving[MainPort]
             names   == needs[c[1]]
             started == names \ (enabled \cup IF Windowless(names) THEN Inputs ELSE {})
  <2>1. c \in Conn /\ c[1] \in Agent /\ names \in SUBSET Id
    BY <1>13 DEF Asked, Server, TypeOK, Conn
  <2>2. started \in SUBSET Id /\ Start(started)
    BY <1>13, <2>1 DEF GetResult
  <2>3. /\ port' \in [Id -> Port \cup {Stopped, None}]
        /\ listens' \in [Server -> Id \cup {Main, None}]
        /\ \A i \in started : port'[i] \in Port /\ listens[port'[i]] = None /\ listens'[port'[i]] = i
        /\ \A s \in Server : listens[s] # None => listens'[s] = listens[s]
    BY <2>2, Starts
  <2>4. alive \cup {port'[i] : i \in started} \subseteq {s \in Server : listens'[s] # None}
    <3>1. ASSUME NEW s \in alive PROVE s \in Server /\ listens'[s] # None
      BY <2>3 DEF TypeOK
    <3>2. ASSUME NEW i \in started PROVE port'[i] \in Server /\ listens'[port'[i]] # None
      BY <2>2, <2>3, ProvisionAssumption DEF Server
    <3> QED
      BY <3>1, <3>2
  <2>5. alive' \subseteq {s \in Server : listens'[s] # None}
    BY <1>13, <2>4 DEF GetResult
  <2>6. link' \in [Conn -> {"none", "open", "asked", "answered", "cut"}]
    BY <1>13 DEF GetResult, TypeOK
  <2>7. got' \in [Agent -> [Id -> Port \cup {Stopped, None}]]
    <3>1. got' \in {got, [got EXCEPT ![c[1]] = port']}
      BY <1>13 DEF GetResult
    <3>2. [got EXCEPT ![c[1]] = port'] \in [Agent -> [Id -> Port \cup {Stopped, None}]]
      BY <2>1, <2>3, Types, Updated
    <3> QED
      BY <2>1, <3>1, <3>2, Types
  <2>8. serving' \in [Server -> Conn \cup {None}]
    BY <1>13 DEF GetResult, CloseMain, TypeOK
  <2>9. enabled' \subseteq Id
    BY <1>13, <2>1 DEF GetResult, TypeOK
  <2> QED
    BY <1>13, <2>3, <2>5, <2>6, <2>7, <2>8, <2>9 DEF GetResult, TypeOK
<1>14. ASSUME NEW i \in Id, Press(i) PROVE TypeOK'
  <2>1. CASE i \notin enabled
    <3>1. /\ port' \in [Id -> Port \cup {Stopped, None}]
          /\ listens' \in [Server -> Id \cup {Main, None}]
          /\ port'[i] \in Port /\ listens'[port'[i]] = i
          /\ \A s \in Server : listens[s] # None => listens'[s] = listens[s]
      BY <1>14, <2>1, Starts DEF Press
    <3>2. alive' \subseteq {s \in Server : listens'[s] # None}
      <4>1. alive' = alive \cup {port'[i]}
        BY <1>14, <2>1 DEF Press
      <4>2. ASSUME NEW s \in alive PROVE s \in Server /\ listens'[s] # None
        BY <3>1 DEF TypeOK
      <4>3. port'[i] \in Server /\ listens'[port'[i]] # None
        BY <3>1, ProvisionAssumption DEF Server
      <4> QED
        BY <4>1, <4>2, <4>3
    <3> QED
      BY <1>14, <2>1, <3>1, <3>2 DEF Press, TypeOK, agentVars
  <2>2. CASE i \in enabled
    <3>1. PICK off : Stop(off) /\ enabled' = enabled \ off
      BY <1>14, <2>2 DEF Press
    <3>2. port' \in [Id -> Port \cup {Stopped, None}]
      BY <3>1 DEF Stop, TypeOK
    <3> QED
      BY <1>14, <3>1, <3>2, Unlistens DEF Press, Stop, TypeOK, agentVars
  <2> QED
    BY <2>1, <2>2
<1>15. ASSUME GetResultThrows(serving[MainPort]) PROVE TypeOK'
  BY <1>15, ProvisionAssumption DEF GetResultThrows, TypeOK, agentVars
<1>16. ASSUME TimeoutMain PROVE TypeOK'
  BY <1>16 DEF TimeoutMain, CloseMain, TypeOK, exposerVars, agentVars
<1>17. ASSUME NEW a \in Agent, TurnedAway(a) PROVE TypeOK'
  BY <1>17, Forgets, Types DEF TurnedAway, TypeOK, exposerVars, serverVars
<1>18. CASE UNCHANGED vars
  BY <1>18 DEF TypeOK, vars, exposerVars, serverVars, agentVars
<1> QED
  BY <1>1, <1>2, <1>3, <1>4, <1>5, <1>6, <1>7, <1>8, <1>9, <1>10, <1>11, <1>12, <1>13, <1>14, <1>15,
     <1>16, <1>17, <1>18 DEF Next, StartUp, Thread, ServeMain

\* The exposer's and the agents' state is of the types TypeOK gives.
THEOREM TypeCorrect == Spec => []TypeOK
<1>1. Init => TypeOK
  BY TypeInit
<1>2. TypeOK /\ [Next]_vars => TypeOK'
  BY TypeStep
<1> QED
  BY <1>1, <1>2, PTL DEF Spec
-----------------------------------------------------------------------------
(* PortsLive.                                                               *)

\* Nobody comes back from being killed.
LEMMA KilledStay ==
  ASSUME TypeOK, [Next]_vars, NEW a \in Agent, phase[a] = "killed"
  PROVE  phase'[a] = "killed"
<1> USE DEF TypeOK
<1>1. ASSUME NEW b \in Agent, Launch(b) PROVE phase'[a] = "killed"
  BY <1>1 DEF Launch
<1>2. ASSUME NEW b \in Agent, Ask(b) PROVE phase'[a] = "killed"
  BY <1>2 DEF Ask, agentVars
<1>3. ASSUME NEW b \in Agent, TakePorts(b) \/ TurnedAway(b) PROVE phase'[a] = "killed"
  BY <1>3 DEF TakePorts, TurnedAway
<1>4. ASSUME NEW b \in Agent, EndCheck(b) PROVE phase'[a] = "killed"
  BY <1>4 DEF EndCheck
<1>5. ASSUME NEW b \in Agent, Kill(b) PROVE phase'[a] = "killed"
  BY <1>5 DEF Kill
<1>6. ASSUME NEW s \in Server,
             Accept(s) \/ Greet(s) \/ Preempt(s) \/ ServeMain \/ TimeoutMain \/ Throw(s)
      PROVE  phase'[a] = "killed"
  BY <1>6 DEF Accept, Greet, Preempt, ServeMain, GetResult, GetResultThrows, TimeoutMain, Throw,
     agentVars
<1>7. ASSUME NEW b \in Agent, NEW i \in Id, Probe(b, i) \/ EndProbe(b, i) \/ OpenSession(b, i) \/ Press(i)
      PROVE  phase'[a] = "killed"
  BY <1>7 DEF Probe, EndProbe, OpenSession, Press, agentVars
<1>8. CASE UNCHANGED vars
  BY <1>8 DEF vars, agentVars
<1>9. MainPort \in Server
  BY DEF Server
<1> QED
  BY <1>1, <1>2, <1>3, <1>4, <1>5, <1>6, <1>7, <1>8, <1>9 DEF Next, StartUp, Thread

\* What Stop does to the ports: those that are left keep their servers.
LEMMA Stops ==
  ASSUME TypeOK, NEW ids, Stop(ids)
  PROVE  /\ \A i \in Id \ ids : port'[i] = port[i]
         /\ \A i \in Id \cap ids : port'[i] \in {None, Stopped}
         /\ \A i \in Id \ ids : port[i] \in Port /\ listens[port[i]] = i => listens'[port[i]] = i
         /\ MainPort \in alive => MainPort \in alive'
<1>1. \A i \in Id \ ids : port[i] \in Port /\ listens[port[i]] = i => port[i] \notin Listening(ids)
  BY DEF Listening
<1>2. Listening(ids) \subseteq Port
  BY DEF Listening
<1> QED
  BY <1>1, <1>2, ProvisionAssumption DEF Stop, Unlisten, TypeOK, Server

\* The ports the exposer announces are alive, through starts, stops and reuse.
THEOREM PortsStayLive == Spec => []PortsLive
<1>1. Init => PortsLive
  BY ProvisionAssumption DEF Init, PortsLive
<1>2. TypeOK /\ PortsLive /\ [Next]_vars => PortsLive'
  <2> SUFFICES ASSUME TypeOK, PortsLive, [Next]_vars,
                      ~ \E a \in Agent : phase'[a] = "killed",
                      NEW i \in Id, port'[i] \in Port
               PROVE  listens'[port'[i]] = i
    BY DEF PortsLive
  <2> USE ProvisionAssumption
  <2>1. port[i] \in Port => listens[port[i]] = i
    BY KilledStay DEF PortsLive
  <2>2. ASSUME UNCHANGED <<port, listens>> PROVE listens'[port'[i]] = i
    BY <2>1, <2>2
  <2>3. ASSUME NEW ids \in SUBSET Id, Start(ids) PROVE listens'[port'[i]] = i
    <3>1. CASE i \in ids
      BY <2>3, <3>1, Starts
    <3>2. CASE i \notin ids
      BY <2>1, <2>3, <3>2, Starts DEF Server
    <3> QED
      BY <3>1, <3>2
  <2>4. ASSUME NEW ids, Stop(ids) PROVE listens'[port'[i]] = i
    BY <2>1, <2>4, Stops
  <2>5. ASSUME NEW a \in Agent, Launch(a) \/ StartUp(a) \/ Kill(a) \/ \E j \in Id : OpenSession(a, j)
        PROVE  UNCHANGED <<port, listens>>
    BY <2>5 DEF Launch, StartUp, Ask, TakePorts, TurnedAway, EndCheck, Probe, EndProbe, Kill,
       OpenSession, exposerVars, serverVars
  <2>6. ASSUME NEW s \in Server, Accept(s) \/ Greet(s) \/ Preempt(s) \/ TimeoutMain
        PROVE  UNCHANGED <<port, listens>>
    BY <2>6 DEF Accept, Greet, Preempt, TimeoutMain, exposerVars
  <2>7. ASSUME ServeMain PROVE UNCHANGED <<port, listens>> \/ \E ids \in SUBSET Id : Start(ids)
    <3>1. serving[MainPort] \in Conn
      BY <2>7 DEF ServeMain, Asked, TypeOK, Server
    <3>2. needs[serving[MainPort][1]] \in SUBSET Id
      BY <3>1 DEF TypeOK, Conn
    <3> QED
      BY <2>7, <3>2 DEF ServeMain, GetResult, GetResultThrows
  <2>8. ASSUME NEW s \in Server, Throw(s) PROVE FALSE
    <3>1. serving[s] \in Conn
      BY <2>8 DEF Throw, TypeOK
    <3> QED
      BY <2>8, <3>1, KilledStay DEF Throw, Conn
  <2>9. ASSUME NEW j \in Id, Press(j) PROVE (\E ids \in SUBSET Id : Start(ids)) \/ \E ids : Stop(ids)
    BY <2>9 DEF Press
  <2>10. MainPort \in Server
    BY DEF Server
  <2> QED
    BY <2>2, <2>3, <2>4, <2>5, <2>6, <2>7, <2>8, <2>9, <2>10
       DEF Next, Thread, vars, exposerVars, serverVars
<1> QED
  BY <1>1, <1>2, TypeCorrect, PTL DEF Spec
-----------------------------------------------------------------------------
(* MainSurvives.                                                            *)

\* What a program needs is settled when its agent starts.
LEMMA NeedsStay ==
  ASSUME TypeOK, NotAsked, [Next]_vars
  PROVE  /\ NotAsked'
         /\ \A a \in Agent : needs[a] = {} \/ needs'[a] = needs[a]
<1> USE DEF TypeOK, NotAsked
<1>1. ASSUME NEW b \in Agent, Launch(b)
      PROVE  NotAsked' /\ \A a \in Agent : needs[a] = {} \/ needs'[a] = needs[a]
  BY <1>1 DEF Launch
<1>2. ASSUME UNCHANGED needs, \A a \in Agent : phase'[a] = "off" => phase[a] = "off"
      PROVE  NotAsked' /\ \A a \in Agent : needs[a] = {} \/ needs'[a] = needs[a]
  BY <1>2
<1>3. ASSUME NEW b \in Agent, StartUp(b) \/ Kill(b) \/ \E j \in Id : OpenSession(b, j)
      PROVE  UNCHANGED needs /\ \A a \in Agent : phase'[a] = "off" => phase[a] = "off"
  BY <1>3 DEF StartUp, Ask, TakePorts, TurnedAway, EndCheck, Probe, EndProbe, Kill, OpenSession,
     agentVars
<1>4. ASSUME NEW s \in Server, Thread(s) \/ TimeoutMain \/ Throw(s)
      PROVE  UNCHANGED needs /\ \A a \in Agent : phase'[a] = "off" => phase[a] = "off"
  BY <1>4 DEF Thread, Accept, Greet, Preempt, ServeMain, GetResult, GetResultThrows, TimeoutMain,
     Throw, agentVars
<1>5. ASSUME NEW i \in Id, Press(i)
      PROVE  UNCHANGED needs /\ \A a \in Agent : phase'[a] = "off" => phase[a] = "off"
  BY <1>5 DEF Press, agentVars
<1>6. CASE UNCHANGED vars
  BY <1>2, <1>6 DEF vars, agentVars
<1> QED
  BY <1>1, <1>2, <1>3, <1>4, <1>5, <1>6, ProvisionAssumption DEF Next, Server

\* While nobody asks for an input without the window and nobody is killed, every
\* button that is checked has its server, and asking makes no exception.
LEMMA MainStep == MainInv /\ [Next]_vars => MainInv'
<1> SUFFICES ASSUME MainInv, [Next]_vars PROVE MainInv'
  OBVIOUS
<1> USE ProvisionAssumption
<1>1. TypeOK' /\ NotAsked' /\ \A a \in Agent : needs[a] = {} \/ needs'[a] = needs[a]
  BY TypeStep, NeedsStay DEF MainInv
<1>2. WellAsked' => WellAsked
  BY <1>1 DEF WellAsked
<1>3. ASSUME ~ MainSurvives' PROVE MainPort \in alive /\ WellAsked
  <2>1. \A a \in Agent : phase'[a] # "killed" /\ (needs'[a] \cap Inputs # {} => "FBUF" \in needs'[a])
    BY <1>3 DEF MainSurvives
  <2>2. WellAsked /\ \A a \in Agent : phase[a] # "killed"
    BY <1>2, <2>1, KilledStay DEF WellAsked, MainInv
  <2> QED
    BY <2>2 DEF MainInv, MainSurvives, WellAsked
<1>4. ASSUME WellAsked => Started', MainPort \in alive => MainPort \in alive' PROVE MainInv'
  <2>1. MainSurvives'
    BY <1>3, <1>4 DEF MainSurvives
  <2> QED
    BY <1>1, <1>2, <1>4, <2>1 DEF MainInv
<1>5. ASSUME UNCHANGED <<enabled, port, alive>> PROVE MainInv'
  BY <1>4, <1>5 DEF MainInv, Started
<1>6. ASSUME NEW a \in Agent, Launch(a) \/ StartUp(a) \/ Kill(a) \/ \E j \in Id : OpenSession(a, j)
      PROVE  UNCHANGED <<enabled, port, alive>>
  BY <1>6 DEF Launch, StartUp, Ask, TakePorts, TurnedAway, EndCheck, Probe, EndProbe, Kill,
     OpenSession, exposerVars, serverVars
<1>7. ASSUME NEW s \in Server, Accept(s) \/ Greet(s) \/ Preempt(s) \/ TimeoutMain
      PROVE  UNCHANGED <<enabled, port, alive>>
  BY <1>7 DEF Accept, Greet, Preempt, TimeoutMain, exposerVars
<1>8. ASSUME NEW s \in Server, Throw(s) PROVE MainInv'
  BY <1>4, <1>8 DEF Throw, Unlisten, exposerVars, MainInv, Started
<1>9. ASSUME Asked(MainPort), GetResult(serving[MainPort]) PROVE MainInv'
  <2> DEFINE c       == serving[MainPort]
             names   == needs[c[1]]
             started == names \ (enabled \cup IF Windowless(names) THEN Inputs ELSE {})
  <2>1. c \in Conn /\ c[1] \in Agent /\ names \in SUBSET Id
    BY <1>9 DEF Asked, Server, MainInv, TypeOK, Conn
  <2>2. started \in SUBSET Id /\ Start(started)
    BY <1>9, <2>1 DEF GetResult
  <2>3. /\ \A i \in started : port'[i] \in Port
        /\ \A i \in Id \ started : port'[i] = port[i]
    BY <2>2, Starts DEF MainInv
  <2>4. WellAsked => started = names \ enabled
    BY <2>1 DEF WellAsked, Windowless
  <2>5. enabled' = enabled \cup names /\ enabled \subseteq Id
    BY <1>9 DEF GetResult, MainInv, TypeOK
  <2>6. WellAsked => Started'
    <3> HIDE DEF started
    <3> QED
      BY <2>1, <2>3, <2>4, <2>5 DEF Started, MainInv
  <2>7. CASE ~ WellAsked \/ phase[c[1]] = "killed"
    <3>1. MainSurvives'
      BY <1>2, <2>1, <2>7, KilledStay DEF MainInv, WellAsked, MainSurvives
    <3> QED
      BY <1>1, <1>2, <2>6, <3>1 DEF MainInv
  <2>8. CASE WellAsked /\ phase[c[1]] # "killed"
    <3>1. ~ Windowless(names)
      BY <2>1, <2>8 DEF WellAsked, Windowless
    <3>2. \A i \in names : port'[i] \in Port
      <4> HIDE DEF started
      <4> QED
        BY <2>1, <2>5, <2>6, <2>8 DEF Started
    <3>3. alive \subseteq alive'
      BY <1>9, <2>1, <2>8, <3>1, <3>2 DEF GetResult
    <3> QED
      BY <1>4, <2>6, <3>3
  <2> QED
    BY <2>7, <2>8
<1>10. ASSUME NEW i \in Id, Press(i) PROVE MainInv'
  <2>1. CASE i \notin enabled
    BY <1>4, <1>10, <2>1, Starts DEF Press, Started, MainInv, TypeOK
  <2>2. CASE i \in enabled
    <3>1. PICK off : Stop(off) /\ enabled' = enabled \ off
      BY <1>10, <2>2 DEF Press
    <3> QED
      BY <1>4, <3>1, Stops DEF Started, MainInv, TypeOK
  <2> QED
    BY <2>1, <2>2
<1>11. ASSUME Asked(MainPort), GetResultThrows(serving[MainPort]) PROVE MainInv'
  <2>1. serving[MainPort][1] \in Agent
    BY <1>11 DEF Asked, Server, MainInv, TypeOK, Conn
  <2>2. ~ WellAsked
    BY <1>11, <2>1 DEF GetResultThrows, Windowless, WellAsked
  <2>3. ~ WellAsked' /\ MainSurvives'
    BY <1>2, <1>3, <2>2
  <2> QED
    BY <1>1, <2>3 DEF MainInv
<1>12. MainPort \in Server
  BY DEF Server
<1> QED
  BY <1>5, <1>6, <1>7, <1>8, <1>9, <1>10, <1>11, <1>12
     DEF Next, Thread, ServeMain, vars, exposerVars, serverVars

\* Nothing but a program that asks for an input without the window, or an agent
\* killed while it asks, ends the main server's thread.
THEOREM MainLives == Spec => []MainSurvives
<1>1. Init => MainInv
  BY TypeInit, ProvisionAssumption DEF Init, MainInv, MainSurvives, NotAsked, Started
<1>2. MainInv => MainSurvives
  BY DEF MainInv
<1> QED
  BY <1>1, <1>2, MainStep, PTL DEF Spec
-----------------------------------------------------------------------------
(* StartedServed: first, where the connections are.                         *)

\* Servers that lose connections, or move them on by one place, keep the others.
LEMMA Kept ==
  ASSUME TypeOK, Queued,
         NEW shift \in [Server -> {0, 1}],
         \A s \in Server : \A m \in Places(s)' :
           \/ Place(s, m)' = None
           \/ m + shift[s] \in Places(s) /\ Place(s, m)' = Place(s, m + shift[s]),
         \A c \in Conn : \/ link'[c] \in {link[c], "open", "asked"}
                         \/ \A s \in Server : \A m \in Places(s)' : Place(s, m)' # c
  PROVE  Queued'
<1>1. \A s \in Server : \A m \in Places(s) : Place(s, m) \in Conn \cup {None}
  BY DEF Places, Place, TypeOK
<1>2. \A s \in Server : \A m \in Places(s)' : m \in Int
  BY DEF Places
<1>3. OnePlace'
  <2> SUFFICES ASSUME NEW s \in Server, NEW t \in Server, NEW m \in Places(s)', NEW n \in Places(t)',
                      Place(s, m)' = Place(t, n)', Place(s, m)' # None
               PROVE  s = t /\ m = n
    BY DEF OnePlace
  <2>1. s = t /\ m + shift[s] = n + shift[t]
    <3> HIDE DEF Places, Place
    <3> QED
      BY DEF Queued, OnePlace
  <2> QED
    BY <1>2, <2>1
<1>4. Pending'
  <2> SUFFICES ASSUME NEW s \in Server, NEW m \in Places(s)', Place(s, m)' # None
               PROVE  link'[Place(s, m)'] \in {"open", "asked"}
    BY DEF Pending
  <2>1. /\ m + shift[s] \in Places(s)
        /\ Place(s, m)' = Place(s, m + shift[s])
        /\ Place(s, m)' \in Conn
    BY <1>1
  <2>2. link[Place(s, m)'] \in {"open", "asked"}
    BY <2>1 DEF Queued, Pending
  <2> QED
    BY <2>1, <2>2
<1>5. MainOnly'
  BY DEF MainOnly, Queued, Server
<1> QED
  BY <1>3, <1>4, <1>5 DEF Queued

\* A connection that is nowhere joins a queue.
LEMMA Joins ==
  ASSUME TypeOK, Queued,
         NEW c \in Conn, NEW t, NEW state \in {"open", "asked"},
         link[c] = "none", t = MainPort => c[2] = Main,
         Connect(c, t, state), UNCHANGED serving
  PROVE  Queued'
<1> USE ProvisionAssumption
<1>1. /\ queue' = [queue EXCEPT ![t] = Append(queue[t], c)]
      /\ link' = [link EXCEPT ![c] = state]
  BY DEF Connect
<1>2. \A s \in Server : queue[s] \in Seq(Conn)
  BY DEF TypeOK
<1>3. ASSUME NEW s \in Server, NEW m \in Places(s)'
      PROVE  \/ m \in Places(s) /\ Place(s, m)' = Place(s, m)
             \/ s = t /\ m = Len(queue[s]) + 1 /\ Place(s, m)' = c
  <2>1. CASE s # t
    <3>1. queue'[s] = queue[s]
      BY <1>1, <2>1 DEF TypeOK
    <3> QED
      BY <3>1 DEF Places, Place
  <2>2. CASE s = t
    <3>1. queue'[s] = Append(queue[s], c)
      BY <1>1, <2>2 DEF TypeOK
    <3>2. Len(queue'[s]) = Len(queue[s]) + 1 /\ Len(queue[s]) \in Nat
      BY <1>2, <3>1
    <3>3. m \in 0 .. Len(queue[s]) + 1
      BY <3>2 DEF Places
    <3>4. CASE m = Len(queue[s]) + 1
      BY <1>2, <2>2, <3>1, <3>2, <3>4 DEF Place
    <3>5. CASE m \in 1 .. Len(queue[s])
      BY <1>2, <3>1, <3>2, <3>5 DEF Place, Places
    <3>6. CASE m = 0
      BY <3>2, <3>6 DEF Place, Places
    <3> QED
      BY <3>2, <3>3, <3>4, <3>5, <3>6
  <2> QED
    BY <2>1, <2>2
<1>4. \A s \in Server : \A m \in Places(s) : Place(s, m) \in Conn \cup {None} /\ Place(s, m) # c
  <2>1. \A s \in Server : \A m \in Places(s) : Place(s, m) \in Conn \cup {None}
    BY <1>2 DEF Places, Place, TypeOK
  <2> QED
    BY <2>1 DEF Queued, Pending, Conn
<1>5. c # None
  OBVIOUS
<1>6. OnePlace'
  <2> SUFFICES ASSUME NEW s \in Server, NEW u \in Server, NEW m \in Places(s)', NEW n \in Places(u)',
                      Place(s, m)' = Place(u, n)', Place(s, m)' # None
               PROVE  s = u /\ m = n
    BY DEF OnePlace
  <2> QED
    BY <1>3, <1>4 DEF Queued, OnePlace
<1>7. Pending'
  <2> SUFFICES ASSUME NEW s \in Server, NEW m \in Places(s)', Place(s, m)' # None
               PROVE  link'[Place(s, m)'] \in {"open", "asked"}
    BY DEF Pending
  <2>1. CASE m \in Places(s) /\ Place(s, m)' = Place(s, m)
    BY <1>1, <1>4, <2>1 DEF Queued, Pending, TypeOK
  <2>2. CASE Place(s, m)' = c
    BY <1>1, <2>2 DEF TypeOK
  <2> QED
    BY <1>3, <2>1, <2>2
<1>8. MainOnly'
  <2> SUFFICES ASSUME NEW m \in Places(MainPort)', Place(MainPort, m)' # None
               PROVE  Place(MainPort, m)'[2] = Main
    BY DEF MainOnly
  <2> QED
    BY <1>3 DEF Queued, MainOnly, Server
<1> QED
  BY <1>6, <1>7, <1>8 DEF Queued

\* Stopped listeners leave no connection.
LEMMA UnlistenKeeps ==
  ASSUME TypeOK, Queued, NEW gone \in SUBSET Server, Unlisten(gone)
  PROVE  /\ Queued'
         /\ \A c \in Conn : link'[c] = link[c] \/ (link[c] # "none" /\ link'[c] = "cut")
<1>1. PICK leaked : link' = [c \in Conn |->
                 IF \E s \in gone : \/ c \in ToSet(queue[s])
                                    \/ c = serving[s] /\ c \notin leaked
                   THEN "cut" ELSE link[c]]
  BY DEF Unlisten
<1>2. \A s \in Server : queue[s] \in Seq(Conn)
  BY DEF TypeOK
<1>3. \A s \in gone : Places(s)' = {0} /\ Place(s, 0)' = None
  BY DEF Unlisten, TypeOK, Places, Place
<1>4. \A s \in Server \ gone : \A m \in Places(s)' : m \in Places(s) /\ Place(s, m)' = Place(s, m)
  BY DEF Unlisten, TypeOK, Places, Place
<1>5. ASSUME NEW c \in Conn, link'[c] # link[c]
      PROVE  link'[c] = "cut" /\ \E s \in gone : \E m \in Places(s) : Place(s, m) = c
  <2>1. PICK s \in gone : c \in ToSet(queue[s]) \/ c = serving[s]
    BY <1>1, <1>5
  <2>2. \E m \in Places(s) : Place(s, m) = c
    <3>1. CASE c = serving[s]
      BY <1>2, <3>1 DEF Places, Place
    <3>2. CASE c \in ToSet(queue[s])
      <4>1. PICK m \in DOMAIN queue[s] : queue[s][m] = c
        BY <3>2 DEF ToSet
      <4>2. m \in 1 .. Len(queue[s])
        BY <1>2, <4>1
      <4> QED
        BY <1>2, <4>1, <4>2 DEF Places, Place
    <3> QED
      BY <2>1, <3>1, <3>2
  <2> QED
    BY <1>1, <1>5, <2>2
<1>6. \A c \in Conn : link'[c] = link[c] \/ (link[c] # "none" /\ link'[c] = "cut")
  <2>1. ASSUME NEW c \in Conn, link'[c] # link[c] PROVE link[c] # "none"
    <3>1. PICK s \in gone : \E m \in Places(s) : Place(s, m) = c
      BY <1>5, <2>1
    <3>2. PICK m \in Places(s) : Place(s, m) = c
      BY <3>1
    <3>3. c # None /\ s \in Server
      BY ProvisionAssumption
    <3> QED
      BY <3>2, <3>3 DEF Queued, Pending
  <2>2. ASSUME NEW c \in Conn, link'[c] # link[c] PROVE link'[c] = "cut"
    BY <1>5, <2>2
  <2> QED
    BY <2>1, <2>2
<1>7. Queued'
  <2> DEFINE shift == [s \in Server |-> 0]
  <2>1. shift \in [Server -> {0, 1}]
    OBVIOUS
  <2>2. \A s \in Server : \A m \in Places(s)' :
          \/ Place(s, m)' = None
          \/ m + shift[s] \in Places(s) /\ Place(s, m)' = Place(s, m + shift[s])
    <3>1. \A s \in Server : \A m \in Places(s)' : m + shift[s] = m
      BY DEF Places
    <3> QED
      BY <1>3, <1>4, <3>1
  <2>3. ASSUME NEW c \in Conn, link'[c] # link[c], NEW s \in Server, NEW m \in Places(s)'
        PROVE  Place(s, m)' # c
    <3>1. PICK t \in gone : \E n \in Places(t) : Place(t, n) = c
      BY <1>5, <2>3
    <3>2. CASE s \in gone
      BY <1>3, <3>2, ProvisionAssumption
    <3>3. CASE s \notin gone
      <4>1. m \in Places(s) /\ Place(s, m)' = Place(s, m)
        BY <1>4, <3>3
      <4> QED
        BY <3>1, <3>3, <4>1, ProvisionAssumption DEF Queued, OnePlace
    <3> QED
      BY <3>2, <3>3
  <2> HIDE DEF shift
  <2> QED
    BY <2>1, <2>2, <2>3, Kept
<1> QED
  BY <1>6, <1>7

\* Every step keeps the connections in order.
LEMMA QueuedStep ==
  ASSUME ServedInv, [Next]_vars
  PROVE  Queued'
<1> USE ProvisionAssumption
<1>1. TypeOK /\ Queued
  BY DEF ServedInv
<1>2. ASSUME UNCHANGED <<serving, queue>>,
             \A c \in Conn : link'[c] = link[c] \/ link[c] \notin {"open", "asked"} \/ link'[c] = "asked"
      PROVE  Queued'
  <2>1. \A s \in Server : Places(s)' = Places(s) /\ \A m \in Places(s) : Place(s, m)' = Place(s, m)
    BY <1>2 DEF Places, Place
  <2>2. \A s \in Server : \A m \in Places(s) : Place(s, m) \in Conn \cup {None}
    BY <1>1 DEF Places, Place, TypeOK
  <2>3. Pending'
    BY <1>1, <1>2, <2>1, <2>2 DEF Queued, Pending
  <2>4. OnePlace' /\ MainOnly'
    BY <1>1, <2>1 DEF Queued, OnePlace, MainOnly, Server
  <2> QED
    BY <2>3, <2>4 DEF Queued
<1>3. ASSUME NEW a \in Agent, Launch(a) PROVE Queued'
  <2>1. <<a, Main>> \in Conn /\ link[<<a, Main>>] = "none"
    BY <1>3 DEF Launch, ServedInv, Quiet, Conn
  <2> QED
    BY <1>1, <1>3, <2>1, Joins DEF Launch
<1>4. ASSUME NEW a \in Agent,
             \/ Ask(a) \/ TakePorts(a) \/ TurnedAway(a) \/ EndCheck(a) \/ Kill(a)
             \/ \E i \in Id : EndProbe(a, i)
      PROVE  Queued'
  <2>1. UNCHANGED <<serving, queue>>
    BY <1>4 DEF Ask, TakePorts, TurnedAway, EndCheck, Kill, EndProbe, serverVars
  <2>2. CASE UNCHANGED link
    BY <1>2, <2>1, <2>2
  <2>3. CASE Ask(a)
    BY <1>1, <1>2, <2>1, <2>3 DEF Ask, TypeOK
  <2>4. CASE TakePorts(a)
    BY <1>1, <1>2, <2>1, <2>4, ZenonT(60) DEF TakePorts, TypeOK
  <2>5. ASSUME NEW i \in Id, EndProbe(a, i) PROVE Queued'
    BY <1>1, <1>2, <2>1, <2>5, ZenonT(60) DEF EndProbe, TypeOK
  <2>6. CASE TurnedAway(a)
    BY <1>1, <1>2, <2>1, <2>6, ZenonT(60) DEF TurnedAway, TypeOK
  <2> QED
    BY <1>4, <2>2, <2>3, <2>4, <2>5, <2>6 DEF EndCheck, Kill
<1>5. ASSUME NEW a \in Agent, NEW i \in Id, Probe(a, i) \/ OpenSession(a, i) PROVE Queued'
  <2>1. CASE UNCHANGED <<serving, queue, link>>
    BY <1>2, <2>1
  <2>2. ASSUME NEW state \in {"open", "asked"}, Connect(<<a, i>>, got[a][i], state)
        PROVE  Queued'
    <3>1. <<a, i>> \in Conn /\ link[<<a, i>>] = "none" /\ UNCHANGED serving
      BY <1>5 DEF Probe, OpenSession, Conn
    <3>2. got[a][i] # MainPort
      BY <1>1 DEF TypeOK
    <3> QED
      BY <1>1, <2>2, <3>1, <3>2, Joins
  <2> QED
    BY <1>5, <2>1, <2>2 DEF Probe, OpenSession
<1>6. ASSUME NEW s \in Server, Accept(s) PROVE Queued'
  <2> DEFINE shift == [t \in Server |-> IF t = s THEN 1 ELSE 0]
  <2>1. shift \in [Server -> {0, 1}]
    OBVIOUS
  <2>2. /\ queue[s] \in Seq(Conn) /\ queue[s] # <<>>
        /\ serving' = [serving EXCEPT ![s] = Head(queue[s])]
        /\ queue' = [queue EXCEPT ![s] = Tail(queue[s])]
    BY <1>1, <1>6 DEF Accept, TypeOK
  <2>3. ASSUME NEW m \in Places(s)'
        PROVE  m + 1 \in Places(s) /\ Place(s, m)' = Place(s, m + 1)
    <3>1. serving'[s] = queue[s][1] /\ queue'[s] = Tail(queue[s])
      BY <1>1, <2>2 DEF TypeOK
    <3>2. Len(queue'[s]) = Len(queue[s]) - 1 /\ Len(queue[s]) \in Nat \ {0}
      <4>1. Len(queue[s]) \in Nat /\ Len(queue[s]) # 0
        BY <2>2
      <4> QED
        BY <2>2, <3>1, <4>1, LenProperties, HeadTailProperties
    <3>3. m \in 0 .. Len(queue[s]) - 1
      BY <3>2 DEF Places
    <3>4. CASE m = 0
      BY <3>1, <3>2, <3>4 DEF Places, Place
    <3>5. CASE m # 0
      <4>1. queue'[s][m] = queue[s][m + 1]
        BY <2>2, <3>1, <3>2, <3>3, <3>5
      <4> QED
        BY <3>2, <3>3, <3>5, <4>1 DEF Places, Place
    <3> QED
      BY <3>4, <3>5
  <2>4. ASSUME NEW t \in Server \ {s}, NEW m \in Places(t)'
        PROVE  m + 0 \in Places(t) /\ Place(t, m)' = Place(t, m + 0)
    BY <1>1, <2>2 DEF Places, Place, TypeOK
  <2>5. \A t \in Server : \A m \in Places(t)' :
          m + shift[t] \in Places(t) /\ Place(t, m)' = Place(t, m + shift[t])
    BY <2>3, <2>4
  <2>6. UNCHANGED link
    BY <1>6 DEF Accept
  <2> HIDE DEF shift
  <2> QED
    BY <1>1, <2>1, <2>5, <2>6, Kept
<1>7. ASSUME NEW s \in Server,
             UNCHANGED queue,
             NEW c \in Conn, c = serving[s],
             serving' = [serving EXCEPT ![s] = None],
             \A d \in Conn : link'[d] = link[d] \/ d = c
      PROVE  Queued'
  <2> DEFINE shift == [t \in Server |-> 0]
  <2>1. shift \in [Server -> {0, 1}]
    OBVIOUS
  <2>2. \A t \in Server : \A m \in Places(t)' :
          m \in Places(t) /\ (Place(t, m)' = Place(t, m) \/ (t = s /\ m = 0 /\ Place(t, m)' = None))
    <3>1. serving'[s] = None /\ \A t \in Server \ {s} : serving'[t] = serving[t]
      BY <1>1, <1>7 DEF TypeOK
    <3>2. ASSUME NEW t \in Server PROVE Places(t)' = Places(t)
      BY <1>7 DEF Places
    <3>3. ASSUME NEW t \in Server, NEW m \in Places(t)', m # 0 PROVE Place(t, m)' = Place(t, m)
      BY <1>7, <3>3 DEF Place
    <3>4. Place(s, 0)' = None /\ \A t \in Server \ {s} : Place(t, 0)' = Place(t, 0)
      BY <3>1 DEF Place
    <3> QED
      BY <3>2, <3>3, <3>4
  <2>3. \A t \in Server : \A m \in Places(t)' :
          \/ Place(t, m)' = None
          \/ m + shift[t] \in Places(t) /\ Place(t, m)' = Place(t, m + shift[t])
    <3>1. \A t \in Server : \A m \in Places(t)' : m + shift[t] = m
      BY DEF Places
    <3> QED
      BY <2>2, <3>1
  <2>4. 0 \in Places(s) /\ Place(s, 0) = c /\ c # None
    BY <1>1, <1>7 DEF Places, Place, TypeOK
  <2>5. \A t \in Server : \A m \in Places(t)' : Place(t, m)' # c
    <3> SUFFICES ASSUME NEW t \in Server, NEW m \in Places(t)', Place(t, m)' = c PROVE FALSE
      OBVIOUS
    <3>1. m \in Places(t)
      BY <2>2
    <3>2. ~ (t = s /\ m = 0)
      BY <1>1, <1>7, <2>4 DEF Place, TypeOK
    <3>3. Place(t, m) = c
      BY <2>2, <2>4, <3>2
    <3> QED
      BY <1>1, <2>4, <3>1, <3>2, <3>3 DEF Queued, OnePlace
  <2> HIDE DEF shift
  <2> QED
    BY <1>1, <1>7, <2>1, <2>3, <2>5, Kept
<1>8. ASSUME NEW s \in Server, Greet(s) PROVE Queued'
  <2>1. serving[s] \in Conn /\ link[serving[s]] = "asked"
    BY <1>1, <1>8 DEF Greet, Asked, TypeOK
  <2>2. CASE serving[s][2] = listens[s]
    <3>1. /\ UNCHANGED queue
          /\ serving' = [serving EXCEPT ![s] = None]
          /\ \A d \in Conn : link'[d] = link[d] \/ d = serving[s]
      BY <1>1, <1>8, <2>2 DEF Greet, TypeOK
    <3> QED
      BY <1>7, <2>1, <3>1
  <2>3. CASE serving[s][2] # listens[s]
    <3>1. /\ UNCHANGED <<serving, queue>>
          /\ link' = [link EXCEPT ![serving[s]] = "open"]
      BY <1>8, <2>3 DEF Greet
    <3>2. \A c \in Conn : link'[c] \in {link[c], "open", "asked"}
      BY <1>1, <3>1 DEF TypeOK
    <3> DEFINE shift == [t \in Server |-> 0]
    <3>3. shift \in [Server -> {0, 1}]
      OBVIOUS
    <3>4. \A t \in Server : \A m \in Places(t)' :
            m + shift[t] \in Places(t) /\ Place(t, m)' = Place(t, m + shift[t])
      BY <3>1 DEF Places, Place
    <3> HIDE DEF shift
    <3> QED
      BY <1>1, <3>2, <3>3, <3>4, Kept
  <2> QED
    BY <2>2, <2>3
<1>9. ASSUME NEW s \in Server, Preempt(s) PROVE Queued'
  BY <1>1, <1>7, <1>9 DEF Preempt, TypeOK
<1>10. ASSUME NEW s \in Server, Throw(s) PROVE Queued'
  BY <1>1, <1>10, UnlistenKeeps DEF Throw
<1>11. ASSUME ServeMain PROVE Queued'
  <2>1. MainPort \in Server /\ serving[MainPort] \in Conn
    BY <1>1, <1>11 DEF ServeMain, Asked, TypeOK, Server
  <2>2. UNCHANGED queue
    BY <1>11 DEF ServeMain, GetResult, GetResultThrows
  <2>3. CASE UNCHANGED <<link, serving>>
    BY <1>2, <2>2, <2>3
  <2>4. CASE link' = [link EXCEPT ![serving[MainPort]] = "answered"] /\ CloseMain
    BY <1>1, <1>7, <2>1, <2>2, <2>4 DEF CloseMain, TypeOK
  <2> QED
    BY <1>11, <2>3, <2>4 DEF ServeMain, GetResult, GetResultThrows
<1>12. ASSUME NEW i \in Id, Press(i) PROVE Queued'
  <2>1. CASE UNCHANGED <<serving, queue, link>>
    BY <1>2, <2>1
  <2>2. ASSUME NEW off, Stop(off) PROVE Queued'
    <3>1. Listening(off) \subseteq Server
      BY DEF Listening, Server
    <3> QED
      BY <1>1, <2>2, <3>1, UnlistenKeeps DEF Stop
  <2> QED
    BY <1>12, <2>1, <2>2 DEF Press
<1>13. ASSUME TimeoutMain PROVE Queued'
  <2>1. MainPort \in Server /\ serving[MainPort] \in Conn
    BY <1>1, <1>13 DEF TimeoutMain, TypeOK, Server
  <2> QED
    BY <1>1, <1>7, <1>13, <2>1 DEF TimeoutMain, CloseMain, TypeOK
<1>14. CASE UNCHANGED vars
  BY <1>2, <1>14 DEF vars, serverVars
<1> QED
  BY <1>3, <1>4, <1>5, <1>6, <1>8, <1>9, <1>10, <1>11, <1>12, <1>13, <1>14 DEF Next, StartUp, Thread

\* What the servers do leaves the agents in their place: a connection that is not
\* there stays so, and an answer, but the main server's, is the greeting.
LEMMA ServersLeave ==
  ASSUME TypeOK, NEW a \in Agent, Quiet(a), Checked(a),
         UNCHANGED <<phase, needs, todo, lost, files>>, greeted \subseteq greeted',
         \A c \in Conn : \/ link'[c] = link[c]
                         \/ /\ link[c] # "none"
                            /\ link'[c] = "answered" => c \in greeted' \/ c[2] = Main
  PROVE  Quiet(a)' /\ Checked(a)'
<1>1. \A i \in Id \cup {Main} : <<a, i>> \in Conn /\ <<a, i>>[2] = i
  BY DEF Conn
<1>2. Quiet(a)'
  BY <1>1 DEF Quiet
<1>3. ASSUME phase[a] = "checking", NEW i \in Id
      PROVE  /\ link'[<<a, i>>] # "none" => i \in todo[a] /\ i \in files
             /\ link'[<<a, i>>] = "answered" => <<a, i>> \in greeted'
  <2>1. i # Main
    BY ProvisionAssumption
  <2>2. \/ link'[<<a, i>>] = link[<<a, i>>]
        \/ /\ link[<<a, i>>] # "none"
           /\ link'[<<a, i>>] = "answered" => <<a, i>> \in greeted'
    BY <1>1, <2>1
  <2> QED
    BY <1>3, <2>2 DEF Checked
<1>4. ASSUME phase[a] = "checking", NEW i \in needs[a]
      PROVE  i \in todo[a] \/ i \in lost[a] \/ (<<a, i>> \in greeted' /\ i \in files)
  BY <1>4 DEF Checked
<1> QED
  BY <1>2, <1>3, <1>4 DEF Checked

\* What an agent does leaves the others in their place.
LEMMA OthersStay ==
  ASSUME TypeOK, NEW a \in Agent, NEW b \in Agent \ {a}, Quiet(b), Checked(b),
         phase'[b] = phase[b], needs'[b] = needs[b], todo'[b] = todo[b], lost'[b] = lost[b],
         files \subseteq files',
         \A i \in Id : <<b, i>> \in greeted => <<b, i>> \in greeted',
         \A i \in Id \cup {Main} : link'[<<b, i>>] = link[<<b, i>>]
  PROVE  Quiet(b)' /\ Checked(b)'
<1>1. Quiet(b)'
  BY DEF Quiet
<1>2. needs[b] \subseteq Id
  BY DEF TypeOK
<1>3. ASSUME phase[b] = "checking", NEW i \in Id
      PROVE  /\ link'[<<b, i>>] # "none" => i \in todo[b] /\ i \in files'
             /\ link'[<<b, i>>] = "answered" => <<b, i>> \in greeted'
  BY <1>3 DEF Checked
<1>4. ASSUME phase[b] = "checking", NEW i \in needs[b]
      PROVE  i \in todo[b] \/ i \in lost[b] \/ (<<b, i>> \in greeted' /\ i \in files')
  BY <1>2, <1>4 DEF Checked
<1> QED
  BY <1>1, <1>3, <1>4 DEF Checked

\* The connections and the lists of an agent's check match at every step.
LEMMA ServedStep == ServedInv /\ [Next]_vars => ServedInv'
<1> SUFFICES ASSUME ServedInv, [Next]_vars PROVE ServedInv'
  OBVIOUS
<1>1. TypeOK /\ Queued /\ \A a \in Agent : Quiet(a) /\ Checked(a)
  BY DEF ServedInv
<1>2. TypeOK' /\ Queued'
  BY <1>1, TypeStep, QueuedStep
<1>3. ASSUME \A a \in Agent : Quiet(a)' /\ Checked(a)' PROVE ServedInv'
  BY <1>2, <1>3 DEF ServedInv
<1>4. ASSUME UNCHANGED <<phase, needs, todo, lost, files>>, greeted \subseteq greeted',
             \A c \in Conn : \/ link'[c] = link[c]
                             \/ /\ link[c] # "none"
                                /\ link'[c] = "answered" => c \in greeted' \/ c[2] = Main
      PROVE  ServedInv'
  BY <1>1, <1>3, <1>4, ServersLeave
<1>5. \A a, b \in Agent : \A i, j \in Id \cup {Main} :
        /\ <<a, i>> \in Conn /\ <<a, i>>[1] = a
        /\ <<a, i>> = <<b, j>> => a = b /\ i = j
  BY DEF Conn
<1>6. ASSUME NEW a \in Agent, NEW b \in Agent \ {a},
             phase'[b] = phase[b], needs'[b] = needs[b], todo'[b] = todo[b], lost'[b] = lost[b],
             files \subseteq files',
             greeted' = greeted \/ greeted' = {c \in greeted : c[1] # a},
             NEW i \in Id \cup {Main}, NEW state,
             link' = link \/ link' = [link EXCEPT ![<<a, i>>] = state]
      PROVE  Quiet(b)' /\ Checked(b)'
  <2>1. \A j \in Id \cup {Main} : link'[<<b, j>>] = link[<<b, j>>]
    BY <1>1, <1>5, <1>6 DEF TypeOK
  <2>2. \A j \in Id : <<b, j>> \in greeted => <<b, j>> \in greeted'
    BY <1>5, <1>6
  <2> QED
    BY <1>1, <1>6, <2>1, <2>2, OthersStay
<1>7. \A i \in Id : i # Main
  BY ProvisionAssumption
<1>8. ASSUME NEW a \in Agent, Launch(a) PROVE ServedInv'
  <2>1. link' = [link EXCEPT ![<<a, Main>>] = "open"] /\ phase'[a] = "asking"
    BY <1>1, <1>8 DEF Launch, Connect, TypeOK
  <2>2. \A i \in Id : link'[<<a, i>>] = link[<<a, i>>]
    BY <1>1, <1>5, <1>7, <2>1 DEF TypeOK
  <2>3. Quiet(a)' /\ Checked(a)'
    BY <1>1, <1>8, <2>1, <2>2 DEF Launch, Quiet, Checked
  <2>4. ASSUME NEW b \in Agent \ {a}
        PROVE  phase'[b] = phase[b] /\ needs'[b] = needs[b] /\ UNCHANGED <<todo, lost, files, greeted>>
    BY <1>1, <1>8 DEF Launch, TypeOK
  <2>5. ASSUME NEW b \in Agent \ {a} PROVE Quiet(b)' /\ Checked(b)'
    BY <1>6, <2>1, <2>4
  <2> QED
    BY <1>3, <2>3, <2>5
<1>9. ASSUME NEW a \in Agent, Ask(a) PROVE ServedInv'
  <2>1. \A c \in Conn : link'[c] = link[c] \/ (link[c] # "none" /\ link'[c] = "asked")
    BY <1>1, <1>5, <1>9 DEF Ask, TypeOK
  <2> QED
    BY <1>4, <1>9, <2>1 DEF Ask, agentVars
<1>10. ASSUME NEW a \in Agent, TakePorts(a) PROVE ServedInv'
  <2>1. link' = [link EXCEPT ![<<a, Main>>] = "none"] /\ phase'[a] \in {"checking", "failed"}
    BY <1>1, <1>10 DEF TakePorts, TypeOK
  <2>2. \A i \in Id : link'[<<a, i>>] = "none"
    <3>1. \A i \in Id : link'[<<a, i>>] = link[<<a, i>>]
      BY <1>1, <1>5, <1>7, <2>1 DEF TypeOK
    <3> QED
      BY <1>1, <1>10, <3>1 DEF TakePorts, Quiet
  <2>3. needs'[a] = needs[a] /\ (phase'[a] = "checking" => todo'[a] = needs[a])
    BY <1>1, <1>10 DEF TakePorts, BeginCheck, Forget, TypeOK
  <2>4. Quiet(a)' /\ Checked(a)'
    BY <2>1, <2>2, <2>3 DEF Quiet, Checked
  <2>5. ASSUME NEW b \in Agent \ {a} PROVE Quiet(b)' /\ Checked(b)'
    <3>1. phase'[b] = phase[b] /\ needs'[b] = needs[b]
      BY <1>1, <1>10 DEF TakePorts, TypeOK
    <3>2. todo'[b] = todo[b] /\ lost'[b] = lost[b]
      BY <1>1, <1>10 DEF TakePorts, BeginCheck, Forget, TypeOK
    <3>3. UNCHANGED files /\ greeted' = {c \in greeted : c[1] # a}
      BY <1>10 DEF TakePorts, BeginCheck, Forget
    <3> QED
      BY <1>6, <2>1, <3>1, <3>2, <3>3
  <2> QED
    BY <1>3, <2>4, <2>5
<1>11. ASSUME NEW a \in Agent, NEW i \in Id, Probe(a, i) PROVE ServedInv'
  <2>1. /\ phase[a] = "checking" /\ i \in todo[a]
        /\ \A j \in Id : link[<<a, j>>] = "none"
        /\ UNCHANGED <<phase, needs, greeted, files>>
    BY <1>11 DEF Probe
  <2>2. CASE i \in files /\ Connect(<<a, i>>, got[a][i], "asked") /\ UNCHANGED <<todo, lost>>
    <3>1. link' = [link EXCEPT ![<<a, i>>] = "asked"]
      BY <2>2 DEF Connect
    <3>2. \A j \in Id : link'[<<a, j>>] = IF j = i THEN "asked" ELSE "none"
      BY <1>1, <1>5, <2>1, <3>1 DEF TypeOK
    <3>3. Quiet(a)' /\ Checked(a)'
      BY <1>1, <2>1, <2>2, <3>2 DEF Quiet, Checked
    <3>4. ASSUME NEW b \in Agent \ {a} PROVE Quiet(b)' /\ Checked(b)'
      BY <1>6, <2>1, <2>2, <3>1
    <3> QED
      BY <1>3, <3>3, <3>4
  <2>3. CASE Unavailable(a, i) /\ UNCHANGED link
    <3>1. todo'[a] = todo[a] \ {i} /\ lost'[a] = lost[a] \cup {i}
      BY <1>1, <2>3 DEF Unavailable, TypeOK
    <3>2. Quiet(a)' /\ Checked(a)'
      BY <1>1, <2>1, <2>3, <3>1 DEF Quiet, Checked
    <3>3. ASSUME NEW b \in Agent \ {a} PROVE todo'[b] = todo[b] /\ lost'[b] = lost[b]
      BY <1>1, <2>3 DEF Unavailable, TypeOK
    <3>4. ASSUME NEW b \in Agent \ {a} PROVE Quiet(b)' /\ Checked(b)'
      BY <1>6, <2>1, <2>3, <3>3
    <3> QED
      BY <1>3, <3>2, <3>4
  <2> QED
    BY <1>11, <2>2, <2>3 DEF Probe
<1>12. ASSUME NEW a \in Agent, NEW i \in Id, EndProbe(a, i) PROVE ServedInv'
  <2>1. /\ phase[a] = "checking" /\ link[<<a, i>>] \in {"answered", "cut"}
        /\ UNCHANGED <<phase, needs, greeted, files>>
        /\ link' = [link EXCEPT ![<<a, i>>] = "none"]
    BY <1>12 DEF EndProbe
  <2>2. \A j \in Id : link'[<<a, j>>] = IF j = i THEN "none" ELSE link[<<a, j>>]
    BY <1>1, <1>5, <2>1 DEF TypeOK
  <2>3. /\ todo'[a] = todo[a] \ {i}
        /\ IF link[<<a, i>>] = "answered" THEN lost'[a] = lost[a] ELSE lost'[a] = lost[a] \cup {i}
    BY <1>1, <1>12 DEF EndProbe, Unavailable, TypeOK
  <2>4. link[<<a, i>>] = "answered" => <<a, i>> \in greeted /\ i \in files
    BY <1>1, <2>1 DEF Checked
  <2>5. Quiet(a)' /\ Checked(a)'
    <3>1. Quiet(a)'
      BY <2>1 DEF Quiet
    <3>2. ASSUME NEW j \in Id
          PROVE  /\ link'[<<a, j>>] # "none" => j \in todo'[a] /\ j \in files'
                 /\ link'[<<a, j>>] = "answered" => <<a, j>> \in greeted'
      BY <1>1, <2>1, <2>2, <2>3 DEF Checked
    <3>3. ASSUME NEW j \in needs'[a]
          PROVE  j \in todo'[a] \/ j \in lost'[a] \/ (<<a, j>> \in greeted' /\ j \in files')
      BY <1>1, <2>1, <2>3, <2>4 DEF Checked
    <3> QED
      BY <3>1, <3>2, <3>3 DEF Checked
  <2>6. ASSUME NEW b \in Agent \ {a} PROVE todo'[b] = todo[b] /\ lost'[b] = lost[b]
    BY <1>1, <1>12 DEF EndProbe, Unavailable, TypeOK
  <2>7. ASSUME NEW b \in Agent \ {a} PROVE Quiet(b)' /\ Checked(b)'
    BY <1>6, <2>1, <2>6
  <2> QED
    BY <1>3, <2>5, <2>7
<1>13. ASSUME NEW a \in Agent, EndCheck(a) PROVE ServedInv'
  <2>1. phase[a] = "checking" /\ todo[a] = {} /\ UNCHANGED <<link, needs>> /\ files \subseteq files'
    BY <1>13 DEF EndCheck
  <2>2. \A i \in Id : link'[<<a, i>>] = "none"
    BY <1>1, <2>1 DEF Checked
  <2>3. phase'[a] \in {"running", "failed"} \/ (phase'[a] = "checking" /\ todo'[a] = needs[a])
    BY <1>1, <1>13 DEF EndCheck, BeginCheck, TypeOK
  <2>4. Quiet(a)' /\ Checked(a)'
    BY <2>1, <2>2, <2>3 DEF Quiet, Checked
  <2>5. ASSUME NEW b \in Agent \ {a} PROVE Quiet(b)' /\ Checked(b)'
    <3>1. phase'[b] = phase[b]
      BY <1>1, <1>13 DEF EndCheck, TypeOK
    <3>2. todo'[b] = todo[b] /\ lost'[b] = lost[b]
      BY <1>1, <1>13 DEF EndCheck, BeginCheck, Forget, TypeOK
    <3>3. greeted' = {c \in greeted : c[1] # a}
      BY <1>13 DEF EndCheck, BeginCheck, Forget
    <3> QED
      BY <1>6, <2>1, <3>1, <3>2, <3>3
  <2> QED
    BY <1>3, <2>4, <2>5
<1>14. ASSUME NEW a \in Agent, Kill(a) PROVE ServedInv'
  <2>1. phase'[a] = "killed" /\ UNCHANGED <<link, needs, files>>
    BY <1>1, <1>14 DEF Kill, TypeOK
  <2>2. Quiet(a)' /\ Checked(a)'
    BY <2>1 DEF Quiet, Checked
  <2>3. ASSUME NEW b \in Agent \ {a} PROVE Quiet(b)' /\ Checked(b)'
    <3>1. /\ phase'[b] = phase[b] /\ todo'[b] = todo[b] /\ lost'[b] = lost[b]
          /\ greeted' = {c \in greeted : c[1] # a}
      BY <1>1, <1>14 DEF Kill, Forget, TypeOK
    <3> QED
      BY <1>6, <2>1, <3>1
  <2> QED
    BY <1>3, <2>2, <2>3
<1>15. ASSUME NEW a \in Agent, NEW i \in Id, OpenSession(a, i) PROVE ServedInv'
  <2>1. /\ phase[a] = "running" /\ UNCHANGED <<phase, needs, todo, lost, greeted, files>>
        /\ link' = [link EXCEPT ![<<a, i>>] = "open"]
    BY <1>15 DEF OpenSession, Connect, agentVars
  <2>2. Quiet(a)' /\ Checked(a)'
    BY <2>1 DEF Quiet, Checked
  <2>3. ASSUME NEW b \in Agent \ {a} PROVE Quiet(b)' /\ Checked(b)'
    BY <1>6, <2>1
  <2> QED
    BY <1>3, <2>2, <2>3
<1>16. ASSUME NEW s \in Server, Accept(s) PROVE ServedInv'
  BY <1>4, <1>16 DEF Accept, agentVars
<1>17. ASSUME NEW s \in Server, Greet(s) PROVE ServedInv'
  <2>1. serving[s] \in Conn /\ link[serving[s]] = "asked"
    BY <1>1, <1>17 DEF Greet, Asked, TypeOK
  <2>2. CASE serving[s][2] = listens[s]
    <3>1. link' = [link EXCEPT ![serving[s]] = "answered"] /\ greeted' = greeted \cup {serving[s]}
      BY <1>17, <2>2 DEF Greet
    <3>2. \A c \in Conn : link'[c] = link[c] \/ (link[c] # "none" /\ c \in greeted')
      BY <1>1, <2>1, <3>1 DEF TypeOK
    <3> QED
      BY <1>4, <1>17, <3>1, <3>2 DEF Greet, agentVars
  <2>3. CASE serving[s][2] # listens[s]
    <3>1. link' = [link EXCEPT ![serving[s]] = "open"] /\ greeted' = greeted
      BY <1>17, <2>3 DEF Greet
    <3>2. \A c \in Conn : link'[c] = link[c] \/ (link[c] # "none" /\ link'[c] = "open")
      BY <1>1, <2>1, <3>1 DEF TypeOK
    <3> QED
      BY <1>4, <1>17, <3>1, <3>2 DEF Greet, agentVars
  <2> QED
    BY <2>2, <2>3
<1>18. ASSUME NEW s \in Server, Preempt(s) PROVE ServedInv'
  <2>1. serving[s] \in Conn
    BY <1>1, <1>18 DEF Preempt, TypeOK
  <2>2. link[serving[s]] # "none"
    <3>1. 0 \in Places(s) /\ Place(s, 0) = serving[s] /\ serving[s] # None
      BY <1>1, <1>18 DEF Preempt, Places, Place, TypeOK
    <3> QED
      BY <1>1, <3>1 DEF Queued, Pending
  <2>3. \A c \in Conn : link'[c] = link[c] \/ (link[c] # "none" /\ link'[c] = "cut")
    BY <1>1, <1>18, <2>1, <2>2 DEF Preempt, TypeOK
  <2> QED
    BY <1>4, <1>18, <2>3 DEF Preempt, agentVars
<1>19. ASSUME NEW s \in Server, Throw(s) PROVE ServedInv'
  <2>1. \A c \in Conn : link'[c] = link[c] \/ (link[c] # "none" /\ link'[c] = "cut")
    BY <1>1, <1>19, UnlistenKeeps DEF Throw
  <2> QED
    BY <1>4, <1>19, <2>1 DEF Throw, agentVars
<1>20. ASSUME ServeMain PROVE ServedInv'
  <2>1. /\ MainPort \in Server /\ serving[MainPort] \in Conn
        /\ link[serving[MainPort]] = "asked" /\ serving[MainPort] # None
    BY <1>1, <1>20 DEF ServeMain, Asked, TypeOK, Server
  <2>2. serving[MainPort][2] = Main
    <3>1. 0 \in Places(MainPort) /\ Place(MainPort, 0) = serving[MainPort]
      BY <1>1, <2>1 DEF Places, Place, TypeOK
    <3> QED
      BY <1>1, <2>1, <3>1 DEF Queued, MainOnly
  <2>3. link' = link \/ link' = [link EXCEPT ![serving[MainPort]] = "answered"]
    BY <1>20 DEF ServeMain, GetResult, GetResultThrows
  <2>4. \A c \in Conn : link'[c] = link[c] \/ (link[c] # "none" /\ c[2] = Main)
    BY <1>1, <2>1, <2>2, <2>3 DEF TypeOK
  <2>5. UNCHANGED <<phase, needs, todo, lost, files, greeted>>
    BY <1>20 DEF ServeMain, GetResult, GetResultThrows, agentVars
  <2> QED
    BY <1>4, <2>4, <2>5
<1>21. ASSUME NEW i \in Id, Press(i) PROVE ServedInv'
  <2>1. UNCHANGED <<phase, needs, todo, lost, files, greeted>>
    BY <1>21 DEF Press, agentVars
  <2>2. CASE UNCHANGED link
    BY <1>4, <2>1, <2>2
  <2>3. ASSUME NEW off, Stop(off) PROVE ServedInv'
    <3>1. Listening(off) \subseteq Server
      BY DEF Listening, Server
    <3>2. \A c \in Conn : link'[c] = link[c] \/ (link[c] # "none" /\ link'[c] = "cut")
      BY <1>1, <2>3, <3>1, UnlistenKeeps DEF Stop
    <3> QED
      BY <1>4, <2>1, <3>2
  <2> QED
    BY <1>21, <2>2, <2>3 DEF Press
<1>22. ASSUME NEW a \in Agent, TurnedAway(a) PROVE ServedInv'
  <2>1. /\ link' = [link EXCEPT ![<<a, Main>>] = "none"] /\ phase'[a] = "failed"
        /\ UNCHANGED needs
    BY <1>1, <1>22 DEF TurnedAway, TypeOK
  <2>2. Quiet(a)' /\ Checked(a)'
    BY <2>1 DEF Quiet, Checked
  <2>3. ASSUME NEW b \in Agent \ {a} PROVE Quiet(b)' /\ Checked(b)'
    <3>1. /\ phase'[b] = phase[b] /\ todo'[b] = todo[b] /\ lost'[b] = lost[b]
          /\ UNCHANGED files /\ greeted' = {c \in greeted : c[1] # a}
      BY <1>1, <1>22 DEF TurnedAway, Forget, TypeOK
    <3> QED
      BY <1>6, <2>1, <3>1
  <2> QED
    BY <1>3, <2>2, <2>3
<1>23. ASSUME TimeoutMain PROVE ServedInv'
  <2>1. MainPort \in Server /\ serving[MainPort] \in Conn
    BY <1>1, <1>23 DEF TimeoutMain, TypeOK, Server
  <2>2. \A c \in Conn : link'[c] = link[c] \/ (link[c] # "none" /\ link'[c] = "cut")
    BY <1>1, <1>23, <2>1 DEF TimeoutMain, TypeOK
  <2> QED
    BY <1>4, <1>23, <2>2 DEF TimeoutMain, agentVars
<1>24. CASE UNCHANGED vars
  BY <1>4, <1>24 DEF vars, agentVars
<1> QED
  BY <1>8, <1>9, <1>10, <1>11, <1>12, <1>13, <1>14, <1>15, <1>16, <1>17, <1>18, <1>19, <1>20, <1>21, <1>22,
     <1>23, <1>24 DEF Next, StartUp, Thread

\* Nobody has a connection at first.
LEMMA ServedInit == Init => ServedInv
<1> SUFFICES ASSUME Init PROVE ServedInv
  OBVIOUS
<1>1. TypeOK
  BY TypeInit
<1>2. \A s \in Server : \A m \in Places(s) : Place(s, m) = None
  BY DEF Init, Places, Place
<1>3. Queued
  BY <1>2 DEF Queued, OnePlace, Pending, MainOnly, Server
<1>4. \A a \in Agent : Quiet(a) /\ Checked(a)
  BY DEF Init, Quiet, Checked, Conn
<1> QED
  BY <1>1, <1>3, <1>4 DEF ServedInv

\* A program is started only with every device's file in place and every device's
\* own server having answered.
THEOREM StartsServed == Spec => StartedServed
<1>1. ServedInv /\ [Next]_vars =>
        [\A a \in Agent : phase[a] # "running" /\ phase'[a] = "running" =>
           \A i \in needs[a] : <<a, i>> \in greeted /\ i \in files]_vars
  <2> SUFFICES ASSUME ServedInv, Next, NEW a \in Agent, phase[a] # "running", phase'[a] = "running",
                      NEW i \in needs[a]
               PROVE  <<a, i>> \in greeted /\ i \in files
    OBVIOUS
  <2>1. phase[a] = "checking" /\ todo[a] = {} /\ lost[a] = {}
    <3> USE DEF ServedInv, TypeOK
    <3>1. ASSUME NEW b \in Agent, Launch(b) PROVE FALSE
      BY <3>1 DEF Launch
    <3>2. ASSUME NEW b \in Agent, Ask(b) \/ Kill(b) PROVE FALSE
      BY <3>2 DEF Ask, Kill, agentVars
    <3>3. ASSUME NEW b \in Agent, TakePorts(b) \/ TurnedAway(b) PROVE FALSE
      BY <3>3 DEF TakePorts, TurnedAway
    <3>4. ASSUME NEW b \in Agent, EndCheck(b) PROVE phase[a] = "checking" /\ todo[a] = {} /\ lost[a] = {}
      <4>1. a = b
        BY <3>4 DEF EndCheck
      <4> QED
        BY <3>4, <4>1 DEF EndCheck
    <3>5. ASSUME NEW s \in Server,
                 Accept(s) \/ Greet(s) \/ Preempt(s) \/ ServeMain \/ TimeoutMain \/ Throw(s)
          PROVE  FALSE
      BY <3>5 DEF Accept, Greet, Preempt, ServeMain, GetResult, GetResultThrows, TimeoutMain, Throw,
         agentVars
    <3>6. ASSUME NEW b \in Agent, NEW j \in Id,
                 Probe(b, j) \/ EndProbe(b, j) \/ OpenSession(b, j) \/ Press(j)
          PROVE  FALSE
      BY <3>6 DEF Probe, EndProbe, OpenSession, Press, agentVars
    <3>7. MainPort \in Server
      BY DEF Server
    <3> QED
      BY <3>1, <3>2, <3>3, <3>4, <3>5, <3>6, <3>7 DEF Next, StartUp, Thread
  <2> QED
    BY <2>1 DEF ServedInv, Checked
<1> QED
  BY <1>1, ServedInit, ServedStep, PTL DEF Spec, StartedServed
=============================================================================
