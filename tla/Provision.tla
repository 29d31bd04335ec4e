------------------------------ MODULE Provision ------------------------------
(***************************************************************************)
(* How an agent starts: EnsureExposer asks LoWeExposer's main server for   *)
(* the servers its program needs, which are started if they are not there, *)
(* CheckAvailability greets each of them, and what is missing is fixed and *)
(* checked once more.  Meanwhile the user presses the exposer's buttons,   *)
(* other agents start, run and are killed, and a server that sees another  *)
(* connection drops the one it has.                                        *)
(*                                                                         *)
(* A connection is a pair of an agent and what it is for; an agent that    *)
(* runs uses the same names for the sessions of its program.               *)
(***************************************************************************)
EXTENDS Sequences, SequencesExt, Functions

CONSTANTS
  Agent,
  Mortal,    \* those that may be killed
  Id,        \* what the exposer offers: "FBUF", "MICE", "KEYB", "ALSA"
  Inputs,    \* "MICE" and "KEYB", whose events come from the window of FBUF
  Needs,     \* Needs[a]: the sets of exposer ids that a's program may need
  Port,      \* ports the system gives to the servers
  MainPort,
  Stopped,   \* port 0
  None

Main   == "LOWE"
Conn   == Agent \X (Id \cup {Main})
Server == Port \cup {MainPort}

ASSUME ProvisionAssumption ==
  /\ Mortal \subseteq Agent
  /\ Main \notin Id /\ "FBUF" \in Id /\ Inputs \subseteq Id \ {"FBUF"}
  /\ Needs \in [Agent -> SUBSET ((SUBSET Id) \ {{}})]
  /\ MainPort \notin Port \cup {Stopped, None} /\ Stopped \notin Port
  /\ None \notin Port \cup Id \cup {Main} \cup Conn

VARIABLES
  \* LoWeExposer.
  enabled,   \* the ids whose button is checked
  port,      \* port[i]: Port of i's handler, None without a handler
  listens,   \* listens[s]: the id whose server listens on s, or None
  alive,     \* the ports whose server has its thread
  serving,   \* serving[s]: the connection behind _socket, or None
  queue,     \* queue[s]: connections that were not accepted yet
  \* The agents.
  phase,     \* "off", "asking", "checking", "running", "failed", "killed"
  needs,
  got,       \* got[a]: _ports
  todo,      \* the devices CheckAvailability has not come to
  lost,      \* those it has found unavailable
  again,     \* the check is the second one
  link,      \* link[c]: "none", "open", "asked", "answered", "cut"
  greeted,   \* the connections whose server has answered with its own id
  files      \* the ids whose device files exist with their permissions

exposerVars == <<enabled, port>>
serverVars  == <<listens, alive, serving, queue>>
agentVars   == <<phase, needs, got, todo, lost, again>>
vars == <<exposerVars, serverVars, agentVars, link, greeted, files>>

TypeOK ==
  /\ enabled \subseteq Id
  /\ port \in [Id -> Port \cup {Stopped, None}]
  /\ listens \in [Server -> Id \cup {Main, None}]
  /\ alive \subseteq {s \in Server : listens[s] # None}
  /\ serving \in [Server -> Conn \cup {None}]
  /\ queue \in [Server -> Seq(Conn)]
  /\ phase \in [Agent -> {"off", "asking", "checking", "running", "failed", "killed"}]
  /\ needs \in [Agent -> SUBSET Id]
  /\ got \in [Agent -> [Id -> Port \cup {Stopped, None}]]
  /\ todo \in [Agent -> SUBSET Id] /\ lost \in [Agent -> SUBSET Id]
  /\ again \in [Agent -> BOOLEAN]
  /\ link \in [Conn -> {"none", "open", "asked", "answered", "cut"}]
  /\ greeted \subseteq Conn
  /\ files \subseteq Id

Init ==
  /\ enabled = {} /\ port = [i \in Id |-> None]
  /\ listens = [s \in Server |-> IF s = MainPort THEN Main ELSE None]
  /\ alive = {MainPort}
  /\ serving = [s \in Server |-> None] /\ queue = [s \in Server |-> <<>>]
  /\ phase = [a \in Agent |-> "off"] /\ needs = [a \in Agent |-> {}]
  /\ got = [a \in Agent |-> [i \in Id |-> None]]
  /\ todo = [a \in Agent |-> {}] /\ lost = [a \in Agent |-> {}]
  /\ again = [a \in Agent |-> FALSE]
  /\ link = [c \in Conn |-> "none"] /\ greeted = {} /\ files \in {{}, Id}
-----------------------------------------------------------------------------
(* Servers: HandlerBase and the accept loops of the classes derived from it. *)

\* Start of handlers for the ids ids, each on a port of its own.
Start(ids) ==
  \E p \in [ids -> {s \in Port : listens[s] = None}] :
    /\ IsInjective(p)
    /\ port' = [i \in Id |-> IF i \in ids THEN p[i] ELSE port[i]]
    /\ listens' = [s \in Server |-> IF \E i \in ids : p[i] = s
                                      THEN CHOOSE i \in ids : p[i] = s ELSE listens[s]]

\* Mutant: the thread is not told to end.
UnlistenOnly(gone) ==
  /\ listens' = [s \in Server |-> IF s \in gone THEN None ELSE listens[s]]
  /\ UNCHANGED <<alive, queue, serving, link>>

\* The listeners of the ports gone are stopped: who is waiting is refused, and
\* the thread closes what it serves or, if Pending throws, leaves it open for ever.
Unlisten(gone) ==
  /\ listens' = [s \in Server |-> IF s \in gone THEN None ELSE listens[s]]
  /\ alive' = alive \ gone
  /\ queue' = [s \in Server |-> IF s \in gone THEN <<>> ELSE queue[s]]
  /\ serving' = [s \in Server |-> IF s \in gone THEN None ELSE serving[s]]
  /\ \E leaked \in SUBSET {serving[s] : s \in gone} :
       link' = [c \in Conn |->
                  IF \E s \in gone : \/ c \in ToSet(queue[s])
                                     \/ c = serving[s] /\ c \notin leaked
                    THEN "cut" ELSE link[c]]

\* The ports whose listener belongs to the handlers of ids.
Listening(ids) == {port[i] : i \in {j \in ids : port[j] \in Port /\ listens[port[j]] = j}}

\* Mutant: Port keeps its value.
StopKeepsPort(ids) ==
  /\ Unlisten(Listening(ids))
  /\ port' = [i \in Id |-> IF i \in ids /\ i = "FBUF" THEN None ELSE port[i]]

\* Stop of the handlers of ids; the window of FBUF takes its handler with it.
Stop(ids) ==
  /\ Unlisten(Listening(ids))
  /\ port' = [i \in Id |-> IF i \notin ids THEN port[i]
                           ELSE IF i = "FBUF" \/ port[i] = None THEN None ELSE Stopped]

Accept(s) ==
  /\ s \in alive /\ serving[s] = None /\ queue[s] # <<>>
  /\ serving' = [serving EXCEPT ![s] = Head(queue[s])]
  /\ queue' = [queue EXCEPT ![s] = Tail(@)]
  /\ UNCHANGED <<exposerVars, listens, alive, agentVars, link, greeted, files>>

Asked(s) == s \in alive /\ serving[s] # None /\ link[serving[s]] = "asked"

\* The first operation of a connection is an id: the server's own is answered and
\* the connection closed, another one is read and ignored.
Greet(s) ==
  /\ s # MainPort /\ Asked(s)
  /\ LET c == serving[s] IN
       IF c[2] = listens[s]
         THEN /\ link' = [link EXCEPT ![c] = "answered"]
              /\ greeted' = greeted \cup {c}
              /\ serving' = [serving EXCEPT ![s] = None]
         ELSE /\ link' = [link EXCEPT ![c] = "open"]
              /\ UNCHANGED <<greeted, serving>>
  /\ UNCHANGED <<exposerVars, listens, alive, queue, agentVars, files>>

\* Another connection is pending.
Preempt(s) ==
  /\ s \in alive /\ s # MainPort /\ serving[s] # None /\ queue[s] # <<>>
  /\ link' = [link EXCEPT ![serving[s]] = "cut"]
  /\ serving' = [serving EXCEPT ![s] = None]
  /\ UNCHANGED <<exposerVars, listens, alive, queue, agentVars, greeted, files>>

\* An answer to an agent that is gone: the thread ends and stops the listener,
\* and Port keeps its value.
Throw(s) ==
  /\ s \in alive \ {MainPort} /\ serving[s] # None
  /\ phase[serving[s][1]] = "killed" /\ link[serving[s]] = "open"
  /\ Unlisten({s})
  /\ UNCHANGED <<exposerVars, agentVars, greeted, files>>
-----------------------------------------------------------------------------
(* The main server.                                                        *)

\* Mutant: the inputs are enabled before the window.
WindowlessInputsFirst(names) ==
  (names \cap Inputs) \ enabled # {} /\ "FBUF" \notin enabled

\* An input is asked for without the window it comes from.
Windowless(names) == (names \cap Inputs) \ enabled # {} /\ "FBUF" \notin enabled \cup names

\* Mutant: the socket of an answered agent is not closed.
CloseMainNever == UNCHANGED serving

CloseMain == serving' = [serving EXCEPT ![MainPort] = None]

\* GetResult, in the window's thread: buttons are checked for what is needed, which
\* starts its servers.  The handler of an input cannot be started without the
\* window, whose absence is an exception; if that does not come through the
\* binding, reading the Port of a handler that was never made is one.
\* An exception, as the one for an agent that is gone before the second part of
\* its answer, leaves the loop of MainHandler: its port is listened to for ever
\* and nobody serves it.
GetResult(c) ==
  LET names == needs[c[1]]
      started == names \ (enabled \cup IF Windowless(names) THEN Inputs ELSE {})
  IN
  /\ enabled' = enabled \cup names
  /\ Start(started)
  /\ \/ /\ \A i \in names : port'[i] # None
        /\ link' = [link EXCEPT ![c] = "answered"]
        /\ got' = IF phase[c[1]] = "killed" THEN got ELSE [got EXCEPT ![c[1]] = port']
        /\ CloseMain
        /\ alive' = alive \cup {port'[i] : i \in started}
     \/ /\ phase[c[1]] = "killed" \/ \E i \in names : port'[i] = None
        /\ alive' = (alive \cup {port'[i] : i \in started}) \ {MainPort}
        /\ UNCHANGED <<link, got, serving>>
  /\ UNCHANGED <<queue, phase, needs, todo, lost, again, greeted, files>>

\* The exception comes at once: the button of an input is checked, and nothing
\* that comes after it is done.
GetResultThrows(c) ==
  /\ Windowless(needs[c[1]])
  /\ \E i \in (needs[c[1]] \cap Inputs) \ enabled : enabled' = enabled \cup {i}
  /\ alive' = alive \ {MainPort}
  /\ UNCHANGED <<port, listens, serving, queue, agentVars, link, greeted, files>>

\* The loop over operations; an agent that vanished without sending one keeps it.
ServeMain ==
  Asked(MainPort) /\ (GetResult(serving[MainPort]) \/ GetResultThrows(serving[MainPort]))

\* An agent has sent LOWE, and nothing more for a second, or nothing more at all:
\* its connection is closed.
TimeoutMain ==
  /\ MainPort \in alive
  /\ serving[MainPort] # None /\ link[serving[MainPort]] = "open"
  /\ link' = [link EXCEPT ![serving[MainPort]] = "cut"]
  /\ CloseMain
  /\ UNCHANGED <<exposerVars, listens, alive, queue, agentVars, greeted, files>>
-----------------------------------------------------------------------------
(* The buttons of the main window.                                         *)

Press(i) ==
  /\ i \in Inputs => "FBUF" \in enabled
  /\ \/ /\ i \notin enabled
        /\ Start({i}) /\ alive' = alive \cup {port'[i]}
        /\ enabled' = enabled \cup {i}
        /\ UNCHANGED <<serving, queue, link>>
     \/ /\ i \in enabled
        /\ LET off == IF i = "FBUF" THEN {i} \cup (Inputs \cap enabled) ELSE {i}
           IN  Stop(off) /\ enabled' = enabled \ off
  /\ UNCHANGED <<agentVars, greeted, files>>
-----------------------------------------------------------------------------
(* The agents.                                                             *)

Connect(c, s, state) ==
  /\ queue' = [queue EXCEPT ![s] = Append(@, c)]
  /\ link' = [link EXCEPT ![c] = state]

Launch(a) ==
  /\ phase[a] = "off"
  /\ phase' = [phase EXCEPT ![a] = "asking"]
  /\ \E ids \in Needs[a] : needs' = [needs EXCEPT ![a] = ids]
  /\ Connect(<<a, Main>>, MainPort, "open")
  /\ UNCHANGED <<exposerVars, listens, alive, serving, got, todo, lost, again, greeted, files>>

Ask(a) ==
  /\ phase[a] = "asking" /\ link[<<a, Main>>] = "open"
  /\ link' = [link EXCEPT ![<<a, Main>>] = "asked"]
  /\ UNCHANGED <<exposerVars, serverVars, agentVars, greeted, files>>

BeginCheck(a, second) ==
  /\ todo' = [todo EXCEPT ![a] = needs[a]]
  /\ lost' = [lost EXCEPT ![a] = {}]
  /\ again' = [again EXCEPT ![a] = second]
  /\ greeted' = {c \in greeted : c[1] # a}

\* What an agent knows is of no interest after its start-up, but for _ports.
Forget(a, ports) ==
  /\ todo' = [todo EXCEPT ![a] = {}] /\ lost' = [lost EXCEPT ![a] = {}]
  /\ again' = [again EXCEPT ![a] = FALSE]
  /\ greeted' = {c \in greeted : c[1] # a}
  /\ got' = [got EXCEPT ![a] = ports]

Unknown == [i \in Id |-> None]

\* The rest of EnsureExposer: a port that is not positive ends the agent.
TakePorts(a) ==
  /\ phase[a] = "asking" /\ link[<<a, Main>>] = "answered"
  /\ link' = [link EXCEPT ![<<a, Main>>] = "none"]
  /\ IF \A i \in needs[a] : got[a][i] # Stopped
       THEN phase' = [phase EXCEPT ![a] = "checking"] /\ BeginCheck(a, FALSE)
            /\ UNCHANGED got
       ELSE phase' = [phase EXCEPT ![a] = "failed"] /\ Forget(a, Unknown)
  /\ UNCHANGED <<exposerVars, serverVars, needs, files>>

\* The main server has closed the connection.
TurnedAway(a) ==
  /\ phase[a] = "asking" /\ link[<<a, Main>>] = "cut"
  /\ link' = [link EXCEPT ![<<a, Main>>] = "none"]
  /\ phase' = [phase EXCEPT ![a] = "failed"]
  /\ Forget(a, Unknown)
  /\ UNCHANGED <<exposerVars, serverVars, needs, files>>

\* Mutant: the device's failure is not noted.
UnavailableUnnoted(a, i) ==
  /\ todo' = [todo EXCEPT ![a] = @ \ {i}]
  /\ UNCHANGED lost

Unavailable(a, i) ==
  /\ todo' = [todo EXCEPT ![a] = @ \ {i}]
  /\ lost' = [lost EXCEPT ![a] = @ \cup {i}]

\* IsDeviceAvailable up to the sending of the id.
Probe(a, i) ==
  /\ phase[a] = "checking" /\ i \in todo[a]
  /\ \A j \in Id : link[<<a, j>>] = "none"
  /\ IF i \in files /\ listens[got[a][i]] # None
       THEN Connect(<<a, i>>, got[a][i], "asked") /\ UNCHANGED <<todo, lost>>
       ELSE Unavailable(a, i) /\ UNCHANGED <<queue, link>>
  /\ UNCHANGED <<exposerVars, listens, alive, serving, phase, needs, got, again, greeted, files>>

\* The rest of it.
EndProbe(a, i) ==
  /\ phase[a] = "checking" /\ link[<<a, i>>] \in {"answered", "cut"}
  /\ link' = [link EXCEPT ![<<a, i>>] = "none"]
  /\ IF link[<<a, i>>] = "answered"
       THEN todo' = [todo EXCEPT ![a] = @ \ {i}] /\ UNCHANGED lost
       ELSE Unavailable(a, i)
  /\ UNCHANGED <<exposerVars, serverVars, phase, needs, got, again, greeted, files>>

\* The devices for which GetFixupScript returns something.
Fixable(a) == {i \in lost[a] : i = "FBUF" \/ i \notin files}

\* All devices are there: the program is started.  Otherwise the script is run, if
\* there is one, and may create the files, or sudo is refused; then one more check.
EndCheck(a) ==
  /\ phase[a] = "checking" /\ todo[a] = {}
  /\ \/ /\ lost[a] = {}
        /\ phase' = [phase EXCEPT ![a] = "running"]
        /\ Forget(a, got[a])
        /\ UNCHANGED files
     \/ /\ lost[a] # {} /\ ~again[a] /\ Fixable(a) # {}
        /\ files' \in {files, files \cup Fixable(a)}
        /\ BeginCheck(a, TRUE)
        /\ UNCHANGED <<phase, got>>
     \/ /\ lost[a] # {} /\ (again[a] \/ Fixable(a) = {})
        /\ phase' = [phase EXCEPT ![a] = "failed"]
        /\ Forget(a, Unknown)
        /\ UNCHANGED files
  /\ UNCHANGED <<exposerVars, serverVars, needs, link>>

\* A handler of the program that runs connects to its server (bound: one does).
OpenSession(a, i) ==
  /\ phase[a] = "running" /\ i \in needs[a]
  /\ \A j \in Id : link[<<a, j>>] = "none"
  /\ listens[got[a][i]] # None
  /\ Connect(<<a, i>>, got[a][i], "open")
  /\ UNCHANGED <<exposerVars, listens, alive, serving, agentVars, greeted, files>>

Kill(a) ==
  /\ a \in Mortal /\ phase[a] \in {"asking", "checking", "running"}
  /\ phase' = [phase EXCEPT ![a] = "killed"]
  /\ Forget(a, Unknown)
  /\ UNCHANGED <<exposerVars, serverVars, needs, link, files>>

StartUp(a) ==
  \/ Ask(a) \/ TakePorts(a) \/ TurnedAway(a) \/ EndCheck(a)
  \/ \E i \in Id : Probe(a, i) \/ EndProbe(a, i)

Thread(s) == Accept(s) \/ Greet(s) \/ Preempt(s) \/ (s = MainPort /\ ServeMain)

Next ==
  \/ \E a \in Agent : Launch(a) \/ StartUp(a) \/ Kill(a) \/ \E i \in Id : OpenSession(a, i)
  \/ \E s \in Server : Thread(s) \/ Throw(s)
  \/ TimeoutMain
  \/ \E i \in Id : Press(i)

Spec == Init /\ [][Next]_vars

\* The agents' and the servers' threads run; the user and the programs need not,
\* and no timeout has to pass.
FairSpec ==
  /\ Spec
  /\ \A a \in Agent : WF_vars(StartUp(a))
  /\ \A s \in Server : WF_vars(Thread(s))
-----------------------------------------------------------------------------
(* Properties.                                                             *)

\* A program is started only after the server of each of its devices, and not
\* another one on a reused port, has answered in the last check, and with all
\* their files in place.
StartedServed ==
  [][\A a \in Agent : phase[a] # "running" /\ phase'[a] = "running" =>
       \A i \in needs[a] : <<a, i>> \in greeted /\ i \in files]_vars

\* A port the exposer announces is one on which a server of that kind listens,
\* through every start, stop and reuse of ports, unless an agent that was killed
\* has made the server's thread throw.
PortsLive ==
  \A i \in Id : port[i] \in Port =>
    listens[port[i]] = i \/ \E a \in Agent : phase[a] = "killed"

\* The main server lives as long as no program asks for inputs without the window
\* and no agent is killed.
MainSurvives ==
  \/ MainPort \in alive
  \/ \E a \in Agent : \/ phase[a] = "killed"
                      \/ needs[a] \cap Inputs # {} /\ "FBUF" \notin needs[a]

\* Where an agent waits for an answer that will not come: the main server's thread
\* is gone or stays with an agent that was killed before it asked; the connection
\* was left open by a server that was stopped; the port was reused.
Lonely(c) == \A s \in Server : serving[s] # c /\ c \notin ToSet(queue[s])

Stuck(a) ==
  \/ /\ phase[a] = "asking"
     /\ \/ MainPort \notin alive
        \/ \E c \in Conn : /\ serving[MainPort] = c
                           /\ phase[c[1]] = "killed" /\ link[c] = "open"
  \/ /\ phase[a] = "checking"
     /\ \E i \in Id : \/ link[<<a, i>>] = "open"
                      \/ link[<<a, i>>] = "asked" /\ Lonely(<<a, i>>)

\* There is nothing else an agent can hang on: otherwise it comes to an end,
\* starting its program or giving up.
StartupEnds ==
  \A a \in Agent : phase[a] \in {"asking", "checking"} ~>
                     phase[a] \notin {"asking", "checking"} \/ Stuck(a)
=============================================================================
