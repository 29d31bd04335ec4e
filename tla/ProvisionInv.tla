----------------------------- MODULE ProvisionInv -----------------------------
(***************************************************************************)
(* What Provision's properties rest on: invariants that are inductive.     *)
(***************************************************************************)
EXTENDS Provision, Integers

\* Where a connection can be with a server: served (0), or at a place of its queue.
Place(s, n) == IF n = 0 THEN serving[s] ELSE queue[s][n]
Places(s)   == 0 .. Len(queue[s])

\* A connection is at one place of one server, and has not been answered or cut.
OnePlace ==
  \A s, t \in Server : \A m \in Places(s), n \in Places(t) :
    Place(s, m) = Place(t, n) /\ Place(s, m) # None => s = t /\ m = n

Pending ==
  \A s \in Server : \A m \in Places(s) :
    Place(s, m) # None => link[Place(s, m)] \in {"open", "asked"}

\* The main server's port is for the main server's agents.
MainOnly ==
  \A m \in Places(MainPort) :
    Place(MainPort, m) # None => Place(MainPort, m)[2] = Main

\* Before its check an agent has no connection to the servers of its devices.
Quiet(a) ==
  /\ phase[a] = "off" => link[<<a, Main>>] = "none"
  /\ phase[a] \in {"off", "asking"} => \A i \in Id : link[<<a, i>>] = "none"

\* In the check it has one to the server of a device that is still to do; what is
\* no longer to do was found unavailable, or its server has answered.
Checked(a) ==
  phase[a] = "checking" =>
    /\ \A i \in Id : /\ link[<<a, i>>] # "none" => i \in todo[a] /\ i \in files
                     /\ link[<<a, i>>] = "answered" => <<a, i>> \in greeted
    /\ \A i \in needs[a] : \/ i \in todo[a] \/ i \in lost[a]
                           \/ <<a, i>> \in greeted /\ i \in files

Queued == OnePlace /\ Pending /\ MainOnly

ServedInv == TypeOK /\ Queued /\ \A a \in Agent : Quiet(a) /\ Checked(a)
-----------------------------------------------------------------------------
\* A button that is checked has its server, as long as no program asks for an
\* input without the window.
WellAsked == \A a \in Agent : needs[a] \cap Inputs # {} => "FBUF" \in needs[a]
Started   == \A i \in enabled : port[i] \in Port
NotAsked  == \A a \in Agent : phase[a] = "off" => needs[a] = {}

MainInv == TypeOK /\ MainSurvives /\ NotAsked /\ (WellAsked => Started)
=============================================================================
