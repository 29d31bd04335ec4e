---------------------------- MODULE ExposerLink -----------------------------
(***************************************************************************)
(* The TCP connections between the agent's device handlers and one of      *)
(* LoWeExposer's servers: SocketCommunicator on one side, the accept loop  *)
(* of the classes derived from HandlerBase on the other.  A server serves  *)
(* one connection at a time and drops it when another client connects.     *)
(*                                                                         *)
(* The modules that extend this one add what the server does with a        *)
(* message.  A message is what one Send transmits, an answer what the      *)
(* server writes for one request.                                          *)
(***************************************************************************)
EXTENDS Naturals, Sequences

CONSTANTS
  Client,   \* the handlers that connect to this server
  None

VARIABLES
  alive,    \* the agent has not been killed
  opened,   \* opened[c]: _opened of c's SocketCommunicator
  backlog,  \* clients that connected and were not accepted yet
  served,   \* the client behind _socket, or None
  cut,      \* the clients whose connection the server has closed
  reset,    \* those of them whose end has been told so
  sent,     \* sent[c]: messages of c the server has not read
  answer    \* answer[c]: answers c has not received

linkVars == <<alive, opened, backlog, served, cut, reset, sent, answer>>

LinkTypeOK(Message, Answer) ==
  /\ alive \in BOOLEAN
  /\ opened \in [Client -> BOOLEAN]
  /\ backlog \in Seq(Client)
  /\ served \in Client \cup {None}
  /\ cut \subseteq Client /\ reset \subseteq cut
  /\ sent \in [Client -> Seq(Message)]
  /\ answer \in [Client -> Seq(Answer)]

LinkInit ==
  /\ alive = TRUE
  /\ opened = [c \in Client |-> FALSE]
  /\ backlog = <<>>
  /\ served = None
  /\ cut = {} /\ reset = {}
  /\ sent = [c \in Client |-> <<>>]
  /\ answer = [c \in Client |-> <<>>]
-----------------------------------------------------------------------------
(* The client.                                                             *)

\* Open: nothing closes the socket of a handler, so it connects only once.
Open(c) ==
  /\ opened' = [opened EXCEPT ![c] = TRUE]
  /\ backlog' = IF opened[c] THEN backlog ELSE Append(backlog, c)

\* The server is not there; the program gets an error and may try again.
OpenFails(c) == ~opened[c] /\ UNCHANGED linkVars

\* What Send does with messages: on a connection the server has closed they are
\* lost, and the other end answers with a reset.
Post(c, messages) ==
  IF c \in cut
    THEN reset' = reset \cup {c} /\ UNCHANGED sent
    ELSE sent' = [sent EXCEPT ![c] = @ \o messages] /\ UNCHANGED reset

\* A Send on a connection that was reset raises SIGPIPE, which the agent does
\* not handle; it may also just fail, which no caller looks at.
SigPipe(c) ==
  /\ alive /\ c \in reset
  /\ alive' = FALSE
  /\ UNCHANGED <<opened, backlog, served, cut, reset, sent, answer>>
-----------------------------------------------------------------------------
(* The server.                                                             *)

Accept ==
  /\ served = None
  /\ backlog # <<>>
  /\ served' = Head(backlog)
  /\ backlog' = Tail(backlog)
  /\ UNCHANGED <<alive, opened, cut, reset, sent, answer>>

\* Mutant: the loop does not look for a pending connection.
KeepServingAnyway == served # None

\* The condition of the loop over a connection's operations.
KeepServing == served # None /\ backlog = <<>>

\* The loop is left and the socket closed; what was not read causes a reset.
Hangup ==
  /\ served' = None
  /\ cut' = cut \cup {served}
  /\ reset' = reset \cup {c \in {served} : sent[c] # <<>>}
  /\ sent' = [sent EXCEPT ![served] = <<>>]
  /\ UNCHANGED <<alive, opened, backlog, answer>>

\* Another client is waiting.
Preempt ==
  /\ served # None
  /\ ~KeepServing
  /\ Hangup

\* The message the server reads next, and reading it.
Incoming(m) == served # None /\ sent[served] # <<>> /\ Head(sent[served]) = m
Take  == sent' = [sent EXCEPT ![served] = Tail(@)]
Reply(a) == answer' = [answer EXCEPT ![served] = Append(@, a)]
=============================================================================
