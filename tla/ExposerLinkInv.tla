--------------------------- MODULE ExposerLinkInv ---------------------------
(***************************************************************************)
(* What holds of the connections of an exposer's server, whatever is sent  *)
(* on them.                                                                *)
(***************************************************************************)
EXTENDS ExposerLink

\* A client connects once: it waits to be accepted, is served or has been cut off,
\* and then what it sends is lost.
Connected ==
  /\ served # None => opened[served] /\ served \notin cut
  /\ \A i \in DOMAIN backlog :
       opened[backlog[i]] /\ backlog[i] # served /\ backlog[i] \notin cut
  /\ \A i, j \in DOMAIN backlog : backlog[i] = backlog[j] => i = j
  /\ \A c \in cut : opened[c] /\ sent[c] = <<>>
  /\ \A c \in Client : ~opened[c] => sent[c] = <<>> /\ answer[c] = <<>>
=============================================================================
