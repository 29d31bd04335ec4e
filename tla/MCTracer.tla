------------------------------ MODULE MCTracer ------------------------------
(* Instances of Tracer for TLC: model values for processes, descriptors and *)
(* handlers, so that handlers can be permuted in the safety runs.           *)
EXTENDS TracerInv, TLC

Symmetric == Permutations(Obj)

\* Freed storage is written before it is read again, so what it holds does not
\* tell two states apart.
InUse == ({cur[p] : p \in Pid} \cup {reg[p][f] : p \in Pid, f \in Fd}) \ {None}
LiveView ==
  <<kernelVars, spinning, known, numberOfProcesses, exiting, cur, reg,
    [o \in InUse |-> <<before[o], state[o]>>]>>
=============================================================================
