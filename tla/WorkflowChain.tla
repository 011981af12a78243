--------------------------- MODULE WorkflowChain ---------------------------
(***************************************************************************)
(* What a phase ledger promises, whatever the processes, the files and the *)
(* crashes behind it: a workflow is one growing sequence of outputs, each  *)
(* step is opened once, its action is performed at most once while it is   *)
(* open, and an opened step is closed by its own output or never.          *)
(***************************************************************************)
EXTENDS Naturals, Sequences

CONSTANTS WorkflowIds, Outputs, MaxSeq

VARIABLES
    chain,      \* chain[w]: outputs committed so far, in phase order
    opened,     \* opened[w]: the next phase has been consumed
    performed   \* performed[w][n]: times the action of phase n was performed

chainVars == <<chain, opened, performed>>

Init ==
    /\ chain = [w \in WorkflowIds |-> <<>>]
    /\ opened = [w \in WorkflowIds |-> FALSE]
    /\ performed = [w \in WorkflowIds |-> [n \in 1..MaxSeq |-> 0]]

Open(w) ==
    /\ ~opened[w]
    /\ Len(chain[w]) < MaxSeq
    /\ opened' = [opened EXCEPT ![w] = TRUE]
    /\ UNCHANGED <<chain, performed>>

Perform(w) ==
    /\ opened[w]
    /\ performed[w][Len(chain[w]) + 1] = 0
    /\ performed' = [performed EXCEPT ![w][Len(chain[w]) + 1] = 1]
    /\ UNCHANGED <<chain, opened>>

Close(w, out) ==
    /\ opened[w]
    /\ performed[w][Len(chain[w]) + 1] = 1
    /\ chain' = [chain EXCEPT ![w] = Append(@, out)]
    /\ opened' = [opened EXCEPT ![w] = FALSE]
    /\ UNCHANGED performed

Next ==
    \E w \in WorkflowIds :
        \/ Open(w)
        \/ Perform(w)
        \/ \E out \in Outputs : Close(w, out)

Spec == Init /\ [][Next]_chainVars
=============================================================================
