---------------------------------- MODULE Rknn ----------------------------------
(***************************************************************************)
(* The runtime of the neural processor, seen from its callers: contexts    *)
(* are opened and destroyed, a context keeps the inputs it was given and   *)
(* the outcome of its last run, and outputs that were handed out have to   *)
(* be released.  What a model computes of x is called x; 0 is nothing.     *)
(***************************************************************************)
EXTENDS Naturals

CONSTANT Models    \* the model files, one context each

VARIABLES
    opened,        \* how many contexts of a model are open
    context,       \* [in, out]: what was set and what was computed last
    lent           \* how many outputs of a model are handed out

rknnVars == <<opened, context, lent>>

RknnInit ==
    /\ opened = [m \in Models |-> 0]
    /\ context = [m \in Models |-> [in |-> 0, out |-> 0]]
    /\ lent = [m \in Models |-> 0]

\* rknn_inputs_set, rknn_run, rknn_outputs_get and rknn_outputs_release when they succeed.
SetInputs(m, x) == context' = [context EXCEPT ![m].in = x] /\ UNCHANGED <<opened, lent>>
RunContext(m) == context' = [context EXCEPT ![m].out = context[m].in] /\ UNCHANGED <<opened, lent>>
Lend(m) == lent' = [lent EXCEPT ![m] = @ + 1] /\ UNCHANGED <<opened, context>>
TakeBack(m, n) == lent' = [lent EXCEPT ![m] = @ - n] /\ UNCHANGED <<opened, context>>

\* rknn_init and rknn_destroy: the contexts of m become n more or fewer.
Reopen(n) == opened' = [m \in Models |-> opened[m] + n[m]] /\ UNCHANGED <<context, lent>>
=============================================================================
