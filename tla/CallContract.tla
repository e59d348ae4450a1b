---------------------------- MODULE CallContract ----------------------------
(***************************************************************************)
(* What the Dart language-server client promises the threads that use it   *)
(* (analyzers/dart/lsp.py): a call returns normally only if it was served, *)
(* every call returns, and after the connection broke no call is begun.    *)
(***************************************************************************)
CONSTANT Ops    \* the calls that a run makes, each with an identity of its own

VARIABLES
    call,       \* call[o]: "unused", "open", "returned", "raised"
    served,     \* the calls the other side has taken or answered
    broken      \* the connection is given up

contract == <<call, served, broken>>

Init ==
    /\ call = [o \in Ops |-> "unused"]
    /\ served = {}
    /\ broken = FALSE

Begin(o) ==
    /\ ~broken /\ call[o] = "unused"
    /\ call' = [call EXCEPT ![o] = "open"]
    /\ UNCHANGED <<served, broken>>

\* Also for a call that raised in the meantime; never for one not begun.
Serve(o) ==
    /\ call[o] # "unused" /\ o \notin served
    /\ served' = served \cup {o}
    /\ UNCHANGED <<call, broken>>

Return(o) ==
    /\ call[o] = "open" /\ o \in served
    /\ call' = [call EXCEPT ![o] = "returned"]
    /\ UNCHANGED <<served, broken>>

Raise(o) ==
    /\ call[o] = "open"
    /\ call' = [call EXCEPT ![o] = "raised"]
    /\ UNCHANGED <<served, broken>>

Break ==
    /\ ~broken /\ broken' = TRUE
    /\ UNCHANGED <<call, served>>

Next == \/ \E o \in Ops : Begin(o) \/ Serve(o) \/ Return(o) \/ Raise(o)
        \/ Break

Spec == Init /\ [][Next]_contract
=============================================================================
