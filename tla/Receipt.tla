------------------------------- MODULE Receipt -------------------------------
(***************************************************************************)
(* What the operation ledger promises a client that holds a receipt, apart *)
(* from how the ledger gets there: an operation is accepted once, its      *)
(* effect reaches the store only after every dependency has committed, it  *)
(* commits only when its effect is there, and an answer once final stays.  *)
(***************************************************************************)
EXTENDS FiniteSets

CONSTANTS Ops, Deps

VARIABLES
    receipt,   \* "absent", "open", "committed" or "rejected"
    applied    \* operations whose effect is in the store

vars == <<receipt, applied>>

Committed(op) == receipt[op] = "committed"

Accept(op) ==
    /\ receipt[op] = "absent"
    /\ receipt' = [receipt EXCEPT ![op] = "open"]
    /\ UNCHANGED applied

Apply(op) ==
    /\ receipt[op] # "absent"
    /\ \A d \in Deps[op] : Committed(d)
    /\ applied' = applied \cup {op}
    /\ UNCHANGED receipt

Commit(op) ==
    /\ receipt[op] = "open" /\ op \in applied
    /\ \A d \in Deps[op] : Committed(d)
    /\ receipt' = [receipt EXCEPT ![op] = "committed"]
    /\ UNCHANGED applied

Reject(op) ==
    /\ receipt[op] = "open"
    /\ receipt' = [receipt EXCEPT ![op] = "rejected"]
    /\ UNCHANGED applied

Init == receipt = [op \in Ops |-> "absent"] /\ applied = {}

Next == \E op \in Ops : Accept(op) \/ Apply(op) \/ Commit(op) \/ Reject(op)

Spec == Init /\ [][Next]_vars

=============================================================================
