-------------------------- MODULE MCOperationLedger --------------------------
(* Small instances of OperationLedger.  Operation 1 is a memory; 2 and 3 are   *)
(* task operations, and 2 depends on 3.                                        *)
EXTENDS OperationLedger, TLC

MCDeps == [op \in Ops |-> IF op = 2 THEN {3} ELSE {}]

\* Clients 1, 2, 3 ask for the operation of their number; 4, 5 and 6 for
\* operation 1 too, 4 with the payload of client 1; 7 for operation 3 too.
MCRequest ==
    [c \in Clients |->
        [op |-> CASE c \in {1, 4, 5, 6} -> 1 [] c = 2 -> 2 [] c \in {3, 7} -> 3,
         hash |-> CASE c \in {1, 4} -> "h" [] c \in {2, 3} -> "task"
                    [] c = 5 -> "invalid" [] c = 6 -> "empty" [] c = 7 -> "refused"]]

Work(who, fails, asks, dies) ==
    [clients |-> who, faults |-> fails, requests |-> asks, crashes |-> dies]

\* Two operations of which one waits for the other; three clients race for one
\* id, one of them with another payload; two of them, and the server restarts.
SafetyWork == {Work({2, 3}, 1, 1, 0), Work({1, 4, 5}, 1, 0, 0), Work({1, 5}, 1, 0, 1)}

\* Two clients race for a memory, or for a task, one of them with a payload that
\* is rejected, or that the store refuses every time; a memory is embedded by two
\* servers in turn.
LiveWork == {Work({1, 6}, 1, 1, 0), Work({1}, 1, 0, 1), Work({3, 7}, 1, 1, 0)}

UnavailableWork == {Work({1}, 1, 0, 0)}
RejectWork      == {Work({1}, 2, 1, 0)}
RefusedWork     == {Work({7}, 1, 1, 1)}

\* Nothing tells parts apart, or models; used for safety properties only.
MCSymmetry == Permutations(Parts) \cup Permutations(Models)

=============================================================================
