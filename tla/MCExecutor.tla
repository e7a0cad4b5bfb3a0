----------------------------- MODULE MCExecutor -----------------------------
(* Workloads of QueryCache small enough for TLC. *)
EXTENDS QueryCache

Workload(s, r, c, f) == [searches |-> s, runs |-> r, crashes |-> c, faults |-> f]

\* Searches that share the cache; a search against the coordinator; operations
\* that are taken up again, in one life of the server and in the next.
MCWorkloads == {Workload(3, 0, 0, 2), Workload(1, 1, 0, 2), Workload(1, 2, 1, 1),
                Workload(0, 3, 1, 2)}
=============================================================================
