----------------------------- MODULE QueryCache -----------------------------
(***************************************************************************)
(* The query-embedding cache of SurrealStorage in front of the executor:   *)
(* searches for one and the same query (embed_query in                     *)
(* crates/surreal-memory/src/storage/surreal.rs).  One of them produces    *)
(* the embedding, the others wait for it; a producer that fails or is      *)
(* dropped leaves its place to a waiter.                                   *)
(***************************************************************************)
EXTENDS Executor

ASSUME QueryCacheAssumption == "none" \notin Searches

VARIABLES
    cached,    \* the device the cached embedding comes from, or "none"
    producer   \* the search that holds the insertion guard, or "none"

vars == <<child, owner, sup, caller, prepared, snapshot, late, past, begun, left,
          cached, producer>>

SearchFrame == UNCHANGED <<child, owner>> /\ Rest

\* Mutant: the namespace outlives the fallback to another device.
KeyIgnoresFallback == sup.namespace # "unset"

\* QueryEmbedCache::key: no key before the first child is known, none after the
\* fallback to the CPU.
HasKey == sup.namespace # "unset" /\ ~sup.force_cpu

\* The search's own request to the executor.
Produce(c, me) ==
    /\ caller' = [caller EXCEPT ![c] = Ask(sup, me)]
    /\ sup' = Asked(sup)

Search(c) ==
    LET me == [NewCaller EXCEPT !.late = sup.force_cpu] IN
    /\ c \in Searches /\ At(c, "idle") /\ Take("searches")
    /\ CASE ~HasKey -> Produce(c, me) /\ UNCHANGED producer
         [] HasKey /\ cached # "none" ->
              /\ caller' = [caller EXCEPT ![c] = [me EXCEPT !.answer = cached, !.pc = "done"]]
              /\ UNCHANGED <<sup, producer>>
         [] HasKey /\ cached = "none" /\ producer = "none" ->
              Produce(c, me) /\ producer' = c
         [] OTHER -> /\ caller' = [caller EXCEPT ![c] = [me EXCEPT !.pc = "wait"]]
                     /\ UNCHANGED <<sup, producer>>
    /\ UNCHANGED cached /\ SearchFrame

\* A waiter takes the value, or the place of the producer.
Waited(c) ==
    /\ At(c, "wait") /\ producer = "none"
    /\ IF cached # "none"
       THEN /\ caller' = [caller EXCEPT ![c].answer = cached, ![c].pc = "done"]
            /\ UNCHANGED <<sup, producer>>
       ELSE Produce(c, caller[c]) /\ producer' = c
    /\ UNCHANGED <<cached, left>> /\ SearchFrame

\* The embedding is there, or the error: only a success is inserted.
Answered(c) ==
    /\ At(c, "done")
    /\ caller' = [caller EXCEPT ![c].pc = "idle"]
    /\ IF producer = c
       THEN /\ producer' = "none"
            /\ cached' = IF caller[c].answer = "error" THEN cached ELSE caller[c].answer
       ELSE UNCHANGED <<cached, producer>>
    /\ UNCHANGED <<sup, left>> /\ SearchFrame

\* The client of a search goes away: the request is dropped, and the insertion
\* guard with it.
CancelSearch(c) ==
    /\ Cancel(c)
    /\ producer' = IF producer = c THEN "none" ELSE producer
    /\ UNCHANGED cached

\* A restart of the server loses the cache.
Restart == Crash /\ cached' = "none" /\ producer' = "none"

-----------------------------------------------------------------------------

Init == InitExecutor /\ cached = "none" /\ producer = "none"

Next == \/ ExecutorNext /\ UNCHANGED <<cached, producer>>
        \/ \E c \in Searches : Search(c) \/ Waited(c) \/ Answered(c) \/ CancelSearch(c)
        \/ Restart

\* Every task is polled; the child answers what it was asked unless it dies;
\* the watchdog sees a dead one.
Fairness ==
    /\ \A c \in Callers : WF_vars(RequestStep(c) /\ UNCHANGED <<cached, producer>>)
    /\ \A c \in Searches : WF_vars(Waited(c)) /\ WF_vars(Answered(c))
    /\ WF_vars((Accept \/ Complete) /\ UNCHANGED <<cached, producer>>)
    /\ WF_vars((Prepare \/ Persist) /\ UNCHANGED <<cached, producer>>)

Spec == Init /\ [][Next]_vars /\ Fairness

-----------------------------------------------------------------------------
(* Properties *)

TypeOK ==
    /\ ExecutorTypeOK
    /\ cached \in Device \cup {"none"}
    /\ producer \in Searches \cup {"none"}

\* A search that begins after a Metal fault has sent the service to the CPU is
\* answered from the CPU: neither a child that is still there, nor one that was
\* being started, nor the cache serves it a vector of the other device.
FallbackIsComplete ==
    \A c \in Searches : caller[c].late /\ caller[c].answer # "error"
                          => caller[c].answer \in {"none", "cpu"}

\* Every search, and every request of the coordinator, comes to an end: with an
\* embedding or an error, whatever became of the child, of the request it
\* waited behind and of the search whose embedding it waited for.
RequestsEnd == \A c \in Callers : ~At(c, "idle") ~> At(c, "idle")
=============================================================================
