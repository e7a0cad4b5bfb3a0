--------------------------- MODULE OperationLedger ---------------------------
(***************************************************************************)
(* The durable operation ledger of src/src/operations.rs: clients submit   *)
(* operations, one coordinator task drives every operation through its     *)
(* receipt states, an operator may retry or reject, and every change of a  *)
(* receipt is one database transaction that updates the receipt row and    *)
(* creates one row of the event log.                                       *)
(*                                                                         *)
(* One action is what one task does between two awaits.  The durable state *)
(* is what the database holds; everything else is lost by a crash.  A      *)
(* ledger call that reaches its deadline is abandoned by its caller; with  *)
(* InDoubt the transaction it carried may still commit at any later time.  *)
(***************************************************************************)
EXTENDS Naturals, Sequences, FiniteSets

CONSTANTS
    Ops,          \* operation ids
    NoOp,         \* no operation: in_flight = None
    Deps,         \* Deps[op]: the operations op names in `dependencies`
    AddMemory,    \* operations of kind add_memory; the others are task operations
    Invalid,      \* hashes of the payloads that validate_payload refuses
    EmptyPlan,    \* hashes of the payloads for which the planner returns no part
    Refused,      \* hashes of the task payloads whose stream or step does not
                  \* exist: applying them fails with a plain error each time
    Parts,        \* part indexes of an embedding plan
    Models,       \* embedding models the server may start with, each known by
                  \* the width of its vectors, which is all that the code compares
    Hashes,       \* payload hashes
    Clients,      \* one POST /operations each, or none
    Request,      \* Request[c]: the [op, hash] client c submits
    WakeCap,      \* capacity of the wake channel (256 in the code)
    InDoubt,      \* may an abandoned transaction commit later?
    Workloads     \* which clients come, and the bounds on failed awaits, on
                  \* operator requests and on restarts of the server

NoModel == "no embedding"
NoHash  == "no hash"

ASSUME LedgerAssumption ==
    /\ NoOp \notin Ops
    /\ Deps \in [Ops -> SUBSET Ops]
    /\ AddMemory \subseteq Ops
    /\ Invalid \subseteq Hashes /\ EmptyPlan \subseteq Hashes /\ Refused \subseteq Hashes
    /\ NoModel \notin Models
    /\ NoHash \notin Hashes
    /\ Request \in [Clients -> [op : Ops, hash : Hashes]]
    /\ WakeCap \in Nat \ {0}
    /\ InDoubt \in BOOLEAN
    /\ Workloads \subseteq
          [clients : SUBSET Clients, faults : Nat, requests : Nat, crashes : Nat]

VARIABLES
    rec,        \* memory_operation: the receipt row of every operation
    events,     \* memory_operation_event: its event rows, keyed by sequence
    planned,    \* operations whose memory_operation_part rows exist
    embedding,  \* embedding[op][p]: the model whose vector part p holds
    stored,     \* operations whose memory or task effect is in the store
    late,       \* abandoned transactions that may still commit
    wake,       \* the wake channel
    in_flight,  \* the operation the coordinator is processing
    mutex,      \* who holds the in_flight mutex across awaits
    coord,      \* the coordinator task
    operator,   \* the operator request that is being served
    client,     \* the submitting requests
    model,      \* the embedding model of this server process
    faults, requests, crashes    \* how many of each are left

durable  == <<rec, events, planned, embedding, stored>>
volatile == <<wake, in_flight, mutex, coord, operator, client>>
vars     == <<rec, events, planned, embedding, stored, late, wake, in_flight,
              mutex, coord, operator, client, model, faults, requests, crashes>>

-----------------------------------------------------------------------------
(* Receipt states *)

Terminal == {"committed", "rejected"}
Started  == {"validated", "planned", "processing", "indexed"}
Waiting  == {"accepted", "blocked"}
State    == Waiting \cup Started \cup Terminal

\* Why process() failed; the same word stands for the message on the receipt.
Failure == {"terminal", "permanent", "recovered", "ledger", "executor",
            "store", "mismatch"}
Error   == Failure \cup {"none", "payload", "operator"}

Row == [hash : Hashes \cup {NoHash}, state : State \cup {"absent"},
        blocked_by : SUBSET Ops, error : Error, seq : Nat]

Event == [seq : Nat, from : State \cup {"absent"}, to : State]

\* A transaction: the row it writes under the next sequence number.  The one
\* that creates an operation has sequence 1 and comes from "absent".
Txn == [op : Ops, hash : Hashes \cup {NoHash}, seq : Nat,
        from : State \cup {"absent"}, to : State,
        blocked_by : SUBSET Ops, error : Error]

NoTxn == [op |-> NoOp]

Exists(op)        == rec[op].state # "absent"
IsTerminal(op)    == rec[op].state \in Terminal
IsOpen(op)        == Exists(op) /\ ~IsTerminal(op)
IsCommitted(op)   == rec[op].state = "committed"
\* Mutant: a rejected dependency no longer blocks.
BlockersNotTerminal(op) == {d \in Deps[op] : ~IsTerminal(d)}
Blockers(op)      == {d \in Deps[op] : ~IsCommitted(d)}
DepsCommitted(op) == \A d \in Deps[op] : IsCommitted(d)
FullyIndexed(op)  == \A p \in Parts : embedding[op][p] # NoModel
OneWidth(op)      == \A p, q \in Parts : embedding[op][p] = embedding[op][q]

-----------------------------------------------------------------------------
(* The database *)

\* Mutant: the event is upserted, so no key conflict stops the UPDATE.
KeyIgnored(t) == TRUE

\* The event row's record id is <operation>-<sequence>: CREATE fails when it
\* exists, and with it the whole transaction, UPDATE included.
KeyFree(t) == \A e \in events[t.op] : e.seq # t.seq

\* Mutant: the UPDATE forgets progress_seq.
WriteWithoutSequence(t) ==
    /\ rec' = [rec EXCEPT ![t.op] =
                 [hash |-> IF t.seq = 1 THEN t.hash ELSE rec[t.op].hash,
                  state |-> t.to, blocked_by |-> t.blocked_by,
                  error |-> t.error, seq |-> rec[t.op].seq]]
    /\ events' = [events EXCEPT ![t.op] =
                    @ \cup {[seq |-> t.seq, from |-> t.from, to |-> t.to]}]

\* What COMMIT TRANSACTION does.
Write(t) ==
    /\ rec' = [rec EXCEPT ![t.op] =
                 [hash |-> IF t.seq = 1 THEN t.hash ELSE rec[t.op].hash,
                  state |-> t.to, blocked_by |-> t.blocked_by,
                  error |-> t.error, seq |-> t.seq]]
    /\ events' = [events EXCEPT ![t.op] =
                    @ \cup {[seq |-> t.seq, from |-> t.from, to |-> t.to]}]

\* The transaction fails on the existing key and leaves no trace.
Conflict(t) == ~KeyFree(t) /\ UNCHANGED <<rec, events>>

Spend == faults > 0 /\ faults' = faults - 1

\* The caller gets an error and cannot know what became of t.
Abandon(t) ==
    /\ Spend
    /\ IF InDoubt
       THEN late' = late \cup {t} /\ UNCHANGED <<rec, events>>
       ELSE /\ UNCHANGED late
            /\ \/ KeyFree(t) /\ Write(t)
               \/ UNCHANGED <<rec, events>>

\* The database executes a transaction nobody waits for any more.
LateCommit(t) ==
    /\ t \in late
    /\ KeyFree(t)
    /\ Write(t)
    /\ late' = late \ {t}
    /\ UNCHANGED <<planned, embedding, stored, wake, in_flight, mutex, coord,
                   operator, client, model, faults, requests, crashes>>

\* The first half of transition(): read the row, build the next event.
NextTxn(op, to, blocked_by, error) ==
    [op |-> op, hash |-> rec[op].hash, seq |-> rec[op].seq + 1,
     from |-> rec[op].state, to |-> to, blocked_by |-> blocked_by, error |-> error]

-----------------------------------------------------------------------------
(* The coordinator task: run(), drain_pending(), process() *)

\* What transition() was called with, where process() goes on when it commits,
\* and which of its three callers it returns an error to.
Goal == [to : State, blocked_by : SUBSET Ops, error : Error,
         then : {"parts", "advance", "seal", "done", "drain"},
         caller : {"process", "dead_letter", "pause"}]
NoGoal == [to |-> "none"]

Coordinator ==
    [pc : {"startup", "idle", "drain", "load", "deps", "parts", "advance", "embed",
           "store", "finish", "seal", "read", "commit", "done", "failed", "pause"},
     op : Ops \cup {NoOp},             \* the operation popped from `pending`
     state : State \cup {"absent"},    \* process()'s local copy of its state
     seen : SUBSET Ops,                \* and of its blocked_by
     pending : SUBSET Ops, retried : SUBSET Ops, rescan : BOOLEAN,
     goal : Goal \cup {NoGoal}, txn : Txn \cup {NoTxn},
     fail : Failure \cup {"none"}]

InitCoord == [pc |-> "startup", op |-> NoOp, state |-> "absent", seen |-> {},
              pending |-> {}, retried |-> {}, rescan |-> FALSE,
              goal |-> NoGoal, txn |-> NoTxn, fail |-> "none"]

\* Back to the head of the drain loop with the locals of process() gone.
Drained == [coord EXCEPT !.pc = "drain", !.op = NoOp, !.state = "absent", !.seen = {},
                         !.goal = NoGoal, !.txn = NoTxn, !.fail = "none"]

At(pc)   == coord.pc = pc
Goto(pc) == coord' = [coord EXCEPT !.pc = pc]
Fail(f)  == coord' = [coord EXCEPT !.pc = "failed", !.fail = f, !.goal = NoGoal,
                                   !.txn = NoTxn]

Transition(to, blocked_by, error, then, caller) ==
    coord' = [coord EXCEPT !.pc = "read",
                !.goal = [to |-> to, blocked_by |-> blocked_by, error |-> error,
                          then |-> then, caller |-> caller]]
Move(to, then) == Transition(to, {}, "none", then, "process")

\* An error of transition() as its caller takes it.
TransitionFailed(f) ==
    CASE coord.goal.caller = "process"     -> Fail(f)
      [] coord.goal.caller = "dead_letter" ->
            coord' = [coord EXCEPT !.pc = "pause", !.goal = NoGoal, !.txn = NoTxn]
      [] coord.goal.caller = "pause"       -> coord' = Drained

\* What every step of the coordinator leaves alone.
CoordFrame == UNCHANGED <<operator, client, model, requests, crashes>>

\* Mutant: discovery queries only the states a new operation waits or works in.
DiscoverFourStates ==
    /\ coord.pc \in {"startup", "idle"}
    /\ coord' = [coord EXCEPT !.pc = "drain", !.pending =
                   {op \in Ops : rec[op].state \in Waiting \cup {"validated", "processing"}}]
    /\ UNCHANGED <<durable, late, wake, in_flight, mutex, faults>> /\ CoordFrame

\* list_nonterminal_ids, at startup and on every tick of the sweep.
Discover ==
    /\ coord.pc \in {"startup", "idle"}
    /\ coord' = [coord EXCEPT !.pc = "drain", !.pending = {op \in Ops : IsOpen(op)}]
    /\ UNCHANGED <<durable, late, wake, in_flight, mutex, faults>> /\ CoordFrame

DiscoverFails ==
    /\ At("startup") /\ Spend
    /\ Goto("idle")
    /\ UNCHANGED <<durable, late, wake, in_flight, mutex>> /\ CoordFrame

TakeWake ==
    /\ At("idle") /\ wake # <<>>
    /\ wake' = Tail(wake)
    /\ coord' = [coord EXCEPT !.pc = "drain", !.pending = {Head(wake)}]
    /\ UNCHANGED <<durable, late, in_flight, mutex, faults>> /\ CoordFrame

\* The order of the queue is by operation id; the ids can be in any order.
StartNext ==
    /\ At("drain") /\ mutex = "free"
    /\ \E op \in coord.pending :
         /\ coord' = [coord EXCEPT !.pc = "load", !.op = op, !.pending = @ \ {op}]
         /\ in_flight' = op
    /\ UNCHANGED <<durable, late, wake, mutex, faults>> /\ CoordFrame

\* The pending queue is empty: one rescan if the wave committed anything.
WaveEnds ==
    /\ At("drain") /\ coord.pending = {}
    /\ \/ /\ coord.rescan
          /\ coord' = [coord EXCEPT !.rescan = FALSE,
                                    !.pending = {op \in Ops : IsOpen(op)}]
          /\ UNCHANGED faults
       \/ /\ ~coord.rescan
          /\ coord' = [coord EXCEPT !.pc = "idle", !.retried = {}]
          /\ UNCHANGED faults
       \/ /\ coord.rescan /\ Spend
          /\ coord' = [coord EXCEPT !.pc = "idle", !.retried = {}, !.rescan = FALSE]
    /\ UNCHANGED <<durable, late, wake, in_flight, mutex>> /\ CoordFrame

ProcessFrame == UNCHANGED <<late, wake, in_flight, mutex>> /\ CoordFrame

Load ==
    /\ At("load")
    /\ IF IsOpen(coord.op)
       THEN coord' = [coord EXCEPT !.pc = "deps", !.state = rec[coord.op].state,
                                   !.seen = rec[coord.op].blocked_by]
       ELSE Goto("done")
    /\ UNCHANGED <<durable, faults>> /\ ProcessFrame

Body(op) == IF op \in AddMemory THEN "parts" ELSE "advance"

\* Mutant: every pass validates again, whatever state the operation is in.
CheckDependenciesRevalidates ==
    LET op == coord.op
        blockers == Blockers(op)
    IN
    /\ At("deps")
    /\ IF blockers # {} THEN Transition("blocked", blockers, "none", "done", "process")
                        ELSE Move("validated", Body(op))
    /\ UNCHANGED <<durable, faults>> /\ ProcessFrame

CheckDependencies ==
    LET op == coord.op
        blockers == Blockers(op)
    IN
    /\ At("deps")
    /\ \/ /\ blockers # {} /\ (coord.state # "blocked" \/ coord.seen # blockers)
          /\ Transition("blocked", blockers, "none", "done", "process")
       \/ /\ blockers # {} /\ coord.state = "blocked" /\ coord.seen = blockers
          /\ Goto("done")
       \/ /\ blockers = {} /\ coord.state \in Waiting
          /\ IF rec[op].hash \in Invalid
             THEN Transition("rejected", {}, "payload", "done", "process")
             ELSE Move("validated", Body(op))
       \/ /\ blockers = {} /\ coord.state \in Started
          /\ Goto(Body(op))
    /\ UNCHANGED <<durable, faults>> /\ ProcessFrame

PlanIsEmpty(op) == rec[op].hash \in EmptyPlan

\* operation_parts; without rows plan_for_operation and persist_plan.
Plan ==
    LET op == coord.op IN
    /\ At("parts")
    /\ \/ op \in planned /\ Goto("advance") /\ UNCHANGED planned
       \/ op \notin planned /\ PlanIsEmpty(op) /\ Fail("permanent") /\ UNCHANGED planned
       \/ op \notin planned /\ ~PlanIsEmpty(op) /\ Goto("advance")
            /\ planned' = planned \cup {op}
    /\ UNCHANGED <<rec, events, embedding, stored, faults>> /\ ProcessFrame

\* Mutant: a task operation is finished without its effect.
AdvanceSkipsEffect ==
    /\ At("advance")
    /\ CASE coord.state = "validated"  -> Move("planned", "advance")
         [] coord.state = "planned"    -> Move("processing", "advance")
         [] coord.state = "processing" ->
               Goto(IF coord.op \in AddMemory THEN "embed" ELSE "finish")
         [] coord.state = "indexed"    -> Goto("store")
    /\ UNCHANGED <<durable, faults>> /\ ProcessFrame

Advance ==
    /\ At("advance")
    /\ CASE coord.state = "validated"  -> Move("planned", "advance")
         [] coord.state = "planned"    -> Move("processing", "advance")
         [] coord.state = "processing" ->
               Goto(IF coord.op \in AddMemory THEN "embed" ELSE "store")
         [] coord.state = "indexed"    -> Goto("store")
    /\ UNCHANGED <<durable, faults>> /\ ProcessFrame

\* embed_for_operation and mark_part_indexed, for one part or none left.
Embed ==
    LET op == coord.op IN
    /\ At("embed")
    /\ \/ /\ \E p \in Parts : /\ embedding[op][p] = NoModel
                              /\ embedding' = [embedding EXCEPT ![op][p] = model]
          /\ UNCHANGED coord
       \/ FullyIndexed(op) /\ Goto("store") /\ UNCHANGED embedding
    /\ UNCHANGED <<rec, events, planned, stored, faults>> /\ ProcessFrame

\* Mutant: the dimensions of the stored embeddings are not compared.
StoreUnchecked ==
    /\ At("store")
    /\ Goto("finish") /\ stored' = stored \cup {coord.op}
    /\ UNCHANGED <<rec, events, planned, embedding, faults>> /\ ProcessFrame

\* Aggregating the parts refuses vectors of different widths, add_task_step a
\* stream that does not exist, complete_step a step that does not.
Storable(op) == IF op \in AddMemory THEN FullyIndexed(op) /\ OneWidth(op)
                                    ELSE rec[op].hash \notin Refused

\* Re-read the parts, aggregate, store_indexed_memory; or the task's effect.
\* Both return what is already there when the operation is replayed, and both
\* fail with an error that is not a PermanentFailure.
Store ==
    LET op == coord.op IN
    /\ At("store")
    /\ IF Storable(op)
       THEN Goto("finish") /\ stored' = stored \cup {op}
       ELSE /\ Fail(IF op \in AddMemory THEN "mismatch" ELSE "store")
            /\ UNCHANGED stored
    /\ UNCHANGED <<rec, events, planned, embedding, faults>> /\ ProcessFrame

Finish ==
    /\ At("finish")
    /\ CASE IsCommitted(coord.op)                -> Goto("done")
         [] rec[coord.op].state = "indexed"      -> Move("committed", "done")
         [] OTHER                                -> Move("indexed", "seal")
    /\ UNCHANGED <<durable, faults>> /\ ProcessFrame

Seal ==
    /\ At("seal") /\ Move("committed", "done")
    /\ UNCHANGED <<durable, faults>> /\ ProcessFrame

\* transition(): get_db, refuse a missing or terminal row ...
TransitionRead ==
    LET op == coord.op
        g  == coord.goal
    IN
    /\ At("read")
    /\ IF IsOpen(op)
       THEN coord' = [coord EXCEPT !.pc = "commit",
                        !.txn = NextTxn(op, g.to, g.blocked_by, g.error)]
       ELSE TransitionFailed(IF IsTerminal(op) THEN "terminal" ELSE "ledger")
    /\ UNCHANGED <<durable, faults>> /\ ProcessFrame

\* ... and the transaction that was built from what was read.
TransitionCommit ==
    /\ At("commit")
    /\ \/ /\ KeyFree(coord.txn) /\ Write(coord.txn)
          /\ IF coord.goal.then = "drain"
             THEN coord' = Drained
             ELSE coord' = [coord EXCEPT !.pc = coord.goal.then, !.state = coord.goal.to,
                                         !.goal = NoGoal, !.txn = NoTxn]
       \/ Conflict(coord.txn) /\ TransitionFailed("ledger")
    /\ UNCHANGED <<planned, embedding, stored, faults>> /\ ProcessFrame

\* ... or the deadline passes, or the receipt cannot be read back: the caller
\* takes an error although the transaction may be in the database.
TransitionLost ==
    /\ At("commit") /\ Abandon(coord.txn)
    /\ \E f \in {"recovered", "ledger"} : TransitionFailed(f)
    /\ UNCHANGED <<planned, embedding, stored, wake, in_flight, mutex>> /\ CoordFrame

\* Any other await of process() fails.  A write it carried may have happened.
AwaitFails ==
    LET op == coord.op IN
    /\ Spend
    /\ \/ /\ coord.pc \in {"load", "deps", "parts", "embed", "store", "finish"}
          /\ \E f \in {"recovered", "ledger"} : Fail(f)
          /\ UNCHANGED <<planned, embedding, stored>>
       \/ /\ At("read")
          /\ \E f \in {"recovered", "ledger"} : TransitionFailed(f)
          /\ UNCHANGED <<planned, embedding, stored>>
       \/ /\ coord.pc \in {"parts", "embed"} /\ Fail("executor")
          /\ UNCHANGED <<planned, embedding, stored>>
       \/ /\ At("parts") /\ op \notin planned /\ ~PlanIsEmpty(op) /\ Fail("ledger")
          /\ planned' = planned \cup {op}
          /\ UNCHANGED <<embedding, stored>>
       \/ /\ At("embed") /\ Fail("ledger")
          /\ \E p \in Parts : /\ embedding[op][p] = NoModel
                              /\ embedding' = [embedding EXCEPT ![op][p] = model]
          /\ UNCHANGED <<planned, stored>>
       \/ /\ At("store") /\ Storable(op) /\ Fail("store")
          /\ stored' \in {stored, stored \cup {op}}
          /\ UNCHANGED <<planned, embedding>>
    /\ UNCHANGED <<rec, events>> /\ ProcessFrame

\* process() returned Ok: clear in_flight, see whether it committed.
Done ==
    /\ At("done") /\ mutex = "free"
    /\ in_flight' = NoOp
    /\ \/ /\ coord' = [Drained EXCEPT !.rescan = @ \/ IsCommitted(coord.op)]
          /\ UNCHANGED faults
       \/ Spend /\ coord' = Drained
    /\ UNCHANGED <<durable, late, wake, mutex>> /\ CoordFrame

\* process() returned an error: clear in_flight, then tell the four cases apart.
Failed ==
    LET op == coord.op IN
    /\ At("failed") /\ mutex = "free"
    /\ in_flight' = NoOp
    /\ CASE coord.fail = "terminal"  -> coord' = Drained
         [] coord.fail = "permanent" ->
              Transition("rejected", {}, "permanent", "drain", "dead_letter")
         [] coord.fail = "recovered" /\ op \notin coord.retried ->
              coord' = [Drained EXCEPT !.retried = @ \cup {op}, !.pending = @ \cup {op}]
         [] OTHER -> Goto("pause")
    /\ UNCHANGED <<durable, late, wake, mutex, faults>> /\ CoordFrame

\* record_processing_error: its own get, then a transition to the state it read.
Pause ==
    LET row == rec[coord.op] IN
    /\ At("pause")
    /\ \/ /\ IsOpen(coord.op) /\ row.error # coord.fail
          /\ Transition(row.state, row.blocked_by, coord.fail, "drain", "pause")
          /\ UNCHANGED faults
       \/ /\ ~(IsOpen(coord.op) /\ row.error # coord.fail)
          /\ coord' = Drained
          /\ UNCHANGED faults
       \/ Spend /\ coord' = Drained
    /\ UNCHANGED durable /\ ProcessFrame

CoordinatorStep ==
    \/ Discover \/ DiscoverFails \/ TakeWake \/ StartNext \/ WaveEnds
    \/ Load \/ CheckDependencies \/ Plan \/ Advance \/ Embed \/ Store \/ Finish \/ Seal
    \/ TransitionRead \/ TransitionCommit \/ TransitionLost \/ AwaitFails
    \/ Done \/ Failed \/ Pause

-----------------------------------------------------------------------------
(* The operator: retry() and reject() *)

OperatorRequest == [pc : {"idle", "check", "read", "commit"}, op : Ops \cup {NoOp},
                    txn : Txn \cup {NoTxn}]
NoRequest == [pc |-> "idle", op |-> NoOp, txn |-> NoTxn]

\* retry: try_send, so a full wake channel drops the request.
OperatorRetry(op) ==
    /\ requests > 0 /\ requests' = requests - 1
    /\ IsOpen(op) /\ Len(wake) < WakeCap
    /\ wake' = Append(wake, op)
    /\ UNCHANGED <<durable, late, in_flight, mutex, coord, operator, client, model,
                   faults, crashes>>

OperatorFrame == UNCHANGED <<planned, embedding, stored, wake, in_flight, coord,
                             client, model, crashes>>

\* reject: the in_flight mutex is held until the request ends.
RejectLock(op) ==
    /\ requests > 0 /\ requests' = requests - 1
    /\ operator.pc = "idle" /\ mutex = "free" /\ in_flight # op
    /\ mutex' = "operator"
    /\ operator' = [operator EXCEPT !.pc = "check", !.op = op]
    /\ UNCHANGED <<rec, events, late, faults>> /\ OperatorFrame

RejectEnds == operator' = NoRequest /\ mutex' = "free"

\* Mutant: get_memory is not asked.
RejectCheckState ==
    LET op == operator.op IN
    /\ operator.pc = "check"
    /\ IF IsOpen(op) /\ rec[op].state # "indexed"
       THEN operator' = [operator EXCEPT !.pc = "read"] /\ UNCHANGED mutex
       ELSE RejectEnds
    /\ UNCHANGED <<rec, events, late, faults, requests>> /\ OperatorFrame

\* Its get and get_memory: refuse what is terminal, indexed or already stored.
RejectCheck ==
    LET op == operator.op IN
    /\ operator.pc = "check"
    /\ \/ /\ IsOpen(op) /\ rec[op].state # "indexed" /\ op \notin AddMemory \cap stored
          /\ operator' = [operator EXCEPT !.pc = "read"]
          /\ UNCHANGED <<mutex, faults>>
       \/ /\ ~(IsOpen(op) /\ rec[op].state # "indexed" /\ op \notin AddMemory \cap stored)
          /\ RejectEnds /\ UNCHANGED faults
       \/ Spend /\ RejectEnds
    /\ UNCHANGED <<rec, events, late, requests>> /\ OperatorFrame

RejectRead ==
    LET op == operator.op IN
    /\ operator.pc = "read"
    /\ \/ /\ IsOpen(op)
          /\ operator' = [operator EXCEPT !.pc = "commit",
                            !.txn = NextTxn(op, "rejected", {}, "operator")]
          /\ UNCHANGED <<mutex, faults>>
       \/ ~IsOpen(op) /\ RejectEnds /\ UNCHANGED faults
       \/ Spend /\ RejectEnds
    /\ UNCHANGED <<rec, events, late, requests>> /\ OperatorFrame

RejectCommit ==
    /\ operator.pc = "commit"
    /\ RejectEnds
    /\ \/ KeyFree(operator.txn) /\ Write(operator.txn) /\ UNCHANGED <<late, faults>>
       \/ Conflict(operator.txn) /\ UNCHANGED <<late, faults>>
       \/ Abandon(operator.txn)
    /\ UNCHANGED requests /\ OperatorFrame

OperatorStep == RejectCheck \/ RejectRead \/ RejectCommit

-----------------------------------------------------------------------------
(* Clients: submit() *)

\* What the caller is told: 202, 200, 409 or 503; "lost" when the server dies.
Outcome == {"accepted", "replayed", "conflict", "unavailable", "lost"}
Submission == [pc : {"get", "create", "read", "reread", "wake", "rewake"} \cup Outcome,
               txn : Txn \cup {NoTxn}]

Op(c)   == Request[c].op
Hash(c) == Request[c].hash

\* Mutant: the row is created in the state no row yet has.
CreateTxnAbsent(c) ==
    [op |-> Op(c), hash |-> Hash(c), seq |-> 1, from |-> "absent", to |-> "absent",
     blocked_by |-> {}, error |-> "none"]

CreateTxn(c) ==
    [op |-> Op(c), hash |-> Hash(c), seq |-> 1, from |-> "absent", to |-> "accepted",
     blocked_by |-> {}, error |-> "none"]

Answer(c, pc) == client' = [client EXCEPT ![c] = [pc |-> pc, txn |-> NoTxn]]

ClientFrame == UNCHANGED <<planned, embedding, stored, in_flight, mutex, coord,
                           operator, model, requests, crashes>>

SubmitGet(c) ==
    /\ client[c].pc = "get"
    /\ \/ /\ ~Exists(Op(c))
          /\ client' = [client EXCEPT ![c] = [pc |-> "create", txn |-> CreateTxn(c)]]
          /\ UNCHANGED faults
       \/ /\ Exists(Op(c)) /\ rec[Op(c)].hash # Hash(c)
          /\ Answer(c, "conflict") /\ UNCHANGED faults
       \/ /\ Exists(Op(c)) /\ rec[Op(c)].hash = Hash(c)
          /\ Answer(c, IF IsTerminal(Op(c)) THEN "replayed" ELSE "rewake")
          /\ UNCHANGED faults
       \/ Spend /\ Answer(c, "unavailable")
    /\ UNCHANGED <<rec, events, late, wake>> /\ ClientFrame

SubmitCreate(c) ==
    LET t == client[c].txn IN
    /\ client[c].pc = "create"
    /\ \/ KeyFree(t) /\ Write(t) /\ Answer(c, "read") /\ UNCHANGED <<late, faults>>
       \/ Conflict(t) /\ Answer(c, "reread") /\ UNCHANGED <<late, faults>>
       \/ Abandon(t) /\ Answer(c, "reread")
    /\ UNCHANGED wake /\ ClientFrame

\* Mutant: whatever row won the race counts as the caller's own.
SubmitRereadAnyPayload(c) ==
    /\ client[c].pc = "reread"
    /\ \/ /\ Answer(c, IF ~Exists(Op(c)) THEN "unavailable" ELSE "replayed")
          /\ UNCHANGED faults
       \/ Spend /\ Answer(c, "unavailable")
    /\ UNCHANGED <<rec, events, late, wake>> /\ ClientFrame

\* After a failed create: the row decides.  No wake is sent on this path.
SubmitReread(c) ==
    /\ client[c].pc = "reread"
    /\ \/ /\ Answer(c, IF ~Exists(Op(c)) THEN "unavailable"
                       ELSE IF rec[Op(c)].hash = Hash(c) THEN "replayed" ELSE "conflict")
          /\ UNCHANGED faults
       \/ Spend /\ Answer(c, "unavailable")
    /\ UNCHANGED <<rec, events, late, wake>> /\ ClientFrame

\* After a successful create: the row is read back for the receipt.
SubmitRead(c) ==
    /\ client[c].pc = "read"
    /\ \/ Answer(c, "wake") /\ UNCHANGED faults
       \/ Spend /\ Answer(c, "unavailable")
    /\ UNCHANGED <<rec, events, late, wake>> /\ ClientFrame

\* wake_tx.send waits for room in the channel.
SubmitWake(c) ==
    /\ client[c].pc \in {"wake", "rewake"} /\ Len(wake) < WakeCap
    /\ wake' = Append(wake, Op(c))
    /\ Answer(c, IF client[c].pc = "wake" THEN "accepted" ELSE "replayed")
    /\ UNCHANGED <<rec, events, late, faults>> /\ ClientFrame

ClientStep(c) ==
    SubmitGet(c) \/ SubmitCreate(c) \/ SubmitReread(c) \/ SubmitRead(c) \/ SubmitWake(c)

-----------------------------------------------------------------------------
(* Restart *)

\* Transactions somebody has sent and not seen the answer of.
Sent == ({coord.txn, operator.txn} \cup {client[c].txn : c \in Clients}) \ {NoTxn}
Outstanding == late \cup Sent

\* The process dies and a new one starts, perhaps with another model.
Crash ==
    /\ crashes > 0 /\ crashes' = crashes - 1
    /\ late' = IF InDoubt THEN Outstanding ELSE late
    /\ wake' = <<>> /\ in_flight' = NoOp /\ mutex' = "free"
    /\ coord' = InitCoord /\ operator' = NoRequest
    /\ client' = [c \in Clients |-> IF client[c].pc \in Outcome \cup {"get"} THEN client[c]
                                    ELSE [pc |-> "lost", txn |-> NoTxn]]
    /\ model' \in Models
    /\ UNCHANGED <<durable, faults, requests>>

-----------------------------------------------------------------------------

Init ==
    /\ rec = [op \in Ops |-> [hash |-> NoHash, state |-> "absent", blocked_by |-> {},
                              error |-> "none", seq |-> 0]]
    /\ events = [op \in Ops |-> {}]
    /\ planned = {} /\ stored = {} /\ late = {}
    /\ embedding = [op \in Ops |-> [p \in Parts |-> NoModel]]
    /\ wake = <<>> /\ in_flight = NoOp /\ mutex = "free"
    /\ coord = InitCoord /\ operator = NoRequest
    /\ model \in Models
    /\ \E w \in Workloads :
         /\ client = [c \in Clients |-> [pc |-> IF c \in w.clients THEN "get" ELSE "lost",
                                         txn |-> NoTxn]]
         /\ faults = w.faults /\ requests = w.requests /\ crashes = w.crashes

Next ==
    \/ CoordinatorStep
    \/ \E op \in Ops : OperatorRetry(op) \/ RejectLock(op)
    \/ OperatorStep
    \/ \E c \in Clients : ClientStep(c)
    \/ \E t \in late : LateCommit(t)
    \/ Crash

\* The runtime runs every ready task.  The bounds make every contender for the
\* in_flight mutex and for the wake channel give way in the end, as the fair
\* tokio mutex and select! do.  Nobody owes a first request or a late commit.
Fairness ==
    /\ WF_vars(CoordinatorStep)
    /\ WF_vars(OperatorStep)
    /\ \A c \in Clients : WF_vars(ClientStep(c) /\ client[c].pc # "get")

Spec == Init /\ [][Next]_vars
FairSpec == Spec /\ Fairness

-----------------------------------------------------------------------------
(* Correctness *)

\* Every variable holds a value of its type.
TypeOK ==
    /\ rec \in [Ops -> Row]
    /\ events \in [Ops -> SUBSET Event]
    /\ planned \subseteq Ops /\ stored \subseteq Ops
    /\ embedding \in [Ops -> [Parts -> Models \cup {NoModel}]]
    /\ late \subseteq Txn
    /\ wake \in Seq(Ops)
    /\ in_flight \in Ops \cup {NoOp} /\ mutex \in {"free", "operator"}
    /\ coord \in Coordinator
    /\ operator \in OperatorRequest
    /\ client \in [Clients -> Submission]
    /\ model \in Models
    /\ faults \in Nat /\ requests \in Nat /\ crashes \in Nat

LogComplete(op) ==
    /\ {e.seq : e \in events[op]} = 1..rec[op].seq
    /\ \A e, f \in events[op] :
          /\ e.seq = f.seq => e = f
          /\ f.seq = e.seq + 1 => f.from = e.to
    /\ \A e \in events[op] : e.seq = rec[op].seq => e.to = rec[op].state

\* The event log tells the whole history of the receipt: its sequence numbers
\* are 1 .. progress_seq without a gap or a duplicate, every event starts where
\* the one before it ended, and the last one is the state of the row.  The log
\* is what GET /operations/{id}/events replays; UPDATE has no guard of its own.
EventLogComplete == \A op \in Ops : LogComplete(op)

\* Committed and rejected receipts are immutable (operations.rs:493), whatever
\* transactions of the coordinator, an operator or an earlier life of the server
\* are still on their way to the database.
TerminalImmutable ==
    [][\A op \in Ops : IsTerminal(op) => rec'[op] = rec[op]]_vars

\* No operation gets past `blocked` before all its dependencies have committed.
StartedAfterDependencies ==
    \A op \in Ops : rec[op].state \in Started \cup {"committed"} => DepsCommitted(op)

\* A receipt that says indexed or committed has its effect in the store, and a
\* memory was stored from a plan whose parts all hold vectors of one width.
CommittedIsStored ==
    \A op \in Ops : rec[op].state \in {"indexed", "committed"} =>
        /\ op \in stored
        /\ op \in AddMemory => op \in planned /\ FullyIndexed(op) /\ OneWidth(op)

\* What submit() answers is true: 202 is given to one caller of an id, 202 and
\* 200 only over a row with the caller's payload hash, 409 only over another one.
SubmitAnswersTruly ==
    /\ \A c \in Clients :
         /\ client[c].pc \in {"accepted", "replayed", "wake", "rewake"} =>
               Exists(Op(c)) /\ rec[Op(c)].hash = Hash(c)
         /\ client[c].pc = "conflict" => Exists(Op(c)) /\ rec[Op(c)].hash # Hash(c)
    /\ \A c, d \in Clients :
         client[c].pc = "accepted" /\ client[d].pc = "accepted" /\ Op(c) = Op(d) => c = d

\* A rejected add_memory left nothing behind: reject() refuses what is stored
\* because it "would report stored content as discarded" (operations.rs:1344).
RejectedIsNotStored ==
    \A op \in AddMemory : rec[op].state = "rejected" => op \notin stored

\* 503 means the operation was not accepted (durable-operations.md, Responses).
UnavailableIsNotAccepted ==
    \A c \in Clients : client[c].pc = "unavailable" => rec[Op(c)].hash # Hash(c)

\* "A receipt moves through these states, in this order" (durable-operations.md).
Rank(state) ==
    CASE state = "absent" -> 0 [] state \in Waiting -> 1 [] state = "validated" -> 2
      [] state = "planned" -> 3 [] state = "processing" -> 4 [] state = "indexed" -> 5
      [] state \in Terminal -> 6
StatesInOrder ==
    [][\A op \in Ops : Rank(rec'[op].state) >= Rank(rec[op].state)]_vars

\* Storing fails for good: vectors of two widths, or a task payload whose target
\* nobody creates.
Incurable(op) == IF op \in AddMemory THEN FullyIndexed(op) /\ ~OneWidth(op)
                                     ELSE rec[op].hash \in Refused

\* Nothing stalls: once its dependencies have committed, an accepted operation
\* ends, through restarts, failed awaits, lost wakes and operators, unless it
\* gets to where storing it cannot succeed any more.
DrivenToTheEnd ==
    \A op \in Ops :
        (Exists(op) /\ DepsCommitted(op)) ~> (IsTerminal(op) \/ Incurable(op))

\* "Failures that retrying cannot fix [...] reject the operation instead of
\* pausing it, so nothing retries forever" (durable-operations.md): an operation
\* that cannot be stored any more ends like every other.
NothingRetriesForever ==
    \A op \in Ops :
        (Exists(op) /\ DepsCommitted(op) /\ Incurable(op)) ~> IsTerminal(op)

\* The ledger implements the receipt specification.
Abstract(op) ==
    IF rec[op].state \in {"absent"} \cup Terminal THEN rec[op].state ELSE "open"
Receipts == INSTANCE Receipt WITH receipt <- [op \in Ops |-> Abstract(op)],
                                  applied <- stored
ImplementsReceipt == Receipts!Spec

=============================================================================
