------------------------------ MODULE Executor ------------------------------
(***************************************************************************)
(* The supervised embedding executor (src/src/executor.rs): one child      *)
(* process that embeds, spoken to over two pipes under one mutex, killed   *)
(* and replaced whenever its streams can no longer be trusted; the         *)
(* snapshot of its counters that the ledger keeps per operation            *)
(* (src/src/operations.rs); and the restarts of the server.                *)
(*                                                                         *)
(* Interactive callers are HTTP requests, whose futures may be dropped at  *)
(* any await; the coordinator embeds for one durable operation at a time.  *)
(***************************************************************************)
EXTENDS Naturals, Sequences, FiniteSets

CONSTANTS
    Searches,     \* interactive callers
    Coordinator,  \* the ledger's coordinator task
    Ops,          \* operations it embeds for
    NoOp,         \* no operation
    MaxParts,     \* bound on the requests for one processing of an operation
    Workloads     \* bounds: how many searches, processings, restarts of the server
                  \* and faults of child, database and clients one behaviour has

ASSUME ExecutorAssumption ==
    /\ Coordinator \notin Searches /\ NoOp \notin Ops
    /\ "free" \notin Searches \cup {Coordinator}
    /\ MaxParts \in Nat
    /\ Workloads \subseteq [searches : Nat, runs : Nat, crashes : Nat, faults : Nat]

VARIABLES
    child,     \* ChildState, or NoChild: the content of the state mutex
    owner,     \* the caller that holds the mutex, or "free"
    sup,       \* the counters and flags of the service
    caller,    \* the calls
    prepared,  \* operation_baselines, and the row the processing began with
    snapshot,  \* the executor columns of memory_operation
    late,      \* snapshot UPDATEs nobody waits for that may still commit
    past,      \* the exits of the child in earlier lives of the server
    begun,     \* begun[op]: the exits there had been when op was first prepared
    left       \* what is left of the workload

executorVars == <<child, owner, sup, caller, prepared, snapshot, late, past, begun, left>>

Callers == Searches \cup {Coordinator}
Device  == {"metal", "cpu"}
NoChild == [gen |-> 0]
HasChild == child # NoChild

Message == [id : Nat, kind : {"progress", "completed", "failed", "metal_fault"}]
Child == [gen : Nat, device : Device,
          work : Nat,             \* the request it is working on, 0 if it is idle
          accepted : BOOLEAN,     \* has it said so?
          pipe : Seq(Message),    \* what it has written and nobody has read
          alive : BOOLEAN]

Supervisor ==
    [next_id : Nat, next_gen : Nat, gen : Nat, exits : Nat,
     ready : BOOLEAN, force_cpu : BOOLEAN,
     namespace : Device \cup {"unset"},
     event : Nat]  \* generation of the last event of the operation being processed

NewSupervisor == [next_id |-> 1, next_gen |-> 1, gen |-> 0, exits |-> 0,
                  ready |-> FALSE, force_cpu |-> FALSE, namespace |-> "unset",
                  event |-> 0]

\* emit(): remember the generation, count an exit, publish the event.
Emit(s, op, gen, exited) ==
    [s EXCEPT !.gen = gen,
              !.exits = IF exited THEN @ + 1 ELSE @,
              !.event = IF op = NoOp THEN @ ELSE gen]

Take(what) == left[what] > 0 /\ left' = [left EXCEPT ![what] = @ - 1]
Spend == Take("faults")

-----------------------------------------------------------------------------
(* Callers *)

Failure == {"none", "fatal", "retriable", "replayable"}

Caller == [pc : {"idle", "wait", "prepare", "lock", "spawn", "read", "stop", "respawn",
                 "done", "snapshot"},
           op : Ops \cup {NoOp},
           id : Nat, got : Nat,   \* ids of its request, and of the reply it has taken
           gen : Nat,             \* the generation it is stopping or starting
           retry : BOOLEAN,       \* is this its second request_once?
           fail : Failure,        \* why it restarts the child
           late : BOOLEAN,        \* did its search begin after the fallback to the CPU?
           answer : {"none", "error"} \cup Device,
           calls : 0..MaxParts]

NewCaller == [pc |-> "idle", op |-> NoOp, id |-> 0, got |-> 0, gen |-> 0, retry |-> FALSE,
              fail |-> "none", late |-> FALSE, answer |-> "none", calls |-> 0]

At(c, pc) == caller[c].pc = pc
Op(c)     == caller[c].op
Rest      == UNCHANGED <<prepared, snapshot, late, past, begun>>

\* request_once up to its await of the mutex.
Ask(s, me) == [me EXCEPT !.pc = "lock", !.id = s.next_id, !.got = 0,
                         !.fail = "none", !.gen = 0]
Asked(s) == [s EXCEPT !.next_id = @ + 1]

\* Where a call goes when it has its answer.
After(c) == IF c = Coordinator THEN "snapshot" ELSE "done"

\* request(): request_once has returned; s is what the service is by then.
Return(c, s, fail, answer) ==
    LET me == [caller[c] EXCEPT !.fail = "none", !.gen = 0] IN
    /\ owner' = "free"
    /\ IF ~me.retry /\ (fail = "replayable" \/ (fail = "retriable" /\ me.op = NoOp))
       THEN /\ sup' = Asked(Emit(s, me.op, s.gen, FALSE))
            /\ caller' = [caller EXCEPT ![c] = [Ask(s, me) EXCEPT !.retry = TRUE]]
       ELSE /\ sup' = s
            /\ caller' = [caller EXCEPT ![c] =
                 [me EXCEPT !.pc = After(c), !.answer = IF fail = "none" THEN answer ELSE "error"]]

\* restart_child takes the child out of the state, stop_child clears `ready`.
StopChild(c, s, fail) ==
    /\ child' = NoChild
    /\ sup' = [s EXCEPT !.ready = FALSE]
    /\ caller' = [caller EXCEPT ![c].pc = "stop", ![c].gen = child.gen, ![c].fail = fail]
    /\ owner' = c

\* spawn_child up to its wait for readiness.
Spawn(c, s, pc) ==
    /\ sup' = [s EXCEPT !.next_gen = @ + 1]
    /\ caller' = [caller EXCEPT ![c].pc = pc, ![c].gen = s.next_gen]
    /\ owner' = c

\* The mutex, then exchange() up to its first read.
Acquire(c) ==
    /\ At(c, "lock") /\ owner = "free"
    /\ IF ~HasChild THEN Spawn(c, sup, "spawn") /\ UNCHANGED child
       ELSE IF ~child.alive THEN StopChild(c, sup, "retriable")
       ELSE /\ child' = [child EXCEPT !.work = caller[c].id, !.accepted = FALSE]
            /\ owner' = c /\ caller' = [caller EXCEPT ![c].pc = "read"]
            /\ UNCHANGED sup
    /\ UNCHANGED left /\ Rest

\* The identity of the first child is the service's for good; another child must
\* have the same, unless it was started for the CPU.
Identity(s, device) == IF s.namespace = "unset" THEN [s EXCEPT !.namespace = device] ELSE s

Spawned(c) ==
    LET device == IF sup.force_cpu THEN "cpu" ELSE "metal"
        s == Emit(Identity(sup, device), NoOp, caller[c].gen, FALSE)
    IN
    /\ caller[c].pc \in {"spawn", "respawn"}
    /\ child' = [gen |-> caller[c].gen, device |-> device, pipe |-> <<>>, alive |-> TRUE,
                 accepted |-> FALSE,
                 work |-> IF At(c, "spawn") THEN caller[c].id ELSE 0]
    /\ IF At(c, "spawn")
       THEN sup' = s /\ caller' = [caller EXCEPT ![c].pc = "read"] /\ UNCHANGED owner
       ELSE Return(c, s, caller[c].fail, "none")
    /\ UNCHANGED left /\ Rest

SpawnFails(c) ==
    /\ caller[c].pc \in {"spawn", "respawn"} /\ Spend
    /\ Return(c, sup, IF At(c, "spawn") THEN "fatal" ELSE "retriable", "none")
    /\ UNCHANGED child /\ Rest

Stopped(c) ==
    /\ At(c, "stop")
    /\ Spawn(c, Emit(sup, Op(c), caller[c].gen, TRUE), "respawn")
    /\ UNCHANGED <<child, left>> /\ Rest

StopFails(c) ==
    /\ At(c, "stop") /\ Spend
    /\ Return(c, sup, "retriable", "none")
    /\ UNCHANGED child /\ Rest

\* Mutant: the reply at the head of the pipe is taken for one's own.
IdNotCompared(c, m) == TRUE

IsReplyTo(c, m) == m.id = caller[c].id

\* One line of the child's output.
Read(c) ==
    /\ At(c, "read") /\ child.pipe # <<>>
    /\ LET m == Head(child.pipe)
           s == Emit(sup, Op(c), child.gen, FALSE)
       IN
       IF ~IsReplyTo(c, m) THEN StopChild(c, sup, "retriable")
       ELSE CASE m.kind = "progress" ->
                   /\ child' = [child EXCEPT !.pipe = Tail(@)] /\ sup' = s
                   /\ UNCHANGED <<owner, caller>>
              [] m.kind = "completed" ->
                   /\ child' = [child EXCEPT !.pipe = Tail(@)]
                   /\ owner' = "free" /\ sup' = [s EXCEPT !.ready = TRUE]
                   /\ caller' = [caller EXCEPT ![c].pc = After(c), ![c].got = m.id,
                                               ![c].answer = child.device]
              [] m.kind = "failed" ->
                   /\ child' = [child EXCEPT !.pipe = Tail(@)]
                   /\ Return(c, s, "fatal", "none")
              [] m.kind = "metal_fault" ->
                   StopChild(c, [s EXCEPT !.force_cpu = TRUE], "replayable")
    /\ UNCHANGED left /\ Rest

\* Mutant: the watchdog is only armed for the first line of an answer.
WatchdogOnce(c) ==
    /\ At(c, "read") /\ child.pipe = <<>> /\ ~child.alive /\ child.work = caller[c].id
    /\ UNCHANGED left
    /\ StopChild(c, sup, "retriable")
    /\ Rest

\* The stream is closed, or the watchdog sees no line in time.
Watchdog(c) ==
    /\ At(c, "read") /\ child.pipe = <<>>
    /\ IF child.alive THEN Spend ELSE UNCHANGED left
    /\ StopChild(c, sup, "retriable")
    /\ Rest

\* Mutant: a dropped request leaves the child as it is.
NoRetirement(c, s) == child' = child /\ sup' = s

\* Mutant: the child is retired, its readiness is not taken back.
RetireStaysReady(c, s) ==
    IF owner = c /\ HasChild
    THEN child' = NoChild /\ sup' = Emit(s, Op(c), child.gen, TRUE)
    ELSE child' = child /\ sup' = s

\* InFlightRequest's Drop: a child that is still in the state is retired.
Retire(c, s) ==
    IF owner = c /\ HasChild
    THEN child' = NoChild /\ sup' = [Emit(s, Op(c), child.gen, TRUE) EXCEPT !.ready = FALSE]
    ELSE child' = child /\ sup' = s

\* The client of an interactive call goes away.
Cancel(c) ==
    /\ c \in Searches /\ caller[c].pc \notin {"idle", "done"} /\ Spend
    /\ Retire(c, sup)
    /\ owner' = IF owner = c THEN "free" ELSE owner
    /\ caller' = [caller EXCEPT ![c] = NewCaller]
    /\ Rest

-----------------------------------------------------------------------------
(* The child process: run_embedding_executor *)

Working   == HasChild /\ child.alive /\ child.work # 0
Write(id, kind) ==
    child' = [child EXCEPT !.pipe = Append(@, [id |-> id, kind |-> kind]), !.accepted = TRUE,
                           !.work = IF kind \in {"completed", "failed", "metal_fault"}
                                       /\ id = @ THEN 0 ELSE @]
ChildFrame == UNCHANGED <<owner, sup, caller>> /\ Rest

\* The request is accepted; the heartbeats that follow only hold the watchdog off.
Accept ==
    /\ Working /\ ~child.accepted
    /\ Write(child.work, "progress")
    /\ UNCHANGED left /\ ChildFrame

Complete ==
    /\ Working /\ child.accepted
    /\ Write(child.work, "completed")
    /\ UNCHANGED left /\ ChildFrame

\* An error of the model; a Metal fault only while the child is on that device.
Fail ==
    /\ Working /\ child.accepted /\ Spend
    /\ \E kind \in {"failed", "metal_fault"} :
         /\ kind = "metal_fault" => child.device = "metal"
         /\ Write(child.work, kind)
    /\ ChildFrame

\* A child of another build answers a request it was not asked.
Stray ==
    /\ Working /\ ~child.accepted /\ Spend
    /\ Write(child.work - 1, "completed")
    /\ ChildFrame

\* It exits, or stops answering for good.
Die ==
    /\ HasChild /\ child.alive /\ Spend
    /\ child' = [child EXCEPT !.alive = FALSE, !.work = 0]
    /\ ChildFrame

-----------------------------------------------------------------------------
(* The coordinator, and what the ledger keeps *)

\* Every exit of the child so far, in this life of the server and before.
Exited == past + sup.exits

NoBaseline == [known |-> FALSE, exits |-> 0, start |-> 0, gen |-> 0]

\* Mutant: the persisted count is taken anew with every processing, the start of
\* the session's count is not.
BaselineTakenAnew(op, old) ==
    [old EXCEPT !.exits = snapshot[op].exits, !.gen = snapshot[op].gen]

\* The row that process() has read.  The baseline of the exit count is kept for
\* the life of the server: it is set by the first processing.
RowRead(op, old) ==
    [old EXCEPT !.exits = IF old.known THEN @ ELSE snapshot[op].exits,
                !.gen = snapshot[op].gen]

\* process_add_memory reads the row and prepares the executor for it; the
\* counter is raised before the mutex is awaited.
Process(op) ==
    /\ At(Coordinator, "idle") /\ Take("runs")
    /\ sup' = [sup EXCEPT !.next_gen = IF snapshot[op].gen + 1 > @ THEN snapshot[op].gen + 1 ELSE @]
    /\ caller' = [caller EXCEPT ![Coordinator] =
                    [NewCaller EXCEPT !.pc = "prepare", !.op = op]]
    /\ prepared' = [prepared EXCEPT ![op] = RowRead(op, @)]
    /\ UNCHANGED <<child, owner, snapshot, late, past, begun>>

Baseline(old) == IF old.known THEN old ELSE [old EXCEPT !.known = TRUE, !.start = sup.exits]

\* When op is prepared for the first time.
Begin(op) == begun' = [o \in DOMAIN begun \cup {op} |->
                         IF o \in DOMAIN begun THEN begun[o] ELSE Exited]

\* Mutant: a child whose generation is behind the operation's keeps its number.
PrepareKeepsGeneration ==
    LET op == Op(Coordinator) IN
    /\ At(Coordinator, "prepare") /\ owner = "free"
    /\ caller' = [caller EXCEPT ![Coordinator] = Ask(sup, @)]
    /\ sup' = [Asked(sup) EXCEPT !.event = 0]
    /\ prepared' = [prepared EXCEPT ![op] = Baseline(@)]
    /\ Begin(op)
    /\ UNCHANGED <<child, owner, snapshot, late, past, left>>

\* prepare_operation: adopt a child that is behind into the operation's sequence.
Prepare ==
    LET op   == Op(Coordinator)
        adopt == HasChild /\ child.gen <= prepared[op].gen
        s    == IF adopt THEN [sup EXCEPT !.next_gen = @ + 1, !.gen = sup.next_gen] ELSE sup
    IN
    /\ At(Coordinator, "prepare") /\ owner = "free"
    /\ child' = IF adopt THEN [child EXCEPT !.gen = sup.next_gen] ELSE child
    /\ caller' = [caller EXCEPT ![Coordinator] = Ask(s, @)]
    /\ sup' = [Asked(s) EXCEPT !.event = 0]
    /\ prepared' = [prepared EXCEPT ![op] = Baseline(@)]
    /\ Begin(op)
    /\ UNCHANGED <<owner, snapshot, late, past, left>>

\* Mutant: the exits of the session before the operation count as its own.
ExitsOfSession(op) == prepared[op].exits + sup.exits

\* Mutant: the difference is taken the other way round.
ExitsSwapped(op) == prepared[op].exits + (prepared[op].start - sup.exits)

\* executor_snapshot_for_operation
Exits(op) == prepared[op].exits + (sup.exits - prepared[op].start)
Snapshot(op) == [gen |-> sup.gen, exits |-> Exits(op)]
Update(op) == [op |-> op, row |-> Snapshot(op)]

\* persist_executor_snapshot, after every request, failed or not; then the next
\* part, if the request has succeeded and there is one.  An UPDATE that is not
\* answered in time is given up, with the processing, and may commit later.
Persist ==
    LET op == Op(Coordinator)
        me == caller[Coordinator]
    IN
    /\ At(Coordinator, "snapshot")
    /\ \/ /\ snapshot' = [snapshot EXCEPT ![op] = Snapshot(op)]
          /\ me.answer # "error" /\ me.calls + 1 < MaxParts
          /\ caller' = [caller EXCEPT ![Coordinator] =
               [Ask(sup, me) EXCEPT !.retry = FALSE, !.calls = @ + 1, !.answer = "none"]]
          /\ sup' = Asked(sup) /\ UNCHANGED <<late, left>>
       \/ /\ \/ /\ snapshot' = [snapshot EXCEPT ![op] = Snapshot(op)]
                /\ UNCHANGED <<late, left>>
             \/ /\ Spend /\ late' = late \cup {Update(op)}
                /\ UNCHANGED snapshot
          /\ caller' = [caller EXCEPT ![Coordinator] = NewCaller]
          /\ sup' = [sup EXCEPT !.event = 0]
    /\ UNCHANGED <<child, owner, prepared, past, begun>>

\* The database executes such an UPDATE, over whatever is there by then.
LateSnapshot(u) ==
    /\ u \in late
    /\ late' = late \ {u}
    /\ snapshot' = [snapshot EXCEPT ![u.op] = u.row]
    /\ UNCHANGED <<child, owner, sup, caller, prepared, past, begun, left>>

\* The server dies, and its child with it; another starts.
Crash ==
    /\ Take("crashes")
    /\ child' = NoChild /\ owner' = "free" /\ sup' = NewSupervisor
    /\ caller' = [c \in Callers |-> NewCaller]
    /\ prepared' = [op \in Ops |-> NoBaseline]
    /\ late' = IF At(Coordinator, "snapshot") THEN late \cup {Update(Op(Coordinator))} ELSE late
    /\ past' = Exited
    /\ UNCHANGED <<snapshot, begun>>

-----------------------------------------------------------------------------

InitExecutor ==
    /\ child = NoChild /\ owner = "free" /\ sup = NewSupervisor
    /\ caller = [c \in Callers |-> NewCaller]
    /\ prepared = [op \in Ops |-> NoBaseline]
    /\ snapshot = [op \in Ops |-> [gen |-> 0, exits |-> 0]]
    /\ late = {} /\ past = 0 /\ begun = [op \in {} |-> 0]
    /\ left \in Workloads

RequestStep(c) == \/ Acquire(c) \/ Spawned(c) \/ SpawnFails(c) \/ Stopped(c) \/ StopFails(c)
                  \/ Read(c) \/ Watchdog(c)
ChildStep == Accept \/ Complete \/ Fail \/ Stray \/ Die
CoordinatorStep == (\E op \in Ops : Process(op)) \/ Prepare \/ Persist

ExecutorNext ==
    \/ \E c \in Callers : RequestStep(c)
    \/ ChildStep \/ CoordinatorStep
    \/ \E u \in late : LateSnapshot(u)

-----------------------------------------------------------------------------
(* Properties *)

ExecutorTypeOK ==
    /\ child \in Child \cup {NoChild}
    /\ owner \in Callers \cup {"free"}
    /\ sup \in Supervisor
    /\ caller \in [Callers -> Caller]
    /\ snapshot \in [Ops -> [gen : Nat, exits : Nat]]
    /\ late \subseteq [op : Ops, row : [gen : Nat, exits : Nat]]
    /\ past \in Nat /\ begun \in [DOMAIN begun -> Nat] /\ DOMAIN begun \subseteq Ops

\* Nobody takes the reply to another request for its own, however requests are
\* dropped, children killed, strayed or renumbered, and requests retried.
RepliesMatch == \A c \in Callers : caller[c].got # 0 => caller[c].got = caller[c].id

\* Whenever the mutex is free, the child in it owes nothing and has nothing
\* unread: the next request starts on aligned streams.
AlignedWhenFree == owner = "free" /\ HasChild => child.work = 0 /\ child.pipe = <<>>

\* /health calls the embedder ready only while there is a child that can answer
\* or whose death has yet to be noticed: every path that loses it says so.
ReadyMeansChild == sup.ready => HasChild

MayCount(op, n) == IF op \in DOMAIN begun THEN begun[op] + n <= Exited ELSE n = 0

\* The receipt of an operation never counts an exit twice, or one from before the
\* operation: whatever snapshots were lost, or came late over newer ones, and
\* however often the server restarted and counted from zero, it shows at most
\* the exits there were since the operation was first prepared.
ExitsAreReal == \A op \in Ops : MayCount(op, snapshot[op].exits)

\* Every event of an operation carries a generation above the one its receipt
\* had when the coordinator took it up, also on a child an earlier life of the
\* server would have called by a lower number: its journal key is none of those
\* the receipt covers.
EventsFollowReceipt ==
    sup.event # 0 => sup.event > prepared[Op(Coordinator)].gen

=============================================================================
