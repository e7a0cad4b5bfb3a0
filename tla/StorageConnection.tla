------------------------- MODULE StorageConnection -------------------------
(***************************************************************************)
(* How SurrealStorage (crates/surreal-memory/src/storage/surreal.rs)       *)
(* reaches the database: one shared handle behind a ConnectionCell, a      *)
(* semaphore in embedded mode, retry_operation() around a create, and      *)
(* write_retrying_conflicts() around every other write.                    *)
(*                                                                         *)
(* A call of the storage is a task.  One action is what it does between    *)
(* two awaits; a task may be dropped at any of them, by its deadline or    *)
(* because its client went away.                                           *)
(***************************************************************************)
EXTENDS Naturals, FiniteSets

CONSTANTS
    Tasks,              \* calls of the storage
    Creates,            \* those that go through create_record: retry_operation
    Modes,              \* SurrealMode values to start with
    Workloads,          \* sets of calls that are made together in one behaviour
    MaxInflight,        \* permits of the embedded-mode semaphore
    MaxRetries,         \* max_operation_retries
    ReconnectAttempts,  \* OPERATION_RECONNECT_ATTEMPTS
    MaxConflicts,       \* MAX_TRANSACTION_CONFLICT_RETRIES
    Statements,         \* statements of a transaction; the last one is COMMIT
    MaxFaults           \* bound on lost transports, failed queries and dropped tasks

ASSUME StorageAssumption ==
    /\ Creates \subseteq Tasks
    /\ Modes \subseteq {"server", "embedded"}
    /\ MaxInflight \in Nat \ {0} /\ MaxRetries \in Nat \ {0}
    /\ ReconnectAttempts \in Nat /\ MaxConflicts \in Nat \ {0}
    /\ Statements \in Nat \ {0} /\ MaxFaults \in Nat

VARIABLES
    mode,      \* config.mode
    cell,      \* the ConnectionCell
    handles,   \* number of connections opened so far; a handle is its number
    alive,     \* handles whose transport works
    permits,   \* free permits of embedded_semaphore
    task,      \* the calls
    faults

storageVars == <<mode, cell, handles, alive, permits, task, faults>>

Connected(h) == [state |-> "connected", handle |-> h]
Reconnecting == [state |-> "reconnecting", handle |-> 0]
Failed       == [state |-> "failed", handle |-> 0]

Spend == faults < MaxFaults /\ faults' = faults + 1

-----------------------------------------------------------------------------
(* Errors of one request *)

\* Per-statement errors of a response.
StatementError == {"none", "conflict", "not_executed", "real"}

\* Mutant: IndexedResults::check() takes the error of the lowest index.
LowestIndexError(errs) ==
    LET failed == {i \in DOMAIN errs : errs[i] # "none"} IN
    IF failed = {} THEN "none"
    ELSE errs[CHOOSE i \in failed : \A j \in failed : i <= j]

\* select_statement_error: a conflict only if nothing but placeholders came
\* with it, else the first real error, else whatever the last row says.
SelectStatementError(errs) ==
    LET failed == {i \in DOMAIN errs : errs[i] # "none"}
        real   == {i \in failed : errs[i] = "real"}
        last   == CHOOSE i \in failed : \A j \in failed : j <= i
    IN  IF failed = {} THEN "none"
        ELSE IF real # {} THEN "real"
        ELSE IF \E i \in failed : errs[i] = "conflict" THEN "conflict"
        ELSE errs[last]

Row(f(_)) == [i \in 1..Statements |-> f(i)]

\* What the database answers to one BEGIN ... COMMIT.  A lost conflict marks
\* every statement not executed and reports the conflict on the last row; a
\* statement that fails takes the others with it.
Response ==
    {[errs |-> Row(LAMBDA i : "none"), applied |-> TRUE],
     [errs |-> Row(LAMBDA i : IF i = Statements THEN "conflict" ELSE "not_executed"),
      applied |-> FALSE]}
    \cup {[errs |-> Row(LAMBDA i : IF i = k THEN "real" ELSE "not_executed"),
           applied |-> FALSE] : k \in 1..Statements}

\* Mutant: an error that says nothing of the transaction is taken for a conflict.
AnyErrorIsConflict(e) == e # "none"

IsRetryableConflict(e) == e = "conflict"

\* classify_surreal_error and classify_error.
RetryAction(e) == CASE e \in {"conflict", "timeout"} -> "Retry"
                    [] e = "lost"                    -> "Reconnect"
                    [] OTHER                         -> "FailFast"

-----------------------------------------------------------------------------
(* Tasks *)

Task == [pc : {"absent", "idle", "permit", "query", "connect", "sleep", "ended"},
         attempt : Nat, connects : Nat, conflicts : Nat, handle : Nat,
         applied : Nat,      \* how often the effect of the call reached the database
         answer : {"none", "ok", "unavailable", "conflict", "not_executed", "real",
                   "timeout", "lost", "exists", "dropped"}]

NewTask == [pc |-> "idle", attempt |-> 0, connects |-> 0, conflicts |-> 0,
            handle |-> 0, applied |-> 0, answer |-> "none"]

IsCreate(t)    == t \in Creates
NeedsPermit(t) == IsCreate(t) /\ mode = "embedded"
\* Does t hold a permit of the semaphore?
HoldsPermit(t) == NeedsPermit(t) /\ task[t].pc \in {"query", "connect", "sleep"}

Ended(t, answer) == [task[t] EXCEPT !.pc = "ended", !.answer = answer]

\* live_db(), and the query it is for.
Attempt(t) ==
    IF cell.state = "connected"
    THEN [task[t] EXCEPT !.pc = "query", !.handle = cell.handle]
    ELSE Ended(t, "unavailable")

\* The permit is given back when the call ends, however it ends.
Permits(t, next) ==
    permits' = IF ~NeedsPermit(t) THEN permits
               ELSE permits + (IF HoldsPermit(t) THEN 1 ELSE 0)
                            - (IF next.pc \in {"query", "connect", "sleep"} THEN 1 ELSE 0)

Becomes(t, next) == task' = [task EXCEPT ![t] = next] /\ Permits(t, next)

Start(t) ==
    /\ task[t].pc = "idle"
    /\ IF NeedsPermit(t) /\ permits = 0
       THEN Becomes(t, [task[t] EXCEPT !.pc = "permit"])
       ELSE Becomes(t, Attempt(t))
    /\ UNCHANGED <<mode, cell, handles, alive, faults>>

GetPermit(t) ==
    /\ task[t].pc = "permit" /\ permits > 0
    /\ Becomes(t, Attempt(t))
    /\ UNCHANGED <<mode, cell, handles, alive, faults>>

\* The key of a CREATE is chosen before the first attempt, so that a record
\* that an earlier attempt has created makes the later one fail.
Apply(t) == IF IsCreate(t) THEN 1 ELSE task[t].applied + 1

\* retry_operation_inner after an error of the query.
RetryOrGiveUp(t, e, applied) ==
    LET now == [task[t] EXCEPT !.applied = applied] IN
    IF task[t].attempt + 1 >= MaxRetries \/ RetryAction(e) = "FailFast"
    THEN Becomes(t, [now EXCEPT !.pc = "ended", !.answer = e]) /\ UNCHANGED cell
    ELSE IF RetryAction(e) = "Reconnect"
    THEN Becomes(t, [now EXCEPT !.pc = "connect", !.connects = 0]) /\ cell' = Reconnecting
    ELSE Becomes(t, [now EXCEPT !.pc = "sleep"]) /\ UNCHANGED cell

CreateAnswers(t) ==
    /\ IsCreate(t) /\ task[t].pc = "query"
    /\ \/ /\ task[t].handle \in alive /\ task[t].applied = 0
          /\ Becomes(t, [Ended(t, "ok") EXCEPT !.applied = 1])
          /\ UNCHANGED <<cell, faults>>
       \/ /\ task[t].handle \in alive /\ task[t].applied = 1
          /\ RetryOrGiveUp(t, "exists", 1) /\ UNCHANGED faults
       \/ /\ task[t].handle \in alive /\ Spend
          /\ \/ \E a \in {task[t].applied, 1} : RetryOrGiveUp(t, "timeout", a)
             \/ RetryOrGiveUp(t, "conflict", task[t].applied)
             \/ RetryOrGiveUp(t, "real", task[t].applied)
       \/ /\ task[t].handle \notin alive
          /\ \E a \in {task[t].applied, 1} : RetryOrGiveUp(t, "lost", a)
          /\ UNCHANGED faults
    /\ UNCHANGED <<mode, handles, alive>>

\* Mutant: one connect more than max_attempts allows.
ConnectFailsOnceMore(t) ==
    /\ task[t].pc = "connect" /\ Spend
    /\ IF task[t].connects <= ReconnectAttempts
       THEN /\ Becomes(t, [task[t] EXCEPT !.connects = @ + 1])
            /\ UNCHANGED cell
       ELSE /\ Becomes(t, [task[t] EXCEPT !.pc = "sleep"])
            /\ cell' = Failed
    /\ UNCHANGED <<mode, handles, alive>>

\* reconnect_with_attempts: the connect succeeds, is tried again, or fails.
ConnectOk(t) ==
    /\ task[t].pc = "connect"
    /\ handles' = handles + 1 /\ alive' = alive \cup {handles + 1}
    /\ cell' = Connected(handles + 1)
    /\ Becomes(t, [task[t] EXCEPT !.pc = "sleep"])
    /\ UNCHANGED <<mode, faults>>

ConnectFails(t) ==
    /\ task[t].pc = "connect" /\ Spend
    /\ IF task[t].connects < ReconnectAttempts
       THEN /\ Becomes(t, [task[t] EXCEPT !.connects = @ + 1])
            /\ UNCHANGED cell
       ELSE /\ Becomes(t, [task[t] EXCEPT !.pc = "sleep"])
            /\ cell' = Failed
    /\ UNCHANGED <<mode, handles, alive>>

\* The backoff is over.  A create takes the handle anew, a write keeps its own.
Wakes(t) ==
    /\ task[t].pc = "sleep"
    /\ Becomes(t, IF IsCreate(t) THEN [Attempt(t) EXCEPT !.attempt = @ + 1]
                                 ELSE [task[t] EXCEPT !.pc = "query"])
    /\ UNCHANGED <<mode, cell, handles, alive, faults>>

\* What write_retrying_conflicts does with the error e of one request: resubmit
\* after a conflict, unless the attempts or the deadline are used up.
Resubmit(t, now, e) ==
    \/ Becomes(t, [now EXCEPT !.pc = "ended", !.answer = e])
    \/ /\ IsRetryableConflict(e) /\ now.conflicts + 1 < MaxConflicts
       /\ Becomes(t, [now EXCEPT !.pc = "sleep", !.conflicts = @ + 1])

WriteAnswers(t) ==
    /\ ~IsCreate(t) /\ task[t].pc = "query"
    /\ \/ /\ task[t].handle \in alive
          /\ \E r \in Response :
               LET e   == SelectStatementError(r.errs)
                   now == [task[t] EXCEPT !.applied = IF r.applied THEN Apply(t) ELSE @]
               IN
               IF e = "none"
               THEN Becomes(t, [now EXCEPT !.pc = "ended", !.answer = "ok"]) /\ UNCHANGED faults
               ELSE Resubmit(t, now, e) /\ Spend
       \/ /\ task[t].handle \notin alive
          /\ \E a \in {task[t].applied, Apply(t)} :
               Resubmit(t, [task[t] EXCEPT !.applied = a], "lost")
          /\ UNCHANGED faults
    /\ UNCHANGED <<mode, cell, handles, alive>>

\* Mutant: nothing happens when a reconnect is dropped half-way.
NoGuard(t) == cell

\* ReconnectGuard's Drop.
Guard(t) == IF task[t].pc = "connect" /\ cell = Reconnecting THEN Failed ELSE cell

\* Mutant: a dropped call keeps its permit.
DroppedKeepsPermit(t) ==
    /\ task[t].pc \in {"permit", "query", "connect", "sleep"} /\ Spend
    /\ \E a \in {task[t].applied} \cup (IF task[t].pc = "query" THEN {Apply(t)} ELSE {}) :
         task' = [task EXCEPT ![t] = [Ended(t, "dropped") EXCEPT !.applied = a]]
    /\ cell' = Guard(t)
    /\ UNCHANGED <<mode, handles, alive, permits>>

\* The deadline of the call, or a client that went away, drops its future.
Dropped(t) ==
    /\ task[t].pc \in {"permit", "query", "connect", "sleep"} /\ Spend
    /\ \E a \in {task[t].applied} \cup (IF task[t].pc = "query" THEN {Apply(t)} ELSE {}) :
         Becomes(t, [Ended(t, "dropped") EXCEPT !.applied = a])
    /\ cell' = Guard(t)
    /\ UNCHANGED <<mode, handles, alive>>

\* The transport of one connection is lost; an embedded database has none.
TransportLost(h) ==
    /\ mode = "server" /\ h \in alive /\ Spend
    /\ alive' = alive \ {h}
    /\ UNCHANGED <<mode, cell, handles, permits, task>>

-----------------------------------------------------------------------------

\* SurrealStorage::new: connect_with_retry has succeeded.
InitStorage(calls) ==
    /\ mode \in Modes
    /\ cell = Connected(1) /\ handles = 1 /\ alive = {1}
    /\ permits = MaxInflight
    /\ task = [t \in Tasks |-> IF t \in calls THEN NewTask
                              ELSE [NewTask EXCEPT !.pc = "absent"]]
    /\ faults = 0

TaskStep(t) == \/ GetPermit(t) \/ CreateAnswers(t) \/ WriteAnswers(t)
               \/ ConnectOk(t) \/ ConnectFails(t) \/ Wakes(t)

StorageNext == \/ \E t \in Tasks : Start(t) \/ TaskStep(t) \/ Dropped(t)
               \/ \E h \in alive : TransportLost(h)

-----------------------------------------------------------------------------
(* Properties *)

StorageTypeOK ==
    /\ mode \in Modes
    /\ cell \in [state : {"connected", "reconnecting", "failed"}, handle : Nat]
    /\ handles \in Nat /\ alive \subseteq 1..handles
    /\ permits \in 0..MaxInflight
    /\ task \in [Tasks -> Task]
    /\ \A t \in Tasks : /\ task[t].attempt <= MaxRetries /\ task[t].conflicts < MaxConflicts
                        /\ task[t].connects <= ReconnectAttempts
    /\ faults \in 0..MaxFaults

\* The cell says Reconnecting only while some call is really connecting: no
\* order of concurrent reconnects, failures and dropped futures strands it.
NeverStranded ==
    cell = Reconnecting => \E t \in Tasks : task[t].pc = "connect"

\* However often a call is resubmitted, after a conflict, a timeout or a lost
\* connection, its effect reaches the database at most once.
AppliedAtMostOnce == \A t \in Tasks : task[t].applied <= 1

\* A write that was aborted by a conflict is never reported as a statement
\* that was merely not executed: the cause is found behind the placeholders.
CauseIsNamed == \A t \in Tasks : task[t].answer # "not_executed"

\* A dropped reconnect leaves `Failed` "so the storage instance stays usable
\* (subsequent calls retry rather than bail forever)" (surreal.rs:1252): once a
\* create that begins on a Failed cell has been answered, it is Failed no more.
FailedIsRetried ==
    \A t \in Creates :
        []( /\ cell = Failed /\ task[t].pc = "idle"
            /\ <>(task[t].answer \notin {"none", "dropped"})
            => <>(cell # Failed))

\* Every call that has begun comes to an end, with or without its permit.
CallsEnd == \A t \in Tasks :
    task[t].pc \notin {"absent", "idle"} ~> task[t].pc = "ended"
=============================================================================
