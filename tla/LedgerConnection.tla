-------------------------- MODULE LedgerConnection --------------------------
(***************************************************************************)
(* The connection of the operation ledger (src/src/operations.rs): a       *)
(* handle with a generation, opened by the first caller, and replaced by   *)
(* a caller whose query failed on it.  In server mode a replacement is a   *)
(* transport of its own; in embedded mode it is a clone of the storage's   *)
(* handle, so the ledger depends on the storage's ConnectionCell.          *)
(***************************************************************************)
EXTENDS StorageConnection

CONSTANTS
    Callers,    \* ledger calls: the coordinator, the journal, requests
    Reconciler, \* the caller whose first pass is retried once after a recovery
    MaxRounds   \* bound on the calls of each caller but the coordinator

ASSUME LedgerConnectionAssumption ==
    Reconciler \in Callers /\ "free" \notin Callers /\ MaxRounds \in Nat

VARIABLES
    conn,     \* ledger_connection
    lock,     \* the caller that holds connection_replacement, or "free"
    caller    \* the calls

ledgerVars == <<conn, lock, caller>>
vars       == <<mode, cell, handles, alive, permits, task, faults, conn, lock, caller>>

NoConnection == [gen |-> 0, handle |-> 0]
IsOpen       == conn.handle # 0

Caller == [pc : {"absent", "idle", "lock", "first", "query", "recover", "replace"},
           gen : Nat, handle : Nat,
           recovered : BOOLEAN,  \* what the last failed call was told
           failed : Nat,         \* the generation it had failed on
           retried : BOOLEAN, rounds : Nat]

NewCaller == [pc |-> "idle", gen |-> 0, handle |-> 0, recovered |-> FALSE,
              failed |-> 0, retried |-> FALSE, rounds |-> 0]

Goto(c, pc)     == caller' = [caller EXCEPT ![c].pc = pc]
Use(c, k)       == caller' = [caller EXCEPT ![c].pc = "query", ![c].gen = k.gen,
                                            ![c].handle = k.handle]
StorageFrame    == UNCHANGED <<mode, cell, permits, task>>
NoNewHandle     == UNCHANGED <<handles, alive>>

\* ledger_connection(): a published connection is taken without the lock.
Call(c) ==
    /\ caller[c].pc = "idle"
    /\ c = Reconciler \/ caller[c].rounds < MaxRounds
    /\ LET n == IF c = Reconciler THEN 0 ELSE caller[c].rounds + 1
           me == [caller[c] EXCEPT !.recovered = FALSE, !.failed = 0,
                                   !.retried = FALSE, !.rounds = n]
       IN  caller' = [caller EXCEPT ![c] =
             IF IsOpen THEN [me EXCEPT !.pc = "query", !.gen = conn.gen, !.handle = conn.handle]
                       ELSE [me EXCEPT !.pc = "lock"]]
    /\ UNCHANGED <<conn, lock, faults>> /\ StorageFrame /\ NoNewHandle

LockForFirst(c) ==
    /\ caller[c].pc = "lock" /\ lock = "free"
    /\ IF IsOpen THEN Use(c, conn) /\ UNCHANGED lock
                 ELSE Goto(c, "first") /\ lock' = c
    /\ UNCHANGED <<conn, faults>> /\ StorageFrame /\ NoNewHandle

\* operation_ledger_connection(): a new transport, or a clone of the storage's handle.
Connects(h) ==
    IF mode = "embedded"
    THEN cell.state = "connected" /\ h = cell.handle /\ NoNewHandle
    ELSE h = handles + 1 /\ handles' = h /\ alive' = alive \cup {h}

ConnectorFails == IF mode = "embedded" /\ cell.state # "connected"
                  THEN UNCHANGED faults ELSE Spend

FirstConnected(c) ==
    /\ caller[c].pc = "first"
    /\ \E h \in {handles + 1, cell.handle} :
         Connects(h) /\ conn' = [gen |-> 0, handle |-> h] /\ Use(c, conn')
    /\ lock' = "free"
    /\ UNCHANGED faults /\ StorageFrame

FirstFails(c) ==
    /\ caller[c].pc = "first" /\ ConnectorFails
    /\ lock' = "free" /\ Goto(c, "idle")
    /\ UNCHANGED conn /\ StorageFrame /\ NoNewHandle

QueryOk(c) ==
    /\ caller[c].pc = "query" /\ caller[c].handle \in alive
    /\ Goto(c, "idle")
    /\ UNCHANGED <<conn, lock, faults>> /\ StorageFrame /\ NoNewHandle

\* An error that is not about the connection is returned as it is.
QueryRefused(c) ==
    /\ caller[c].pc = "query" /\ caller[c].handle \in alive /\ Spend
    /\ Goto(c, "idle")
    /\ UNCHANGED <<conn, lock>> /\ StorageFrame /\ NoNewHandle

\* await_database: the deadline passes, or the session is unusable.
QueryFails(c) ==
    /\ caller[c].pc = "query"
    /\ IF caller[c].handle \in alive THEN Spend ELSE UNCHANGED faults
    /\ Goto(c, "recover")
    /\ UNCHANGED <<conn, lock>> /\ StorageFrame /\ NoNewHandle

\* The call returns its error, with what recover_ledger_connection said;
\* retry_recovered_ledger_once runs it again.
Told(c, recovered) ==
    LET me == [caller[c] EXCEPT !.recovered = recovered, !.failed = caller[c].gen] IN
    caller' = [caller EXCEPT ![c] =
        IF c = Reconciler /\ recovered /\ ~me.retried
        THEN [me EXCEPT !.pc = "query", !.retried = TRUE, !.gen = conn'.gen,
                        !.handle = conn'.handle]
        ELSE [me EXCEPT !.pc = "idle"]]

\* Mutant: someone else's replacement counts as done.
ReplaceTrustsOther(c) ==
    /\ caller[c].pc = "recover"
    /\ UNCHANGED conn
    /\ \/ /\ lock # "free" /\ Told(c, TRUE) /\ UNCHANGED lock
       \/ /\ lock = "free" /\ conn.gen # caller[c].gen /\ Told(c, TRUE) /\ UNCHANGED lock
       \/ /\ lock = "free" /\ conn.gen = caller[c].gen /\ Goto(c, "replace") /\ lock' = c
    /\ UNCHANGED faults /\ StorageFrame /\ NoNewHandle

\* Mutant: whoever has the lock replaces what is there.
ReplaceAnyGeneration(c) ==
    /\ caller[c].pc = "recover"
    /\ UNCHANGED conn
    /\ \/ /\ lock # "free" /\ Told(c, FALSE) /\ UNCHANGED lock
       \/ /\ lock = "free" /\ Goto(c, "replace") /\ lock' = c
    /\ UNCHANGED faults /\ StorageFrame /\ NoNewHandle

\* replace_ledger_connection up to its connect: give up if another caller is
\* replacing, be content if the failed generation is gone already.
Replace(c) ==
    /\ caller[c].pc = "recover"
    /\ UNCHANGED conn
    /\ \/ /\ lock # "free" /\ Told(c, FALSE) /\ UNCHANGED lock
       \/ /\ lock = "free" /\ conn.gen # caller[c].gen /\ Told(c, TRUE) /\ UNCHANGED lock
       \/ /\ lock = "free" /\ conn.gen = caller[c].gen /\ Goto(c, "replace") /\ lock' = c
    /\ UNCHANGED faults /\ StorageFrame /\ NoNewHandle

Replaced(c) ==
    /\ caller[c].pc = "replace"
    /\ \E h \in {handles + 1, cell.handle} :
         Connects(h) /\ conn' = [gen |-> caller[c].gen + 1, handle |-> h]
    /\ lock' = "free" /\ Told(c, TRUE)
    /\ UNCHANGED faults /\ StorageFrame

\* Mutant: the timeout forgets the lock.
ReplaceTimesOut(c) ==
    /\ caller[c].pc = "replace" /\ ConnectorFails
    /\ UNCHANGED <<conn, lock>> /\ Told(c, FALSE)
    /\ StorageFrame /\ NoNewHandle

\* The connect fails, or the replacement is cut off by its own timeout.
ReplaceFails(c) ==
    /\ caller[c].pc = "replace" /\ ConnectorFails
    /\ UNCHANGED conn /\ lock' = "free" /\ Told(c, FALSE)
    /\ StorageFrame /\ NoNewHandle

-----------------------------------------------------------------------------

InitLedger(calls) ==
    /\ conn = NoConnection /\ lock = "free"
    /\ caller = [c \in Callers |-> IF c \in calls THEN NewCaller
                                  ELSE [NewCaller EXCEPT !.pc = "absent"]]

Init == \E calls \in Workloads : InitStorage(calls) /\ InitLedger(calls)

CallerStep(c) ==
    \/ LockForFirst(c) \/ FirstConnected(c) \/ FirstFails(c)
    \/ QueryOk(c) \/ QueryRefused(c) \/ QueryFails(c)
    \/ Replace(c) \/ Replaced(c) \/ ReplaceFails(c)

Next == \/ StorageNext /\ UNCHANGED ledgerVars
        \/ \E c \in Callers : Call(c) \/ CallerStep(c)

\* The runtime polls every ready task; the coordinator's sweep ticks for ever.
Fairness ==
    /\ \A t \in Tasks : WF_vars(TaskStep(t) /\ UNCHANGED ledgerVars)
    /\ \A c \in Callers : WF_vars(CallerStep(c))
    /\ WF_vars(Call(Reconciler))

Spec == Init /\ [][Next]_vars /\ Fairness

-----------------------------------------------------------------------------
(* Properties *)

TypeOK ==
    /\ StorageTypeOK
    /\ conn \in [gen : Nat, handle : 0..handles]
    /\ lock \in Callers \cup {"free"}
    /\ caller \in [Callers -> Caller]
    /\ \A c \in Callers : caller[c].rounds <= MaxRounds

\* A published connection is replaced only by its successor, and only for a
\* failure on itself: a query that fails late, on an older generation, never
\* takes the place of a newer connection or gives its number to another.
OnlyTheFailedIsReplaced ==
    [][conn' # conn /\ IsOpen =>
         /\ conn'.gen = conn.gen + 1
         /\ \E c \in Callers : caller[c].pc = "replace" /\ caller[c].gen = conn.gen]_vars

\* A caller that is told to retry finds a newer connection than the one that
\* failed it, even when another caller replaced it.
RecoveredIsNewer == \A c \in Callers : caller[c].recovered => conn.gen > caller[c].failed

\* A ledger connection that is lost is replaced, as long as the coordinator
\* sweeps: no timeout or failed connect leaves the replacement locked.
LedgerRecovers == (IsOpen /\ conn.handle \notin alive) ~> conn.handle \in alive
=============================================================================
