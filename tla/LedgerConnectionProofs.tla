----------------------- MODULE LedgerConnectionProofs -----------------------
(***************************************************************************)
(* What holds of the connections of the storage and of the ledger for any  *)
(* set of calls, either mode, any number of permits, retries, reconnects,  *)
(* conflicts and faults.                                                   *)
(*                                                                         *)
(* A step of a call replaces the record of that call, so the invariant     *)
(* says of every call by itself what its record may be (TaskOK, CallerOK), *)
(* and counts the permits: those that are free and those that are held.    *)
(***************************************************************************)
EXTENDS LedgerConnection, FiniteSetTheorems, TLAPS

Holding == {"query", "connect", "sleep"}
Holders == {t \in Tasks : HoldsPermit(t)}

PermitInv == /\ permits \in Nat /\ IsFiniteSet(Holders)
             /\ permits + Cardinality(Holders) = MaxInflight

\* What record r of call t may be.
Bounded(r) ==
    /\ r \in Task
    /\ r.attempt <= MaxRetries /\ r.connects <= ReconnectAttempts
    /\ r.conflicts < MaxConflicts /\ r.applied <= 1

TaskOK(t, r) ==
    /\ Bounded(r) /\ r.answer # "not_executed"
    /\ r.pc = "connect" => IsCreate(t)
    /\ r.pc \in {"connect", "sleep"} /\ IsCreate(t) => r.attempt + 1 < MaxRetries
    /\ r.pc # "ended" /\ ~IsCreate(t) => r.applied = 0

TaskInv == /\ task = [t \in Tasks |-> task[t]]
           /\ \A t \in Tasks : TaskOK(t, task[t])

CellInv == /\ cell \in [state : {"connected", "reconnecting", "failed"}, handle : Nat]
           /\ cell.handle <= handles
           /\ cell.state = "connected" => cell.handle # 0

ConnectionInv ==
    /\ mode \in Modes /\ handles \in Nat /\ alive \subseteq 1..handles
    /\ faults \in 0..MaxFaults
    /\ CellInv /\ NeverStranded

StorageInv == ConnectionInv /\ TaskInv /\ PermitInv

\* What record r of caller c may be while k is published and l holds the lock.
CallerOK(c, r, k, l) ==
    /\ r \in Caller /\ r.rounds <= MaxRounds
    /\ r.pc \in {"first", "replace"} => l = c
    /\ r.pc = "first" => k = NoConnection
    /\ r.pc = "replace" => r.gen = k.gen
    /\ r.pc \in {"query", "recover", "replace"} => r.gen <= k.gen
    /\ r.recovered => r.failed < k.gen

LedgerInv ==
    /\ conn \in [gen : Nat, handle : Nat] /\ conn.handle <= handles
    /\ conn.handle = 0 => conn.gen = 0
    /\ lock \in Callers \cup {"free"}
    /\ caller = [c \in Callers |-> caller[c]]
    /\ \A c \in Callers : CallerOK(c, caller[c], conn, lock)

IInv == StorageInv /\ LedgerInv

\* What a step of caller c may do to the lock and to what is published.
Turn(c) ==
    /\ lock' \in {lock, c, "free"} /\ (lock' # lock => lock \in {c, "free"})
    /\ \/ conn' = conn
       \/ /\ conn' \in [gen : Nat, handle : Nat] /\ conn'.handle # 0
          /\ lock = c /\ conn.gen <= conn'.gen
    /\ handles \in Nat /\ handles' \in Nat /\ handles <= handles'
    /\ conn'.handle <= handles'

\* And to its own record.
Moves(c) == \E next : /\ caller' = [caller EXCEPT ![c] = next]
                      /\ CallerOK(c, next, conn', lock')

-----------------------------------------------------------------------------
(* The answer to a transaction *)

\* select_statement_error finds the cause behind the placeholders, and finds
\* none only if the transaction was applied.
LEMMA CauseFound ==
    ASSUME NEW r \in Response
    PROVE  /\ SelectStatementError(r.errs) \in {"none", "conflict", "real"}
           /\ r.applied => SelectStatementError(r.errs) = "none"
           /\ SelectStatementError(r.errs) = "none" => r.applied
  <1>0. Statements \in Nat \ {0}
    BY StorageAssumption
  <1>1. CASE r = [errs |-> Row(LAMBDA i : "none"), applied |-> TRUE]
    BY <1>1 DEF SelectStatementError, Row
  <1>2. CASE r = [errs |-> Row(LAMBDA i : IF i = Statements THEN "conflict" ELSE "not_executed"),
                  applied |-> FALSE]
    <2> DEFINE failed == {i \in DOMAIN r.errs : r.errs[i] # "none"}
    <2>1. r.errs = [i \in 1..Statements |->
                      IF i = Statements THEN "conflict" ELSE "not_executed"]
      BY <1>2 DEF Row
    <2>2. /\ Statements \in failed /\ r.errs[Statements] = "conflict"
          /\ {i \in failed : r.errs[i] = "real"} = {}
      BY <1>0, <2>1
    <2>3. SelectStatementError(r.errs) = "conflict"
      BY <2>2 DEF SelectStatementError
    <2> QED
      BY <1>2, <2>3
  <1>3. ASSUME NEW k \in 1..Statements,
               r = [errs |-> Row(LAMBDA i : IF i = k THEN "real" ELSE "not_executed"),
                    applied |-> FALSE]
        PROVE  SelectStatementError(r.errs) = "real" /\ ~r.applied
    BY <1>3 DEF SelectStatementError, Row
  <1> QED
    BY <1>1, <1>2, <1>3 DEF Response

-----------------------------------------------------------------------------
(* A step of one call of the storage *)

\* A call whose record is replaced by one that it may have, and that takes a
\* permit only if one is free, keeps the invariants of the calls.
LEMMA OneTask ==
    ASSUME TaskInv, PermitInv, NEW t \in Tasks, NEW next, TaskOK(t, next),
           Becomes(t, next), mode' = mode,
           next.pc \in Holding /\ NeedsPermit(t) => HoldsPermit(t) \/ permits > 0
    PROVE  TaskInv' /\ PermitInv' /\ task'[t] = next
           /\ \A u \in Tasks \ {t} : task'[u] = task[u]
  <1>1. task' = [u \in Tasks |-> IF u = t THEN next ELSE task[u]]
    BY DEF Becomes, TaskInv
  <1>2. TaskInv'
    BY <1>1 DEF TaskInv, TaskOK, Bounded, IsCreate
  <1>3. CASE ~NeedsPermit(t)
    <2>1. Holders' = Holders
      BY <1>1, <1>3 DEF Holders, HoldsPermit, NeedsPermit, IsCreate
    <2> QED
      BY <1>1, <1>2, <1>3, <2>1 DEF PermitInv, Becomes, Permits
  <1>4. CASE NeedsPermit(t)
    <2>1. Holders' = IF next.pc \in Holding THEN Holders \cup {t} ELSE Holders \ {t}
      BY <1>1, <1>4 DEF Holders, HoldsPermit, NeedsPermit, IsCreate, Holding
    <2>2. permits' = permits + (IF t \in Holders THEN 1 ELSE 0)
                             - (IF next.pc \in Holding THEN 1 ELSE 0)
      BY <1>4 DEF Becomes, Permits, Holders, Holding
    <2>3. next.pc \in Holding => t \in Holders \/ permits > 0
      BY <1>4 DEF Holders
    <2>4. /\ IsFiniteSet(Holders \cup {t})
          /\ Cardinality(Holders \cup {t}) = IF t \in Holders THEN Cardinality(Holders)
                                             ELSE Cardinality(Holders) + 1
      BY FS_AddElement DEF PermitInv
    <2>5. /\ IsFiniteSet(Holders \ {t})
          /\ Cardinality(Holders \ {t}) = IF t \in Holders THEN Cardinality(Holders) - 1
                                          ELSE Cardinality(Holders)
      BY FS_RemoveElement DEF PermitInv
    <2>6. Cardinality(Holders) \in Nat
      BY FS_CardinalityType DEF PermitInv
    <2>7. MaxInflight \in Nat
      BY StorageAssumption
    <2> QED
      BY <1>1, <1>2, <2>1, <2>2, <2>3, <2>4, <2>5, <2>6, <2>7 DEF PermitInv
  <1> QED
    BY <1>3, <1>4

\* The cell stays honest as long as the call that leaves its connect says so.
LEMMA OneCell ==
    ASSUME NeverStranded, NEW t \in Tasks,
           \A u \in Tasks \ {t} : task'[u] = task[u],
           \/ cell' \in {cell, Failed} /\ task[t].pc # "connect"
           \/ task'[t].pc = "connect"
           \/ cell' # Reconnecting
    PROVE  NeverStranded'
  BY DEF NeverStranded, Reconnecting, Failed

LEMMA Attempted ==
    ASSUME StorageInv, NEW t \in Tasks, task[t].pc \in {"idle", "permit", "sleep"}
    PROVE  TaskOK(t, Attempt(t)) /\ Attempt(t).attempt = task[t].attempt
           /\ Attempt(t).pc \in {"query", "ended"}
  BY DEF StorageInv, ConnectionInv, CellInv, TaskInv, TaskOK, Bounded, IsCreate, Attempt, Ended, Task

LEMMA StartKeeps ==
    ASSUME StorageInv, NEW t \in Tasks, Start(t)
    PROVE  StorageInv'
  <1>1. TaskOK(t, [task[t] EXCEPT !.pc = "permit"])
    BY DEF Start, StorageInv, TaskInv, TaskOK, Bounded, IsCreate, Task
  <1>2. TaskInv' /\ PermitInv' /\ \A u \in Tasks \ {t} : task'[u] = task[u]
    <2>1. CASE NeedsPermit(t) /\ permits = 0
      <3>1. [task[t] EXCEPT !.pc = "permit"].pc = "permit"
        BY DEF StorageInv, TaskInv, TaskOK, Bounded, IsCreate, Task
      <3> QED
        BY <1>1, <2>1, <3>1, OneTask DEF Start, StorageInv, Holding
    <2>2. CASE ~(NeedsPermit(t) /\ permits = 0)
      BY <2>2, Attempted, OneTask DEF Start, StorageInv, PermitInv
    <2> QED
      BY <2>1, <2>2
  <1>3. NeverStranded'
    BY <1>2, OneCell DEF Start, StorageInv, ConnectionInv
  <1> QED
    BY <1>2, <1>3 DEF Start, StorageInv, ConnectionInv, CellInv

LEMMA GetPermitKeeps ==
    ASSUME StorageInv, NEW t \in Tasks, GetPermit(t)
    PROVE  StorageInv'
  <1>1. TaskInv' /\ PermitInv' /\ \A u \in Tasks \ {t} : task'[u] = task[u]
    BY Attempted, OneTask DEF GetPermit, StorageInv
  <1>2. NeverStranded'
    BY <1>1, OneCell DEF GetPermit, StorageInv, ConnectionInv
  <1> QED
    BY <1>1, <1>2 DEF GetPermit, StorageInv, ConnectionInv, CellInv

Errors == {"conflict", "timeout", "lost", "exists", "real"}

\* The effect of a call may have reached the database before the call ends.
LEMMA Applying ==
    ASSUME NEW r, Bounded(r), NEW a \in Nat, a <= 1
    PROVE  LET now == [r EXCEPT !.applied = a] IN
           /\ Bounded(now) /\ now.applied = a /\ now.pc = r.pc /\ now.answer = r.answer
           /\ now.attempt = r.attempt /\ now.conflicts = r.conflicts
  BY DEF Bounded, Task

\* A call may end with an answer at any time.
LEMMA Finished ==
    ASSUME NEW t \in Tasks, NEW r, Bounded(r), NEW e \in Errors \cup {"ok", "dropped"}
    PROVE  LET next == [r EXCEPT !.pc = "ended", !.answer = e] IN
           TaskOK(t, next) /\ next.pc = "ended"
  <1> DEFINE next == [r EXCEPT !.pc = "ended", !.answer = e]
  <1>1. next \in Task
    BY DEF Bounded, Task, Errors
  <1>2. /\ next.pc = "ended" /\ next.answer = e /\ next.attempt = r.attempt
        /\ next.connects = r.connects /\ next.conflicts = r.conflicts
        /\ next.applied = r.applied
    BY DEF Bounded, Task
  <1> QED
    BY <1>1, <1>2 DEF TaskOK, Bounded, IsCreate, Errors

LEMMA EndedApplied ==
    ASSUME NEW t \in Tasks, Bounded(task[t]), NEW e \in {"ok", "dropped"},
           NEW a \in Nat, a <= 1
    PROVE  /\ TaskOK(t, [Ended(t, e) EXCEPT !.applied = a])
           /\ [Ended(t, e) EXCEPT !.applied = a].pc = "ended"
  <1> DEFINE now == [task[t] EXCEPT !.applied = a]
  <1>1. [Ended(t, e) EXCEPT !.applied = a] = [now EXCEPT !.pc = "ended", !.answer = e]
    BY DEF Ended, Bounded, Task
  <1>2. Bounded(now)
    BY Applying
  <1> HIDE DEF now
  <1>3. LET next == [now EXCEPT !.pc = "ended", !.answer = e] IN
        TaskOK(t, next) /\ next.pc = "ended"
    BY <1>2, Finished
  <1> QED
    BY <1>1, <1>3

LEMMA RetryKeeps ==
    ASSUME StorageInv, NEW t \in Tasks, IsCreate(t), task[t].pc = "query",
           NEW e \in Errors, NEW a \in Nat, a <= 1, RetryOrGiveUp(t, e, a),
           UNCHANGED <<mode, handles, alive>>, faults' \in 0..MaxFaults
    PROVE  StorageInv'
  <1> DEFINE now == [task[t] EXCEPT !.applied = a]
  <1>0. Bounded(task[t]) /\ TaskOK(t, task[t])
    BY DEF StorageInv, TaskInv, TaskOK
  <1>1. /\ Bounded(now) /\ now.pc = "query" /\ now.answer # "not_executed"
        /\ now.attempt = task[t].attempt
    BY <1>0, Applying DEF TaskOK
  <1>2. \/ Becomes(t, [now EXCEPT !.pc = "ended", !.answer = e]) /\ UNCHANGED cell
        \/ /\ now.attempt + 1 < MaxRetries
           /\ Becomes(t, [now EXCEPT !.pc = "sleep"]) /\ UNCHANGED cell
        \/ /\ now.attempt + 1 < MaxRetries
           /\ Becomes(t, [now EXCEPT !.pc = "connect", !.connects = 0])
           /\ cell' = Reconnecting
    <2>1. ~(task[t].attempt + 1 >= MaxRetries) => task[t].attempt + 1 < MaxRetries
      BY <1>0, StorageAssumption DEF Bounded, Task
    <2> QED
      BY <1>1, <2>1 DEF RetryOrGiveUp
  <1> HIDE DEF now
  <1>3. NeedsPermit(t) => HoldsPermit(t)
    BY DEF HoldsPermit
  <1>4. CASE Becomes(t, [now EXCEPT !.pc = "ended", !.answer = e]) /\ UNCHANGED cell
    <2>1. TaskOK(t, [now EXCEPT !.pc = "ended", !.answer = e])
      BY <1>1, Finished
    <2>2. TaskInv' /\ PermitInv' /\ \A u \in Tasks \ {t} : task'[u] = task[u]
      BY <1>3, <1>4, <2>1, OneTask DEF StorageInv
    <2>3. NeverStranded'
      BY <1>4, <2>2, OneCell DEF StorageInv, ConnectionInv
    <2> QED
      BY <1>4, <2>2, <2>3 DEF StorageInv, ConnectionInv, CellInv
  <1>5. CASE /\ now.attempt + 1 < MaxRetries
             /\ Becomes(t, [now EXCEPT !.pc = "sleep"]) /\ UNCHANGED cell
    <2>1. TaskOK(t, [now EXCEPT !.pc = "sleep"])
      BY <1>1, <1>5 DEF TaskOK, Bounded, IsCreate, Task
    <2>2. TaskInv' /\ PermitInv' /\ \A u \in Tasks \ {t} : task'[u] = task[u]
      BY <1>3, <1>5, <2>1, OneTask DEF StorageInv
    <2>3. NeverStranded'
      BY <1>5, <2>2, OneCell DEF StorageInv, ConnectionInv
    <2> QED
      BY <1>5, <2>2, <2>3 DEF StorageInv, ConnectionInv, CellInv
  <1>6. CASE /\ now.attempt + 1 < MaxRetries
             /\ Becomes(t, [now EXCEPT !.pc = "connect", !.connects = 0])
             /\ cell' = Reconnecting
    <2> DEFINE next == [now EXCEPT !.pc = "connect", !.connects = 0]
    <2>1. next \in Task
      BY <1>1 DEF Bounded, Task
    <2>2. /\ next.pc = "connect" /\ next.answer = now.answer /\ next.attempt = now.attempt
          /\ next.connects = 0 /\ next.conflicts = now.conflicts /\ next.applied = now.applied
      BY <1>1 DEF Bounded, Task
    <2>3. TaskOK(t, next)
      BY <1>1, <1>6, <2>1, <2>2, StorageAssumption DEF TaskOK, Bounded, IsCreate
    <2>4. /\ TaskInv' /\ PermitInv' /\ \A u \in Tasks \ {t} : task'[u] = task[u]
          /\ task'[t] = next
      BY <1>3, <1>6, <2>3, OneTask DEF StorageInv
    <2>5. NeverStranded'
      BY <2>2, <2>4, OneCell DEF StorageInv, ConnectionInv
    <2>6. CellInv'
      BY <1>6 DEF StorageInv, ConnectionInv, CellInv, Reconnecting
    <2> QED
      BY <2>4, <2>5, <2>6 DEF StorageInv, ConnectionInv
  <1> QED
    BY <1>2, <1>4, <1>5, <1>6

LEMMA Spent ==
    ASSUME ConnectionInv
    PROVE  (Spend \/ UNCHANGED faults) => faults' \in 0..MaxFaults
  BY StorageAssumption DEF ConnectionInv, Spend

LEMMA CreateAnswersKeeps ==
    ASSUME StorageInv, NEW t \in Tasks, CreateAnswers(t)
    PROVE  StorageInv'
  <1>0. /\ Bounded(task[t]) /\ IsCreate(t) /\ task[t].pc = "query"
        /\ task[t].applied \in Nat /\ task[t].applied <= 1
    BY DEF StorageInv, TaskInv, TaskOK, Bounded, CreateAnswers, Task
  <1>1. CASE Becomes(t, [Ended(t, "ok") EXCEPT !.applied = 1]) /\ UNCHANGED <<cell, faults>>
    <2>1. TaskOK(t, [Ended(t, "ok") EXCEPT !.applied = 1])
      BY <1>0, EndedApplied
    <2>2. NeedsPermit(t) => HoldsPermit(t)
      BY <1>0 DEF HoldsPermit
    <2>3. TaskInv' /\ PermitInv' /\ \A u \in Tasks \ {t} : task'[u] = task[u]
      BY <1>1, <2>1, <2>2, OneTask DEF StorageInv, CreateAnswers
    <2>4. NeverStranded'
      BY <1>0, <1>1, <2>3, OneCell DEF StorageInv, ConnectionInv
    <2> QED
      BY <1>1, <2>3, <2>4 DEF CreateAnswers, StorageInv, ConnectionInv, CellInv
  <1>2. CASE \E e \in Errors, a \in Nat :
               a <= 1 /\ RetryOrGiveUp(t, e, a) /\ (Spend \/ UNCHANGED faults)
    BY <1>0, <1>2, RetryKeeps, Spent DEF CreateAnswers, StorageInv
  <1> QED
    BY <1>0, <1>1, <1>2 DEF CreateAnswers, Errors

LEMMA ConnectKeeps ==
    ASSUME StorageInv, NEW t \in Tasks, ConnectOk(t) \/ ConnectFails(t)
    PROVE  StorageInv'
  <1>0. /\ Bounded(task[t]) /\ TaskOK(t, task[t]) /\ task[t].pc = "connect"
        /\ IsCreate(t) /\ (NeedsPermit(t) => HoldsPermit(t))
    BY DEF StorageInv, TaskInv, TaskOK, Bounded, IsCreate, ConnectOk, ConnectFails, HoldsPermit
  <1>1. /\ TaskOK(t, [task[t] EXCEPT !.pc = "sleep"])
        /\ task[t].connects < ReconnectAttempts
             => TaskOK(t, [task[t] EXCEPT !.connects = @ + 1])
    BY <1>0, StorageAssumption DEF TaskOK, Bounded, IsCreate, Task
  <1>2. CASE ConnectOk(t)
    <2>1. TaskInv' /\ PermitInv' /\ \A u \in Tasks \ {t} : task'[u] = task[u]
      BY <1>0, <1>1, <1>2, OneTask DEF StorageInv, ConnectOk
    <2>2. CellInv' /\ NeverStranded' /\ handles' \in Nat /\ alive' \subseteq 1..handles'
      BY <1>2 DEF ConnectOk, StorageInv, ConnectionInv, CellInv, NeverStranded,
                  Connected, Reconnecting
    <2> QED
      BY <1>2, <2>1, <2>2 DEF ConnectOk, StorageInv, ConnectionInv
  <1>3. CASE ConnectFails(t) /\ task[t].connects < ReconnectAttempts
    <2>1. /\ TaskInv' /\ PermitInv' /\ \A u \in Tasks \ {t} : task'[u] = task[u]
          /\ task'[t] = [task[t] EXCEPT !.connects = @ + 1]
      BY <1>0, <1>1, <1>3, OneTask DEF StorageInv, ConnectFails
    <2>2. task'[t].pc = "connect"
      BY <1>0, <2>1 DEF Task
    <2>3. NeverStranded'
      BY <2>1, <2>2, OneCell DEF StorageInv, ConnectionInv
    <2>4. faults' \in 0..MaxFaults
      BY <1>3, Spent DEF ConnectFails, StorageInv
    <2> QED
      BY <1>3, <2>1, <2>3, <2>4 DEF ConnectFails, StorageInv, ConnectionInv, CellInv
  <1>4. CASE ConnectFails(t) /\ ~(task[t].connects < ReconnectAttempts)
    <2>1. TaskInv' /\ PermitInv' /\ \A u \in Tasks \ {t} : task'[u] = task[u]
      BY <1>0, <1>1, <1>4, OneTask DEF StorageInv, ConnectFails
    <2>2. CellInv' /\ NeverStranded'
      BY <1>4 DEF ConnectFails, StorageInv, ConnectionInv, CellInv, NeverStranded,
                  Failed, Reconnecting
    <2>3. faults' \in 0..MaxFaults
      BY <1>4, Spent DEF ConnectFails, StorageInv
    <2> QED
      BY <1>4, <2>1, <2>2, <2>3 DEF ConnectFails, StorageInv, ConnectionInv
  <1> QED
    BY <1>2, <1>3, <1>4

LEMMA WakesKeeps ==
    ASSUME StorageInv, NEW t \in Tasks, Wakes(t)
    PROVE  StorageInv'
  <1> DEFINE next == IF IsCreate(t) THEN [Attempt(t) EXCEPT !.attempt = @ + 1]
                     ELSE [task[t] EXCEPT !.pc = "query"]
  <1>0. Bounded(task[t]) /\ TaskOK(t, task[t]) /\ (NeedsPermit(t) => HoldsPermit(t))
    BY DEF StorageInv, TaskInv, TaskOK, Bounded, IsCreate, Wakes, HoldsPermit
  <1>1. TaskOK(t, next)
    <2>1. CASE IsCreate(t)
      BY <1>0, <2>1, Attempted, StorageAssumption DEF Wakes, TaskOK, Bounded, IsCreate, Task
    <2>2. CASE ~IsCreate(t)
      BY <1>0, <2>2 DEF Wakes, TaskOK, Bounded, IsCreate, Task
    <2> QED
      BY <2>1, <2>2
  <1>2. TaskInv' /\ PermitInv' /\ \A u \in Tasks \ {t} : task'[u] = task[u]
    BY <1>0, <1>1, OneTask DEF Wakes, StorageInv
  <1>3. NeverStranded'
    BY <1>2, OneCell DEF Wakes, StorageInv, ConnectionInv
  <1> QED
    BY <1>2, <1>3 DEF Wakes, StorageInv, ConnectionInv, CellInv

\* A write neither holds a permit nor connects.
LEMMA WriteStep ==
    ASSUME StorageInv, NEW t \in Tasks, ~NeedsPermit(t), task[t].pc = "query",
           NEW next, TaskOK(t, next), Becomes(t, next),
           UNCHANGED <<mode, cell, handles, alive>>, faults' \in 0..MaxFaults
    PROVE  StorageInv'
  <1>1. TaskInv' /\ PermitInv' /\ \A u \in Tasks \ {t} : task'[u] = task[u]
    BY OneTask DEF StorageInv
  <1>2. NeverStranded'
    BY <1>1, OneCell DEF StorageInv, ConnectionInv
  <1> QED
    BY <1>1, <1>2 DEF StorageInv, ConnectionInv, CellInv

\* A write is resubmitted only after a conflict, which has applied nothing.
LEMMA ResubmitKeeps ==
    ASSUME StorageInv, NEW t \in Tasks, ~IsCreate(t), task[t].pc = "query",
           NEW now, Bounded(now), now.answer # "not_executed", NEW e \in Errors,
           e = "conflict" => now.applied = 0,
           Resubmit(t, now, e),
           UNCHANGED <<mode, cell, handles, alive>>, faults' \in 0..MaxFaults
    PROVE  StorageInv'
  <1>0. ~NeedsPermit(t)
    BY DEF NeedsPermit
  <1>1. CASE Becomes(t, [now EXCEPT !.pc = "ended", !.answer = e])
    <2>1. TaskOK(t, [now EXCEPT !.pc = "ended", !.answer = e])
      BY Finished
    <2> QED
      BY <1>0, <1>1, <2>1, WriteStep
  <1>2. CASE /\ e = "conflict" /\ now.conflicts + 1 < MaxConflicts
             /\ Becomes(t, [now EXCEPT !.pc = "sleep", !.conflicts = @ + 1])
    <2> DEFINE next == [now EXCEPT !.pc = "sleep", !.conflicts = @ + 1]
    <2>0. now \in Task /\ now.conflicts + 1 \in Nat
      BY DEF Bounded, Task
    <2>1. next \in Task
      <3>1. ASSUME NEW n \in Nat
            PROVE  [now EXCEPT !.pc = "sleep", !.conflicts = n] \in Task
        BY <2>0 DEF Task
      <3> QED
        BY <2>0, <3>1
    <2>2. /\ next.pc = "sleep" /\ next.answer = now.answer /\ next.attempt = now.attempt
          /\ next.connects = now.connects /\ next.conflicts = now.conflicts + 1
          /\ next.applied = now.applied
      BY DEF Bounded, Task
    <2>3. TaskOK(t, next)
      BY <1>2, <2>1, <2>2 DEF TaskOK, Bounded, IsCreate
    <2> QED
      BY <1>0, <1>2, <2>3, WriteStep
  <1> QED
    BY <1>1, <1>2 DEF Resubmit, IsRetryableConflict

LEMMA WriteAnswersKeeps ==
    ASSUME StorageInv, NEW t \in Tasks, WriteAnswers(t)
    PROVE  StorageInv'
  <1>0. /\ Bounded(task[t]) /\ task[t].answer # "not_executed" /\ ~NeedsPermit(t)
        /\ ~IsCreate(t) /\ task[t].pc = "query"
        /\ task[t].applied = 0 /\ Apply(t) = 1
    <2>1. TaskOK(t, task[t]) /\ ~IsCreate(t) /\ task[t].pc = "query"
      BY DEF StorageInv, TaskInv, WriteAnswers
    <2> QED
      BY <2>1 DEF TaskOK, IsCreate, Apply, NeedsPermit
  <1>1. ASSUME NEW r \in Response,
               LET e   == SelectStatementError(r.errs)
                   now == [task[t] EXCEPT !.applied = IF r.applied THEN Apply(t) ELSE @]
               IN  IF e = "none"
                   THEN Becomes(t, [now EXCEPT !.pc = "ended", !.answer = "ok"])
                        /\ UNCHANGED faults
                   ELSE Resubmit(t, now, e) /\ Spend
        PROVE  StorageInv'
    <2> DEFINE e   == SelectStatementError(r.errs)
               now == [task[t] EXCEPT !.applied = IF r.applied THEN Apply(t) ELSE @]
    <2>1. /\ e \in {"none", "conflict", "real"}
          /\ e = "none" <=> r.applied
      BY CauseFound
    <2>2. /\ Bounded(now) /\ now.answer # "not_executed"
          /\ ~r.applied => now.applied = 0
      <3>1. now = [task[t] EXCEPT !.applied = IF r.applied THEN 1 ELSE 0]
        BY <1>0
      <3>2. (IF r.applied THEN 1 ELSE 0) \in Nat /\ (IF r.applied THEN 1 ELSE 0) <= 1
        OBVIOUS
      <3> QED
        BY <1>0, <3>1, <3>2, Applying
    <2>3. IF e = "none"
          THEN Becomes(t, [now EXCEPT !.pc = "ended", !.answer = "ok"]) /\ UNCHANGED faults
          ELSE Resubmit(t, now, e) /\ Spend
      BY <1>1
    <2>4. UNCHANGED <<mode, cell, handles, alive>>
      BY DEF WriteAnswers
    <2>5. faults' \in 0..MaxFaults
      BY <2>3, Spent DEF StorageInv
    <2> HIDE DEF e, now
    <2>6. CASE e = "none"
      <3>1. TaskOK(t, [now EXCEPT !.pc = "ended", !.answer = "ok"])
        BY <2>2, Finished
      <3> QED
        BY <1>0, <2>3, <2>4, <2>5, <2>6, <3>1, WriteStep
    <2>7. CASE e # "none"
      <3>1. e \in Errors
        BY <2>1, <2>7 DEF Errors
      <3> QED
        BY <1>0, <2>1, <2>2, <2>3, <2>4, <2>5, <2>7, <3>1, ResubmitKeeps
    <2> QED
      BY <2>6, <2>7
  <1>2. ASSUME NEW a \in {0, 1}, Resubmit(t, [task[t] EXCEPT !.applied = a], "lost"),
               UNCHANGED faults
        PROVE  StorageInv'
    <2> DEFINE now == [task[t] EXCEPT !.applied = a]
    <2>1. Bounded(now) /\ now.answer # "not_executed"
      BY <1>0, Applying
    <2>2. Resubmit(t, now, "lost")
      BY <1>2
    <2>3. UNCHANGED <<mode, cell, handles, alive>> /\ faults' \in 0..MaxFaults
      BY <1>2 DEF WriteAnswers, StorageInv, ConnectionInv
    <2>4. "lost" \in Errors /\ "lost" # "conflict"
      BY DEF Errors
    <2> HIDE DEF now
    <2> QED
      BY <1>0, <2>1, <2>2, <2>3, <2>4, ResubmitKeeps
  <1> QED
    BY <1>0, <1>1, <1>2 DEF WriteAnswers

LEMMA DroppedKeeps ==
    ASSUME StorageInv, NEW t \in Tasks, Dropped(t)
    PROVE  StorageInv'
  <1>0. Bounded(task[t]) /\ TaskOK(t, task[t])
    BY DEF StorageInv, TaskInv, TaskOK
  <1>1. PICK a \in {task[t].applied} \cup (IF task[t].pc = "query" THEN {Apply(t)} ELSE {}) :
          Becomes(t, [Ended(t, "dropped") EXCEPT !.applied = a])
    BY DEF Dropped
  <1>2. a \in Nat /\ a <= 1
    BY <1>0 DEF TaskOK, Bounded, Task, Apply, IsCreate
  <1>3. /\ TaskOK(t, [Ended(t, "dropped") EXCEPT !.applied = a])
        /\ [Ended(t, "dropped") EXCEPT !.applied = a].pc = "ended"
    BY <1>0, <1>2, EndedApplied
  <1>4. TaskInv' /\ PermitInv' /\ \A u \in Tasks \ {t} : task'[u] = task[u]
    BY <1>1, <1>3, OneTask DEF Dropped, StorageInv, Holding
  <1>5. cell' \in {cell, Failed} /\ (task[t].pc = "connect" => cell' # Reconnecting)
    BY DEF Dropped, Guard, Failed, Reconnecting
  <1>6. NeverStranded'
    BY <1>4, <1>5, OneCell DEF StorageInv, ConnectionInv
  <1>7. CellInv'
    BY <1>5 DEF Dropped, StorageInv, ConnectionInv, CellInv, Failed
  <1>8. faults' \in 0..MaxFaults
    BY Spent DEF Dropped, StorageInv
  <1> QED
    BY <1>4, <1>6, <1>7, <1>8 DEF Dropped, StorageInv, ConnectionInv

LEMMA TransportKeeps ==
    ASSUME StorageInv, NEW h \in alive, TransportLost(h)
    PROVE  StorageInv'
  <1>1. faults' \in 0..MaxFaults
    BY Spent DEF TransportLost, StorageInv
  <1>2. PermitInv' /\ TaskInv'
    BY DEF TransportLost, StorageInv, PermitInv, TaskInv, TaskOK, Holders, HoldsPermit,
           NeedsPermit, IsCreate
  <1> QED
    BY <1>1, <1>2 DEF TransportLost, StorageInv, ConnectionInv, CellInv, NeverStranded

LEMMA StorageKeeps ==
    ASSUME StorageInv, StorageNext
    PROVE  StorageInv'
  BY StartKeeps, GetPermitKeeps, CreateAnswersKeeps, ConnectKeeps, WakesKeeps,
     WriteAnswersKeeps, DroppedKeeps, TransportKeeps DEF StorageNext, TaskStep

-----------------------------------------------------------------------------
(* A step of one caller of the ledger *)

\* A caller moves on, and with it the lock and the published connection: the
\* others stay as they may be, because only the holder of the lock publishes.
LEMMA OneCaller ==
    ASSUME LedgerInv, NEW c \in Callers, Moves(c), Turn(c)
    PROVE  LedgerInv'
  <1>0. PICK next : caller' = [caller EXCEPT ![c] = next] /\ CallerOK(c, next, conn', lock')
    BY DEF Moves
  <1>1. caller' = [d \in Callers |-> IF d = c THEN next ELSE caller[d]]
    BY <1>0 DEF LedgerInv
  <1>2. ASSUME NEW d \in Callers, d # c
        PROVE  CallerOK(d, caller[d], conn', lock')
    <2>1. CallerOK(d, caller[d], conn, lock)
      BY DEF LedgerInv
    <2>2. caller[d].pc \in {"first", "replace"} => lock = d /\ lock' = d /\ conn' = conn
      BY <1>2, <2>1, LedgerConnectionAssumption DEF CallerOK, Turn
    <2>3. conn.gen <= conn'.gen /\ conn.gen \in Nat /\ conn'.gen \in Nat
      BY DEF LedgerInv, Turn
    <2> QED
      BY <2>1, <2>2, <2>3 DEF CallerOK, Caller
  <1>3. conn' \in [gen : Nat, handle : Nat] /\ (conn'.handle = 0 => conn'.gen = 0)
    BY DEF LedgerInv, Turn
  <1>4. lock' \in Callers \cup {"free"} /\ conn'.handle <= handles'
    BY DEF LedgerInv, Turn
  <1>5. \A d \in Callers : CallerOK(d, caller'[d], conn', lock')
    BY <1>0, <1>1, <1>2
  <1> QED
    BY <1>1, <1>3, <1>4, <1>5 DEF LedgerInv

\* What is told to a caller is true of the connection published by then.
LEMMA ToldOK ==
    ASSUME NEW c \in Callers, CallerOK(c, caller[c], conn, lock),
           NEW r \in BOOLEAN, Told(c, r), conn' \in [gen : Nat, handle : Nat],
           r => caller[c].gen < conn'.gen
    PROVE  Moves(c)
  <1> DEFINE me == [caller[c] EXCEPT !.recovered = r, !.failed = caller[c].gen]
  <1>1. /\ me \in Caller /\ me.rounds <= MaxRounds /\ me.recovered = r
        /\ me.failed = caller[c].gen /\ me.gen = caller[c].gen
    BY DEF CallerOK, Caller
  <1>2. \/ caller' = [caller EXCEPT ![c] = [me EXCEPT !.pc = "idle"]]
        \/ caller' = [caller EXCEPT ![c] = [me EXCEPT !.pc = "query", !.retried = TRUE,
                                               !.gen = conn'.gen, !.handle = conn'.handle]]
    BY DEF Told
  <1> HIDE DEF me
  <1>3. CallerOK(c, [me EXCEPT !.pc = "idle"], conn', lock')
    BY <1>1 DEF CallerOK, Caller
  <1>4. CallerOK(c, [me EXCEPT !.pc = "query", !.retried = TRUE, !.gen = conn'.gen,
                             !.handle = conn'.handle], conn', lock')
    <2> DEFINE next == [me EXCEPT !.pc = "query", !.retried = TRUE, !.gen = conn'.gen,
                                  !.handle = conn'.handle]
    <2>1. next \in Caller
      BY <1>1 DEF Caller
    <2>2. /\ next.pc = "query" /\ next.gen = conn'.gen /\ next.recovered = r
          /\ next.failed = me.failed /\ next.rounds = me.rounds
      BY <1>1 DEF Caller
    <2> QED
      BY <1>1, <2>1, <2>2 DEF CallerOK
  <1> QED
    BY <1>2, <1>3, <1>4 DEF Moves

\* A caller takes the published connection.
LEMMA UseOK ==
    ASSUME NEW c, NEW r \in Caller, r.rounds <= MaxRounds, NEW l,
           NEW k \in [gen : Nat, handle : Nat], r.recovered => r.failed < k.gen
    PROVE  CallerOK(c, [r EXCEPT !.pc = "query", !.gen = k.gen, !.handle = k.handle], k, l)
  <1> DEFINE next == [r EXCEPT !.pc = "query", !.gen = k.gen, !.handle = k.handle]
  <1>1. next \in Caller
    BY DEF Caller
  <1>2. /\ next.pc = "query" /\ next.gen = k.gen /\ next.recovered = r.recovered
        /\ next.failed = r.failed /\ next.rounds = r.rounds
    BY DEF Caller
  <1> QED
    BY <1>1, <1>2 DEF CallerOK

\* A caller is at rest, waits for the lock, or gives up its query.
LEMMA MoveOK ==
    ASSUME NEW c, NEW r \in Caller, r.rounds <= MaxRounds, NEW l,
           NEW k \in [gen : Nat, handle : Nat], r.recovered => r.failed < k.gen,
           NEW pc \in {"idle", "lock", "recover"}, pc = "recover" => r.gen <= k.gen
    PROVE  CallerOK(c, [r EXCEPT !.pc = pc], k, l)
  <1>1. [r EXCEPT !.pc = pc] \in Caller
    BY DEF Caller
  <1> QED
    BY <1>1 DEF CallerOK, Caller

LEMMA CallKeeps ==
    ASSUME IInv, NEW c \in Callers, Call(c)
    PROVE  LedgerInv'
  <1>0. CallerOK(c, caller[c], conn, lock) /\ conn \in [gen : Nat, handle : Nat]
        /\ caller[c] \in Caller /\ caller[c].pc = "idle" /\ handles \in Nat
        /\ conn.handle <= handles
    BY DEF IInv, LedgerInv, CallerOK, Call, StorageInv, ConnectionInv
  <1> DEFINE n  == IF c = Reconciler THEN 0 ELSE caller[c].rounds + 1
             me == [caller[c] EXCEPT !.recovered = FALSE, !.failed = 0,
                                     !.retried = FALSE, !.rounds = n]
             used == [me EXCEPT !.pc = "query", !.gen = conn.gen, !.handle = conn.handle]
             lined == [me EXCEPT !.pc = "lock"]
  <1>1. caller' = [caller EXCEPT ![c] = IF IsOpen THEN used ELSE lined]
        /\ UNCHANGED <<conn, lock, handles>>
    BY DEF Call, NoNewHandle
  <1>2. n \in Nat /\ n <= MaxRounds
    BY <1>0, LedgerConnectionAssumption DEF Call, Caller
  <1> HIDE DEF n
  <1>3. me \in Caller /\ me.rounds = n /\ ~me.recovered
    BY <1>0, <1>2 DEF Caller
  <1> HIDE DEF me
  <1>4. CallerOK(c, used, conn, lock) /\ CallerOK(c, lined, conn, lock)
    BY <1>0, <1>2, <1>3, UseOK, MoveOK
  <1> HIDE DEF used, lined
  <1>5. Moves(c)
    <2>1. conn' = conn /\ lock' = lock
      BY <1>1
    <2> QED
      BY <1>1, <1>4, <2>1 DEF Moves
  <1>6. Turn(c)
    BY <1>0, <1>1 DEF Turn
  <1> QED
    BY <1>5, <1>6, OneCaller DEF IInv

LEMMA LockForFirstKeeps ==
    ASSUME IInv, NEW c \in Callers, LockForFirst(c)
    PROVE  LedgerInv'
  <1>0. /\ CallerOK(c, caller[c], conn, lock) /\ conn \in [gen : Nat, handle : Nat]
        /\ caller[c] \in Caller /\ handles \in Nat /\ conn.handle <= handles
        /\ caller[c].rounds <= MaxRounds /\ lock = "free"
        /\ UNCHANGED <<conn, handles>>
    BY DEF IInv, LedgerInv, CallerOK, LockForFirst, StorageInv, ConnectionInv, NoNewHandle
  <1>1. CASE Use(c, conn) /\ UNCHANGED lock
    <2> DEFINE next == [caller[c] EXCEPT !.pc = "query", !.gen = conn.gen,
                                         !.handle = conn.handle]
    <2>0. /\ caller[c].recovered => caller[c].failed < conn.gen
          /\ conn' = conn
      BY <1>0 DEF CallerOK
    <2>1. CallerOK(c, next, conn', lock')
      BY <1>0, <2>0, UseOK
    <2>2. caller' = [caller EXCEPT ![c] = next]
      BY <1>1 DEF Use, IInv, LedgerInv
    <2> HIDE DEF next
    <2>3. Moves(c)
      BY <2>1, <2>2 DEF Moves
    <2>4. Turn(c)
      BY <1>0, <1>1 DEF Turn
    <2> QED
      BY <2>3, <2>4, OneCaller DEF IInv
  <1>2. CASE ~IsOpen /\ Goto(c, "first") /\ lock' = c
    <2> DEFINE next == [caller[c] EXCEPT !.pc = "first"]
    <2>1. conn = NoConnection
      BY <1>0, <1>2 DEF IsOpen, NoConnection, IInv, LedgerInv
    <2>2. next \in Caller /\ next.pc = "first" /\ next.rounds = caller[c].rounds
          /\ next.recovered = caller[c].recovered /\ next.failed = caller[c].failed
      BY <1>0 DEF Caller
    <2>3. CallerOK(c, next, conn', lock')
      BY <1>0, <1>2, <2>1, <2>2 DEF CallerOK
    <2>4. caller' = [caller EXCEPT ![c] = next]
      BY <1>2 DEF Goto, IInv, LedgerInv
    <2> HIDE DEF next
    <2>5. Moves(c)
      BY <2>3, <2>4 DEF Moves
    <2>6. Turn(c)
      BY <1>0, <1>2 DEF Turn
    <2> QED
      BY <2>5, <2>6, OneCaller DEF IInv
  <1> QED
    BY <1>1, <1>2 DEF LockForFirst

\* What operation_ledger_connection() returns is open.
LEMMA ConnectsOpen ==
    ASSUME StorageInv, NEW h, Connects(h)
    PROVE  /\ h \in Nat /\ h # 0 /\ handles' \in Nat /\ handles <= handles' /\ h <= handles'
           /\ alive' \subseteq 1..handles'
  <1>0. handles \in Nat /\ alive \subseteq 1..handles /\ CellInv
    BY DEF StorageInv, ConnectionInv
  <1>1. CASE mode = "embedded"
    <2>1. cell.state = "connected" /\ h = cell.handle /\ UNCHANGED <<handles, alive>>
      BY <1>1 DEF Connects, NoNewHandle
    <2>2. h \in Nat /\ h # 0 /\ h <= handles
      BY <1>0, <2>1 DEF CellInv
    <2> QED
      BY <1>0, <2>1, <2>2
  <1>2. CASE mode # "embedded"
    <2>1. h = handles + 1 /\ handles' = h /\ alive' = alive \cup {h}
      BY <1>2 DEF Connects
    <2> QED
      BY <1>0, <2>1
  <1> QED
    BY <1>1, <1>2

LEMMA FirstConnectedKeeps ==
    ASSUME IInv, NEW c \in Callers, FirstConnected(c)
    PROVE  LedgerInv'
  <1>0. /\ caller[c] \in Caller /\ caller[c].rounds <= MaxRounds /\ lock = c
        /\ conn = NoConnection /\ ~caller[c].recovered /\ lock' = "free"
    BY DEF IInv, LedgerInv, CallerOK, FirstConnected, NoConnection, Caller
  <1>1. PICK h : Connects(h) /\ conn' = [gen |-> 0, handle |-> h] /\ Use(c, conn')
    BY DEF FirstConnected
  <1>2. /\ h \in Nat /\ h # 0 /\ handles' \in Nat /\ handles <= handles' /\ h <= handles'
        /\ handles \in Nat
    BY <1>1, ConnectsOpen DEF IInv, StorageInv, ConnectionInv
  <1>3. /\ conn' \in [gen : Nat, handle : Nat] /\ conn'.handle # 0 /\ conn'.handle <= handles'
        /\ conn.gen <= conn'.gen
    BY <1>0, <1>1, <1>2 DEF NoConnection
  <1> DEFINE next == [caller[c] EXCEPT !.pc = "query", !.gen = conn'.gen,
                                       !.handle = conn'.handle]
  <1>4. CallerOK(c, next, conn', lock')
    BY <1>0, <1>3, UseOK
  <1>5. caller' = [caller EXCEPT ![c] = next]
    BY <1>1 DEF Use, IInv, LedgerInv
  <1> HIDE DEF next
  <1>6. Moves(c)
    BY <1>4, <1>5 DEF Moves
  <1>7. Turn(c)
    BY <1>0, <1>2, <1>3 DEF Turn
  <1> QED
    BY <1>6, <1>7, OneCaller DEF IInv

\* A caller gives up the lock, or has never had it, and opens nothing.
LEMMA MovesOnly ==
    ASSUME IInv, NEW c \in Callers, UNCHANGED <<conn, handles>>,
           NEW pc \in {"idle", "recover"}, Goto(c, pc),
           pc = "recover" => caller[c].pc = "query",
           lock' \in {lock, "free"}, lock' # lock => lock = c
    PROVE  LedgerInv'
  <1>0. /\ CallerOK(c, caller[c], conn, lock) /\ conn \in [gen : Nat, handle : Nat]
        /\ caller[c] \in Caller /\ caller[c].rounds <= MaxRounds
        /\ handles \in Nat /\ conn.handle <= handles
    BY DEF IInv, LedgerInv, CallerOK, StorageInv, ConnectionInv
  <1> DEFINE next == [caller[c] EXCEPT !.pc = pc]
  <1>1. CallerOK(c, next, conn', lock')
    <2>1. /\ caller[c].recovered => caller[c].failed < conn.gen
          /\ pc = "recover" => caller[c].gen <= conn.gen
      BY <1>0 DEF CallerOK
    <2>2. CallerOK(c, next, conn, lock')
      BY <1>0, <2>1, MoveOK
    <2> QED
      BY <2>2
  <1>2. caller' = [caller EXCEPT ![c] = next]
    BY DEF Goto, IInv, LedgerInv
  <1> HIDE DEF next
  <1>3. Moves(c)
    BY <1>1, <1>2 DEF Moves
  <1>4. Turn(c)
    BY <1>0 DEF Turn
  <1> QED
    BY <1>3, <1>4, OneCaller DEF IInv

LEMMA ReplaceKeeps ==
    ASSUME IInv, NEW c \in Callers, Replace(c)
    PROVE  LedgerInv'
  <1>0. /\ CallerOK(c, caller[c], conn, lock) /\ conn \in [gen : Nat, handle : Nat]
        /\ caller[c] \in Caller /\ caller[c].rounds <= MaxRounds
        /\ caller[c].gen <= conn.gen /\ caller[c].pc = "recover"
        /\ handles \in Nat /\ conn.handle <= handles /\ UNCHANGED <<conn, handles>>
    BY DEF IInv, LedgerInv, CallerOK, StorageInv, ConnectionInv, Replace, NoNewHandle
  <1>1. ASSUME NEW r \in BOOLEAN, Told(c, r), UNCHANGED lock, r => conn.gen # caller[c].gen
        PROVE  LedgerInv'
    <2>1. r => caller[c].gen < conn'.gen
      BY <1>0, <1>1 DEF Caller
    <2>2. conn' \in [gen : Nat, handle : Nat]
      BY <1>0
    <2>3. Moves(c)
      BY <1>0, <1>1, <2>1, <2>2, ToldOK
    <2>4. Turn(c)
      BY <1>0, <1>1 DEF Turn
    <2> QED
      BY <2>3, <2>4, OneCaller DEF IInv
  <1>2. CASE lock = "free" /\ conn.gen = caller[c].gen /\ Goto(c, "replace") /\ lock' = c
    <2> DEFINE next == [caller[c] EXCEPT !.pc = "replace"]
    <2>1. /\ next \in Caller /\ next.pc = "replace" /\ next.rounds = caller[c].rounds
          /\ next.recovered = caller[c].recovered /\ next.failed = caller[c].failed
          /\ next.gen = caller[c].gen
      BY <1>0 DEF Caller
    <2>2. CallerOK(c, next, conn', lock')
      BY <1>0, <1>2, <2>1 DEF CallerOK
    <2>3. caller' = [caller EXCEPT ![c] = next]
      BY <1>2 DEF Goto, IInv, LedgerInv
    <2> HIDE DEF next
    <2>4. Moves(c)
      BY <2>2, <2>3 DEF Moves
    <2>5. Turn(c)
      BY <1>0, <1>2 DEF Turn
    <2> QED
      BY <2>4, <2>5, OneCaller DEF IInv
  <1> QED
    BY <1>1, <1>2 DEF Replace

LEMMA ReplacedKeeps ==
    ASSUME IInv, NEW c \in Callers, Replaced(c)
    PROVE  LedgerInv'
  <1>0. /\ CallerOK(c, caller[c], conn, lock) /\ conn \in [gen : Nat, handle : Nat]
        /\ caller[c] \in Caller /\ caller[c].gen = conn.gen /\ lock = c
        /\ Told(c, TRUE) /\ lock' = "free"
    BY DEF IInv, LedgerInv, CallerOK, Replaced
  <1>1. PICK h : Connects(h) /\ conn' = [gen |-> caller[c].gen + 1, handle |-> h]
    BY DEF Replaced
  <1>2. /\ h \in Nat /\ h # 0 /\ handles' \in Nat /\ handles <= handles' /\ h <= handles'
        /\ handles \in Nat
    BY <1>1, ConnectsOpen DEF IInv, StorageInv, ConnectionInv
  <1>3. /\ conn' \in [gen : Nat, handle : Nat] /\ conn'.handle # 0 /\ conn'.handle <= handles'
        /\ conn.gen < conn'.gen
    BY <1>0, <1>1, <1>2
  <1>4. Moves(c)
    BY <1>0, <1>3, ToldOK
  <1>5. Turn(c)
    <2>1. conn.gen <= conn'.gen
      BY <1>0, <1>3
    <2> QED
      BY <1>0, <1>2, <1>3, <2>1 DEF Turn
  <1> QED
    BY <1>4, <1>5, OneCaller DEF IInv

LEMMA ReplaceFailsKeeps ==
    ASSUME IInv, NEW c \in Callers, ReplaceFails(c)
    PROVE  LedgerInv'
  <1>0. /\ CallerOK(c, caller[c], conn, lock) /\ conn \in [gen : Nat, handle : Nat]
        /\ lock = c /\ lock' = "free" /\ Told(c, FALSE) /\ handles \in Nat
        /\ conn.handle <= handles /\ UNCHANGED <<conn, handles>>
    BY DEF IInv, LedgerInv, CallerOK, StorageInv, ConnectionInv, ReplaceFails, NoNewHandle
  <1>1. Moves(c)
    <2>1. conn' \in [gen : Nat, handle : Nat]
      BY <1>0
    <2> QED
      BY <1>0, <2>1, ToldOK
  <1>2. Turn(c)
    BY <1>0 DEF Turn
  <1> QED
    BY <1>1, <1>2, OneCaller DEF IInv

\* A caller changes nothing of the storage but the connections it opens.
LEMMA CallersKeepStorage ==
    ASSUME IInv, NEW c \in Callers, Call(c) \/ CallerStep(c)
    PROVE  StorageInv'
  <1>1. UNCHANGED <<mode, cell, permits, task>> /\ (Spend \/ UNCHANGED faults)
    BY DEF Call, CallerStep, LockForFirst, FirstConnected, FirstFails, QueryOk, QueryRefused,
           QueryFails, Replace, Replaced, ReplaceFails, StorageFrame, ConnectorFails
  <1>2. \/ UNCHANGED <<handles, alive>>
        \/ \E h : Connects(h)
    BY DEF Call, CallerStep, LockForFirst, FirstConnected, FirstFails, QueryOk, QueryRefused,
           QueryFails, Replace, Replaced, ReplaceFails, NoNewHandle
  <1>3. handles' \in Nat /\ handles <= handles' /\ alive' \subseteq 1..handles'
    <2>1. CASE UNCHANGED <<handles, alive>>
      BY <2>1 DEF IInv, StorageInv, ConnectionInv
    <2>2. CASE \E h : Connects(h)
      BY <2>2, ConnectsOpen DEF IInv
    <2> QED
      BY <1>2, <2>1, <2>2
  <1>4. faults' \in 0..MaxFaults
    BY <1>1, Spent DEF IInv, StorageInv
  <1>5. PermitInv' /\ TaskInv' /\ NeverStranded'
    BY <1>1 DEF IInv, StorageInv, ConnectionInv, PermitInv, TaskInv, TaskOK, Holders,
                HoldsPermit, NeedsPermit, IsCreate, NeverStranded, Reconnecting
  <1>6. CellInv'
    BY <1>1, <1>3 DEF IInv, StorageInv, ConnectionInv, CellInv
  <1> QED
    BY <1>1, <1>3, <1>4, <1>5, <1>6 DEF IInv, StorageInv, ConnectionInv

LEMMA CallerKeeps ==
    ASSUME IInv, NEW c \in Callers, CallerStep(c)
    PROVE  LedgerInv'
  <1>1. CASE FirstFails(c)
    <2>1. lock = c
      BY <1>1 DEF FirstFails, IInv, LedgerInv, CallerOK
    <2> QED
      BY <1>1, <2>1, MovesOnly DEF FirstFails, NoNewHandle
  <1>2. CASE QueryOk(c) \/ QueryRefused(c) \/ QueryFails(c)
    BY <1>2, MovesOnly DEF QueryOk, QueryRefused, QueryFails, NoNewHandle
  <1> QED
    BY <1>1, <1>2, LockForFirstKeeps, FirstConnectedKeeps, ReplaceKeeps, ReplacedKeeps,
       ReplaceFailsKeeps DEF CallerStep

-----------------------------------------------------------------------------
(* The invariant *)

LEMMA HandlesGrow ==
    ASSUME StorageInv, StorageNext
    PROVE  handles' \in Nat /\ handles <= handles'
  <1>0. handles \in Nat
    BY DEF StorageInv, ConnectionInv
  <1>1. CASE \E t \in Tasks : ConnectOk(t)
    BY <1>0, <1>1 DEF ConnectOk
  <1>2. CASE ~\E t \in Tasks : ConnectOk(t)
    <2>1. UNCHANGED handles
      BY <1>2 DEF StorageNext, TaskStep, Start, GetPermit, CreateAnswers, WriteAnswers,
                  ConnectFails, Wakes, Dropped, TransportLost
    <2> QED
      BY <1>0, <2>1
  <1> QED
    BY <1>1, <1>2

LEMMA InitOK ==
    ASSUME Init
    PROVE  IInv
  <1>1. PICK calls \in Workloads : InitStorage(calls) /\ InitLedger(calls)
    BY DEF Init
  <1>2. ConnectionInv
    BY <1>1, StorageAssumption DEF InitStorage, ConnectionInv, CellInv, NeverStranded,
       Connected, Reconnecting
  <1>3. TaskInv
    BY <1>1, StorageAssumption DEF InitStorage, TaskInv, TaskOK, Bounded, Task, NewTask,
       IsCreate
  <1>4. PermitInv
    <2>1. Holders = {}
      BY <1>1 DEF InitStorage, Holders, HoldsPermit, NewTask
    <2> QED
      BY <1>1, <2>1, FS_EmptySet, StorageAssumption DEF PermitInv, InitStorage
  <1>5. LedgerInv
    <2>1. NewCaller \in Caller /\ [NewCaller EXCEPT !.pc = "absent"] \in Caller
      BY DEF NewCaller, Caller
    <2>2. \A c \in Callers : CallerOK(c, caller[c], conn, lock)
      <3>1. ASSUME NEW r \in {NewCaller, [NewCaller EXCEPT !.pc = "absent"]}, NEW c \in Callers
            PROVE  CallerOK(c, r, NoConnection, "free")
        <4>1. r \in Caller
          BY <2>1
        <4>2. r.pc \in {"idle", "absent"} /\ r.rounds = 0 /\ ~r.recovered
          BY DEF NewCaller
        <4> QED
          BY <4>1, <4>2, LedgerConnectionAssumption DEF CallerOK
      <3>2. /\ conn = NoConnection /\ lock = "free"
            /\ \A c \in Callers : caller[c] \in {NewCaller, [NewCaller EXCEPT !.pc = "absent"]}
        BY <1>1 DEF InitLedger
      <3> QED
        BY <3>1, <3>2
    <2>3. conn \in [gen : Nat, handle : Nat] /\ conn.handle = 0 /\ conn.gen = 0
      BY <1>1 DEF InitLedger, NoConnection
    <2>4. handles \in Nat
      BY <1>2 DEF ConnectionInv
    <2>5. lock \in Callers \cup {"free"} /\ caller = [c \in Callers |-> caller[c]]
      BY <1>1 DEF InitLedger
    <2> QED
      BY <2>2, <2>3, <2>4, <2>5 DEF LedgerInv
  <1> QED
    BY <1>2, <1>3, <1>4, <1>5 DEF IInv, StorageInv

LEMMA NextKeeps ==
    ASSUME IInv, [Next]_vars
    PROVE  IInv'
  <1>1. CASE StorageNext /\ UNCHANGED ledgerVars
    <2>1. StorageInv' /\ handles' \in Nat /\ handles <= handles'
      BY <1>1, StorageKeeps, HandlesGrow DEF IInv
    <2>2. LedgerInv'
      BY <1>1, <2>1 DEF IInv, LedgerInv, CallerOK, ledgerVars, StorageInv, ConnectionInv
    <2> QED
      BY <2>1, <2>2 DEF IInv
  <1>2. ASSUME NEW c \in Callers, Call(c) \/ CallerStep(c)
        PROVE  IInv'
    BY <1>2, CallKeeps, CallerKeeps, CallersKeepStorage DEF IInv
  <1>3. CASE UNCHANGED vars
    BY <1>3 DEF vars, IInv, StorageInv, ConnectionInv, CellInv, NeverStranded, Reconnecting,
       TaskInv, TaskOK, PermitInv, Holders, HoldsPermit, NeedsPermit, IsCreate, LedgerInv
  <1> QED
    BY <1>1, <1>2, <1>3 DEF Next

\* The invariant holds in every reachable state.
THEOREM ConnectionsInductive == Spec => []IInv
  <1>1. Init => IInv
    BY InitOK
  <1>2. IInv /\ [Next]_vars => IInv'
    BY NextKeeps
  <1> QED
    BY <1>1, <1>2, PTL DEF Spec

-----------------------------------------------------------------------------
(* What follows from it *)

\* The types of the connections: in particular, no order of dropped, failed and
\* finished calls loses a permit of the semaphore or gives one back twice.
THEOREM ConnectionTypes == Spec => []TypeOK
  <1>1. IInv => TypeOK
    <2> SUFFICES ASSUME IInv PROVE TypeOK
      OBVIOUS
    <2>1. permits \in 0..MaxInflight
      <3>1. Cardinality(Holders) \in Nat
        BY FS_CardinalityType DEF IInv, StorageInv, PermitInv
      <3> QED
        BY <3>1, StorageAssumption DEF IInv, StorageInv, PermitInv
    <2>2. StorageTypeOK
      BY <2>1 DEF IInv, StorageInv, ConnectionInv, CellInv, TaskInv, TaskOK, Bounded,
         StorageTypeOK
    <2>3. conn \in [gen : Nat, handle : 0..handles]
      BY DEF IInv, LedgerInv, StorageInv, ConnectionInv
    <2> QED
      BY <2>2, <2>3 DEF IInv, LedgerInv, CallerOK, TypeOK
  <1> QED
    BY <1>1, ConnectionsInductive, PTL

\* The cell says Reconnecting only while some call is connecting.
THEOREM CellIsNeverStranded == Spec => []NeverStranded
  <1>1. IInv => NeverStranded
    BY DEF IInv, StorageInv, ConnectionInv
  <1> QED
    BY <1>1, ConnectionsInductive, PTL

\* No retry, after a conflict, a timeout or a lost connection, applies a call twice.
THEOREM EffectsAreNotRepeated == Spec => []AppliedAtMostOnce
  <1>1. IInv => AppliedAtMostOnce
    BY DEF IInv, StorageInv, TaskInv, TaskOK, Bounded, AppliedAtMostOnce
  <1> QED
    BY <1>1, ConnectionsInductive, PTL

\* No write reports the placeholder of an aborted transaction for its cause.
THEOREM CausesAreNamed == Spec => []CauseIsNamed
  <1>1. IInv => CauseIsNamed
    BY DEF IInv, StorageInv, TaskInv, TaskOK, CauseIsNamed
  <1> QED
    BY <1>1, ConnectionsInductive, PTL

\* A caller that is told to retry finds a newer connection.
THEOREM RetriesFindNewer == Spec => []RecoveredIsNewer
  <1>1. IInv => RecoveredIsNewer
    BY DEF IInv, LedgerInv, CallerOK, Caller, RecoveredIsNewer
  <1> QED
    BY <1>1, ConnectionsInductive, PTL

\* A published connection is replaced only by its successor, for its own failure.
THEOREM ReplacementsInOrder == Spec => OnlyTheFailedIsReplaced
  <1> DEFINE A == conn' # conn /\ IsOpen =>
                    /\ conn'.gen = conn.gen + 1
                    /\ \E c \in Callers : caller[c].pc = "replace" /\ caller[c].gen = conn.gen
  <1>1. IInv /\ [Next]_vars => [A]_vars
    <2> SUFFICES ASSUME IInv, Next, conn' # conn, IsOpen
                 PROVE  /\ conn'.gen = conn.gen + 1
                        /\ \E c \in Callers : caller[c].pc = "replace"
                                                /\ caller[c].gen = conn.gen
      OBVIOUS
    <2>1. PICK c \in Callers : FirstConnected(c) \/ Replaced(c)
      BY DEF Next, ledgerVars, Call, CallerStep, LockForFirst, FirstFails, QueryOk,
         QueryRefused, QueryFails, Replace, ReplaceFails
    <2>2. CASE FirstConnected(c)
      BY <2>2 DEF FirstConnected, IInv, LedgerInv, CallerOK, IsOpen, NoConnection
    <2>3. CASE Replaced(c)
      BY <2>3 DEF Replaced, IInv, LedgerInv, CallerOK
    <2> QED
      BY <2>1, <2>2, <2>3
  <1> QED
    BY <1>1, ConnectionsInductive, PTL DEF Spec, OnlyTheFailedIsReplaced

\* The storage has no connection and no create that could still open one.
Stuck == cell = Failed /\ \A t \in Creates : task[t].pc \notin {"query", "connect"}

\* A storage that is stuck stays stuck whatever is called afterwards: a create
\* that begins then, or wakes from its backoff, gives up at live_db() before it
\* could reconnect.
THEOREM StuckForGood == Spec => [](Stuck => []Stuck)
  <1>1. IInv /\ Stuck /\ [Next]_vars => Stuck'
    <2> SUFFICES ASSUME IInv, Stuck, [Next]_vars PROVE Stuck'
      OBVIOUS
    <2>0. task = [t \in Tasks |-> task[t]] /\ Creates \subseteq Tasks
      BY StorageAssumption DEF IInv, StorageInv, TaskInv
    <2>1. cell.state = "failed" /\ cell # Reconnecting
      BY DEF Stuck, Failed, Reconnecting
    <2>2. CASE UNCHANGED storageVars
      BY <2>2 DEF Stuck, storageVars
    <2>q. ASSUME NEW t \in Tasks, NEW n, cell' = cell, task' = [task EXCEPT ![t] = n],
                 t \in Creates => n.pc \notin {"query", "connect"}
          PROVE  Stuck'
      BY <2>0, <2>q DEF Stuck
    <2>3. ASSUME NEW t \in Tasks, Start(t) \/ GetPermit(t) \/ Wakes(t) \/ Dropped(t)
          PROVE  Stuck'
      <3>0. task[t] \in Task
        BY DEF IInv, StorageInv, TaskInv, TaskOK, Bounded
      <3>1. Attempt(t).pc = "ended" /\ [Attempt(t) EXCEPT !.attempt = @ + 1].pc = "ended"
        BY <2>1, <3>0 DEF Attempt, Ended, Task
      <3>2. [task[t] EXCEPT !.pc = "permit"].pc = "permit"
        BY <3>0 DEF Task
      <3>3. CASE Start(t) \/ GetPermit(t)
        BY <2>q, <3>1, <3>2, <3>3 DEF Start, GetPermit, Becomes
      <3>4. CASE Wakes(t)
        BY <2>q, <3>1, <3>4 DEF Wakes, Becomes, IsCreate
      <3>5. CASE Dropped(t)
        <4>1. PICK a \in {task[t].applied}
                          \cup (IF task[t].pc = "query" THEN {Apply(t)} ELSE {}) :
                task' = [task EXCEPT ![t] = [Ended(t, "dropped") EXCEPT !.applied = a]]
          BY <3>5 DEF Dropped, Becomes
        <4>2. cell' = cell
          BY <2>1, <3>5 DEF Dropped, Guard
        <4>3. [Ended(t, "dropped") EXCEPT !.applied = a].pc = "ended"
          BY <3>0 DEF Ended, Task
        <4> QED
          BY <2>q, <4>1, <4>2, <4>3
      <3> QED
        BY <2>3, <3>3, <3>4, <3>5
    <2>4. ASSUME NEW t \in Tasks, CreateAnswers(t) \/ ConnectOk(t) \/ ConnectFails(t)
          PROVE  FALSE
      BY <2>4 DEF Stuck, CreateAnswers, ConnectOk, ConnectFails, IsCreate, IInv, StorageInv,
                  TaskInv, TaskOK
    <2>5. ASSUME NEW t \in Tasks, WriteAnswers(t)
          PROVE  Stuck'
      <3>1. t \notin Creates /\ cell' = cell
        BY <2>5 DEF WriteAnswers, IsCreate
      <3>2. \E n : task' = [task EXCEPT ![t] = n]
        BY <2>5 DEF WriteAnswers, Resubmit, Becomes
      <3> QED
        BY <2>q, <3>1, <3>2
    <2>6. ASSUME NEW h \in alive, TransportLost(h)
          PROVE  Stuck'
      BY <2>6 DEF TransportLost, Stuck
    <2>7. ASSUME NEW c \in Callers, Call(c) \/ CallerStep(c)
          PROVE  Stuck'
      BY <2>7 DEF Call, CallerStep, LockForFirst, FirstConnected, FirstFails, QueryOk,
                  QueryRefused, QueryFails, Replace, Replaced, ReplaceFails, StorageFrame, Stuck
    <2> QED
      BY <2>2, <2>3, <2>4, <2>5, <2>6, <2>7
         DEF Next, vars, storageVars, StorageNext, TaskStep
  <1> QED
    BY <1>1, ConnectionsInductive, PTL DEF Spec
=============================================================================
