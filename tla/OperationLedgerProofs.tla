------------------------ MODULE OperationLedgerProofs ------------------------
(***************************************************************************)
(* What holds of the operation ledger for every set of operations, every   *)
(* dependency relation, every number of clients, faults and restarts, with *)
(* or without transactions that commit after their caller gave up.         *)
(*                                                                         *)
(* The argument is about the transactions on their way to the database.    *)
(* Each was built from the row it read, so it carries either the sequence  *)
(* number after the row's, and then the row has not changed since, or a    *)
(* number whose event exists, and then it conflicts.                       *)
(***************************************************************************)
EXTENDS OperationLedger, TLAPS

\* Operation op may be in this state: its dependencies have committed if it has
\* started, its effect is in the store if it is indexed.
Justified(op, state) ==
    /\ state \in Started \cup {"committed"} => DepsCommitted(op)
    /\ state \in {"indexed", "committed"} => op \in stored

\* Transaction t either conflicts or follows the row as it is now.
TxnOK(t) ==
    /\ t.seq \in 1..(rec[t.op].seq + 1)
    /\ t.seq = rec[t.op].seq + 1 => t.from = rec[t.op].state /\ t.from \notin Terminal
    /\ t.from = "absent" => t.to \notin Terminal
    /\ Justified(t.op, t.to)

Carried(t) == \/ t \in late \/ t = coord.txn \/ t = operator.txn
              \/ \E c \in Clients : t = client[c].txn

TxnInv == \A t \in Txn : Carried(t) => TxnOK(t)

RowInv == \A op \in Ops : /\ rec[op].seq = 0 => rec[op].state = "absent"
                          /\ Justified(op, rec[op].state)

LedgerType == rec \in [Ops -> Row] /\ events \in [Ops -> SUBSET Event]

LedgerInv == LedgerType /\ EventLogComplete /\ RowInv

Resting == {"startup", "idle", "drain"}
Bodied  == {"parts", "advance", "embed", "store", "finish", "seal"}

\* A call of transition() that returns into process() brings the state along.
GoalInv ==
    /\ coord.goal \in Goal
    /\ Justified(coord.op, coord.goal.to)
    /\ coord.goal.then \in {"parts", "advance"} => coord.goal.to \in Started
    /\ coord.goal.then = "seal" => coord.goal.to = "indexed"

CoordInv ==
    /\ coord.pc \notin Resting => coord.op \in Ops
    /\ coord.pc \in Bodied \cup {"deps"} => Exists(coord.op)
    /\ coord.pc \in Bodied => DepsCommitted(coord.op)
    /\ coord.pc \in {"finish", "seal"} => coord.op \in stored
    /\ coord.pc \in {"parts", "advance"} => coord.state \in Started
    /\ coord.pc \in {"read", "commit"} => GoalInv
    /\ coord.pc = "commit" => /\ coord.txn \in Txn /\ coord.txn.op = coord.op
                              /\ coord.txn.to = coord.goal.to

OperatorInv ==
    /\ operator.pc # "idle" => operator.op \in Ops
    /\ operator.pc = "commit" => operator.txn \in Txn

ClientInv == \A c \in Clients : client[c].pc = "create" => client[c].txn \in Txn

\* What is left of the type invariant besides the ledger, the coordinator, the
\* operator and the clients.
Others ==
    /\ planned \subseteq Ops /\ stored \subseteq Ops
    /\ embedding \in [Ops -> [Parts -> Models \cup {NoModel}]]
    /\ wake \in Seq(Ops)
    /\ in_flight \in Ops \cup {NoOp} /\ mutex \in {"free", "operator"}
    /\ model \in Models
    /\ faults \in Nat /\ requests \in Nat /\ crashes \in Nat

IInv == /\ LedgerInv /\ Others /\ late \subseteq Txn /\ coord \in Coordinator
        /\ operator \in OperatorRequest /\ client \in [Clients -> Submission]
        /\ TxnInv /\ CoordInv /\ OperatorInv /\ ClientInv

-----------------------------------------------------------------------------
(* What a step may do to the ledger *)

\* Nothing that was established about a row or a transaction is lost.
Safe ==
    /\ \A op \in Ops : IsTerminal(op) => rec'[op] = rec[op]
    /\ \A op \in Ops : Exists(op) => Exists(op)'
    /\ \A op \in Ops : DepsCommitted(op) => DepsCommitted(op)'
    /\ \A op \in Ops, s \in State : Justified(op, s) => Justified(op, s)'
    /\ \A u \in Txn : TxnOK(u) => TxnOK(u)'

\* A step that leaves rows and events alone, like every read, is safe.
LEMMA Untouched ==
    ASSUME LedgerInv, UNCHANGED <<rec, events>>, stored \subseteq stored'
    PROVE  LedgerInv' /\ Safe
  <1>1. \A op : (IsTerminal(op)' <=> IsTerminal(op)) /\ (Exists(op)' <=> Exists(op))
                /\ (IsCommitted(op)' <=> IsCommitted(op))
    BY DEF IsTerminal, Exists, IsCommitted
  <1>2. \A op : DepsCommitted(op)' <=> DepsCommitted(op)
    BY <1>1 DEF DepsCommitted
  <1>3. \A op, s : Justified(op, s) => Justified(op, s)'
    BY <1>2 DEF Justified
  <1>4. \A u : TxnOK(u) => TxnOK(u)'
    BY <1>3 DEF TxnOK
  <1>5. RowInv'
    BY <1>3 DEF RowInv, LedgerInv
  <1> QED
    BY <1>1, <1>2, <1>3, <1>4, <1>5 DEF LedgerInv, LedgerType, EventLogComplete, LogComplete, Safe

\* A transaction that finds its key free follows the row: COMMIT extends the log
\* by the next event and never touches a terminal row.
LEMMA Committing ==
    ASSUME LedgerInv, NEW t \in Txn, TxnOK(t), KeyFree(t), Write(t), UNCHANGED stored
    PROVE  LedgerInv' /\ Safe /\ rec'[t.op].state = t.to
  <1> DEFINE old == rec[t.op]
             new == rec'[t.op]
             ev  == [seq |-> t.seq, from |-> t.from, to |-> t.to]
  <1>t. /\ t.op \in Ops /\ t.seq \in Nat /\ t.from \in State \cup {"absent"} /\ t.to \in State
        /\ t.hash \in Hashes \cup {NoHash} /\ t.blocked_by \in SUBSET Ops /\ t.error \in Error
    BY DEF Txn
  <1>r. /\ \A op \in Ops : rec[op] \in Row /\ rec[op].seq \in Nat
        /\ \A op \in Ops : events[op] \in SUBSET Event
    BY DEF LedgerInv, LedgerType, Row
  <1>1. t.seq = old.seq + 1 /\ t.from = old.state /\ old.state \notin Terminal
    <2>1. t.seq \notin {f.seq : f \in events[t.op]}
      BY DEF KeyFree
    <2>2. t.seq \notin 1..old.seq
      BY <2>1, <1>t DEF LedgerInv, EventLogComplete, LogComplete
    <2>3. t.seq \in 1..(old.seq + 1)
      BY DEF TxnOK
    <2>4. t.seq = old.seq + 1
      BY <2>2, <2>3, <1>t, <1>r
    <2> QED
      BY <2>4 DEF TxnOK
  <1>2. /\ new = [hash |-> IF t.seq = 1 THEN t.hash ELSE old.hash, state |-> t.to,
                  blocked_by |-> t.blocked_by, error |-> t.error, seq |-> t.seq]
        /\ \A op \in Ops : op # t.op => rec'[op] = rec[op]
        /\ events'[t.op] = events[t.op] \cup {ev}
        /\ \A op \in Ops : op # t.op => events'[op] = events[op]
    BY <1>t DEF Write, LedgerInv, LedgerType
  <1>3. new.state = t.to /\ new.seq = old.seq + 1 /\ new.seq \in Nat \ {0}
    BY <1>1, <1>2, <1>t, <1>r
  <1>4. LedgerType'
    <2>1. new \in Row
      <3>1. old.hash \in Hashes \cup {NoHash}
        BY <1>t, <1>r DEF Row
      <3> QED
        BY <3>1, <1>2, <1>t DEF Row
    <2>2. rec' \in [Ops -> Row]
      BY <2>1, <1>2, <1>t DEF Write, LedgerInv, LedgerType
    <2>3. ev \in Event
      BY <1>t DEF Event
    <2> QED
      BY <2>2, <2>3, <1>t DEF Write, LedgerInv, LedgerType
  <1>5. \A op \in Ops : IsTerminal(op) => rec'[op] = rec[op]
    BY <1>1, <1>2 DEF IsTerminal
  <1>6. \A op \in Ops : Exists(op) => Exists(op)'
    <2>1. new.state # "absent"
      BY <1>3, <1>t DEF State, Waiting, Started, Terminal
    <2> QED
      BY <2>1, <1>2 DEF Exists
  <1>7. \A op \in Ops : DepsCommitted(op) => DepsCommitted(op)'
    <2>1. \A op \in Ops : IsCommitted(op) => IsCommitted(op)'
      BY <1>5 DEF IsCommitted, IsTerminal, Terminal
    <2> QED
      BY <2>1, LedgerAssumption DEF DepsCommitted
  <1>8. \A op \in Ops, s \in State \cup {"absent"} : Justified(op, s) => Justified(op, s)'
    BY <1>7 DEF Justified
  <1>9. RowInv'
    <2> SUFFICES ASSUME NEW op \in Ops
                 PROVE  (/\ rec[op].seq = 0 => rec[op].state = "absent"
                         /\ Justified(op, rec[op].state))'
      BY DEF RowInv
    <2>1. CASE op # t.op
      BY <2>1, <1>2, <1>7 DEF RowInv, LedgerInv, Justified
    <2>2. CASE op = t.op
      <3>1. Justified(op, t.to)
        BY <2>2 DEF TxnOK
      <3> QED
        BY <3>1, <2>2, <1>3, <1>7 DEF Justified
    <2> QED
      BY <2>1, <2>2
  <1>10. ASSUME NEW u \in Txn, TxnOK(u)
         PROVE  TxnOK(u)'
    <2>0. u.op \in Ops /\ u.seq \in Nat /\ u.to \in State
      BY DEF Txn
    <2>1. Justified(u.op, u.to)'
      BY <1>8, <1>10, <2>0 DEF TxnOK
    <2>2. CASE u.op # t.op
      BY <2>0, <2>1, <2>2, <1>2, <1>10 DEF TxnOK
    <2>3. CASE u.op = t.op
      <3>1. u.seq \in 1..(old.seq + 1)
        BY <2>3, <1>10 DEF TxnOK
      <3>2. u.seq \in 1..(new.seq + 1) /\ u.seq # new.seq + 1
        BY <3>1, <1>3, <1>r, <1>t
      <3> QED
        BY <3>2, <2>1, <2>3, <1>10 DEF TxnOK
    <2> QED
      BY <2>2, <2>3
  <1>11. EventLogComplete'
    <2>0. EventLogComplete
      BY DEF LedgerInv
    <2> SUFFICES ASSUME NEW op \in Ops
                 PROVE  LogComplete(op)'
      BY DEF EventLogComplete
    <2>1. CASE op # t.op
      BY <2>0, <2>1, <1>2 DEF EventLogComplete, LogComplete
    <2>2. \A f \in events[t.op] : /\ f.seq \in 1..old.seq
                                  /\ f.seq = old.seq => f.to = old.state
      BY <2>0, <1>t DEF EventLogComplete, LogComplete
    <2>3. ev.seq = old.seq + 1 /\ ev.from = old.state /\ ev.to = new.state
      BY <1>1, <1>3
    <2>4. {f.seq : f \in events'[t.op]} = 1..new.seq
      <3>1. {f.seq : f \in events'[t.op]} = {f.seq : f \in events[t.op]} \cup {old.seq + 1}
        <4>1. events'[t.op] = events[t.op] \cup {ev} /\ ev.seq = old.seq + 1
          BY <2>3, <1>2
        <4> HIDE DEF old, new, ev
        <4> QED
          BY <4>1
      <3>2. 1..new.seq = (1..old.seq) \cup {old.seq + 1}
        BY <1>3, <1>r, <1>t
      <3> QED
        BY <3>1, <3>2, <2>0, <1>t DEF EventLogComplete, LogComplete
    <2>5. \A f, g \in events'[t.op] : /\ f.seq = g.seq => f = g
                                      /\ g.seq = f.seq + 1 => g.from = f.to
      <3> SUFFICES ASSUME NEW f \in events'[t.op], NEW g \in events'[t.op]
                   PROVE  /\ f.seq = g.seq => f = g
                          /\ g.seq = f.seq + 1 => g.from = f.to
        OBVIOUS
      <3>1. CASE f \in events[t.op] /\ g \in events[t.op]
        BY <3>1, <2>0, <1>t DEF EventLogComplete, LogComplete
      <3>2. CASE f \in events[t.op] /\ g = ev
        <4>1. f.seq \in 1..old.seq /\ (f.seq = old.seq => f.to = old.state)
          BY <3>2, <2>2
        <4>2. f.seq # g.seq
          BY <4>1, <3>2, <2>3, <1>r, <1>t
        <4>3. g.seq = f.seq + 1 => f.seq = old.seq
          BY <4>1, <3>2, <2>3, <1>r, <1>t
        <4> QED
          BY <4>1, <4>2, <4>3, <3>2, <2>3
      <3>3. CASE f = ev /\ g \in events[t.op]
        <4>1. g.seq \in 1..old.seq
          BY <3>3, <2>2
        <4> QED
          BY <4>1, <3>3, <2>3, <1>r, <1>t
      <3>4. CASE f = ev /\ g = ev
        BY <3>4, <2>3, <1>r, <1>t
      <3> QED
        BY <3>1, <3>2, <3>3, <3>4, <1>2
    <2>6. \A f \in events'[t.op] : f.seq = new.seq => f.to = new.state
      BY <2>2, <2>3, <1>2, <1>3, <1>r, <1>t
    <2>7. CASE op = t.op
      BY <2>4, <2>5, <2>6, <2>7 DEF LogComplete
    <2> QED
      BY <2>1, <2>7
  <1> QED
    BY <1>3, <1>4, <1>5, <1>6, <1>7, <1>8, <1>9, <1>10, <1>11 DEF LedgerInv, Safe

-----------------------------------------------------------------------------
(* Building a transaction *)

\* No transaction is the absence of one.
LEMMA NoTxnIsNone == NoTxn \notin Txn
  BY LedgerAssumption DEF NoTxn, Txn

\* transition() builds its transaction from an open row: it follows that row.
LEMMA NextTxnOK ==
    ASSUME LedgerInv, NEW op \in Ops, IsOpen(op), NEW to \in State, Justified(op, to),
           NEW blocked_by \in SUBSET Ops, NEW error \in Error
    PROVE  LET t == NextTxn(op, to, blocked_by, error) IN t \in Txn /\ TxnOK(t)
  <1> DEFINE t == NextTxn(op, to, blocked_by, error)
  <1>1. /\ rec[op].seq \in Nat /\ rec[op].hash \in Hashes \cup {NoHash}
        /\ rec[op].state \in State \cup {"absent"}
    BY DEF LedgerInv, LedgerType, Row
  <1>2. t \in Txn
    BY <1>1 DEF NextTxn, Txn
  <1>3. /\ t.op = op /\ t.seq = rec[op].seq + 1 /\ t.from = rec[op].state /\ t.to = to
    BY DEF NextTxn
  <1>4. TxnOK(t)
    <2> HIDE DEF t
    <2> QED
      BY <1>1, <1>3 DEF TxnOK, IsOpen, IsTerminal, Exists
  <1> QED
    BY <1>2, <1>4

\* submit() builds the creating transaction: it follows a row that does not exist.
LEMMA CreateTxnOK ==
    ASSUME LedgerInv, NEW c \in Clients
    PROVE  CreateTxn(c) \in Txn /\ TxnOK(CreateTxn(c))
  <1> DEFINE t == CreateTxn(c)
  <1>1. Op(c) \in Ops /\ Hash(c) \in Hashes
    BY LedgerAssumption DEF Op, Hash
  <1>2. t \in Txn
    BY <1>1 DEF CreateTxn, Txn, State, Waiting, Error
  <1>3. t.op = Op(c) /\ t.seq = 1 /\ t.from = "absent" /\ t.to = "accepted"
    BY DEF CreateTxn
  <1>4. rec[Op(c)].seq \in Nat /\ (rec[Op(c)].seq = 0 => rec[Op(c)].state = "absent")
    BY <1>1 DEF LedgerInv, LedgerType, Row, RowInv
  <1>5. TxnOK(t)
    <2> HIDE DEF t
    <2> QED
      BY <1>3, <1>4 DEF TxnOK, Justified, Started, Terminal
  <1> QED
    BY <1>2, <1>5

-----------------------------------------------------------------------------
(* Where a step may leave the coordinator *)

\* Between two operations the coordinator carries nothing.
LEMMA Rests ==
    ASSUME coord'.pc \in Resting
    PROVE  CoordInv'
  BY DEF CoordInv, Resting, Bodied

\* So it carries nothing that its invariant would constrain there.
LEMMA Outside ==
    ASSUME coord'.pc \in {"load", "done", "failed", "pause"}, coord'.op \in Ops
    PROVE  CoordInv'
  BY DEF CoordInv, Resting, Bodied

\* Within process() the operation in hand is a known one.
LEMMA Inside ==
    ASSUME Safe, coord.op \in Ops, coord'.op = coord.op, Exists(coord.op),
           \/ coord'.pc = "deps"
           \/ coord'.pc \in Bodied /\ DepsCommitted(coord.op),
           coord'.pc \in {"finish", "seal"} => coord.op \in stored',
           coord'.pc \in {"parts", "advance"} => coord'.state \in Started
    PROVE  CoordInv'
  <1>1. Exists(coord.op)' /\ (DepsCommitted(coord.op) => DepsCommitted(coord.op)')
    BY DEF Safe, Exists, DepsCommitted, IsCommitted
  <1> QED
    BY <1>1 DEF CoordInv, Resting, Bodied

\* A call of transition(), with what it will do.
LEMMA Calls ==
    ASSUME Safe, coord.op \in Ops, coord'.op = coord.op, coord'.pc = "read",
           coord'.goal \in Goal, Justified(coord.op, coord'.goal.to),
           coord'.goal.then \in {"parts", "advance"} => coord'.goal.to \in Started,
           coord'.goal.then = "seal" => coord'.goal.to = "indexed"
    PROVE  CoordInv'
  <1>1. coord'.goal.to \in State
    BY DEF Goal
  <1>2. Justified(coord.op, coord.goal.to)'
    BY <1>1 DEF Safe, Justified, DepsCommitted, IsCommitted
  <1> QED
    BY <1>2 DEF CoordInv, GoalInv, Resting, Bodied

-----------------------------------------------------------------------------
(* The steps of the coordinator *)

\* The coordinator's steps leave the other tasks as they are.
LEMMA CoordinatorKeeps ==
    ASSUME IInv, LedgerInv', Safe, Others', coord' \in Coordinator, CoordInv',
           late' \subseteq late \cup {coord.txn}, late' \subseteq Txn,
           \/ coord'.txn \in {NoTxn, coord.txn}
           \/ TxnOK(coord.txn)',
           UNCHANGED <<operator, client>>
    PROVE  IInv'
  <1>1. TxnInv'
    <2> SUFFICES ASSUME NEW t \in Txn, Carried(t)'
                 PROVE  TxnOK(t)'
      BY DEF TxnInv
    <2>1. CASE Carried(t)
      BY <2>1 DEF IInv, TxnInv, Safe
    <2>2. CASE t = coord'.txn
      <3>1. CASE coord'.txn = coord.txn
        BY <3>1, <2>1, <2>2 DEF Carried
      <3>2. CASE TxnOK(coord.txn)'
        BY <3>2, <2>2
      <3>3. coord'.txn # NoTxn
        BY <2>2, NoTxnIsNone
      <3> QED
        BY <3>1, <3>2, <3>3
    <2>3. Carried(t) \/ t = coord'.txn
      BY DEF Carried
    <2> QED
      BY <2>1, <2>2, <2>3
  <1>2. OperatorInv' /\ ClientInv'
    BY DEF IInv, OperatorInv, ClientInv
  <1> QED
    BY <1>1, <1>2 DEF IInv

\* A step of the coordinator that commits nothing.
LEMMA QuietStep ==
    ASSUME IInv, UNCHANGED <<rec, events, late, operator, client>>,
           stored \subseteq stored', Others', coord' \in Coordinator, Safe => CoordInv',
           coord'.txn \in {NoTxn, coord.txn} \/ TxnOK(coord.txn)'
    PROVE  IInv'
  <1>1. LedgerInv' /\ Safe
    BY Untouched DEF IInv
  <1> QED
    BY <1>1, CoordinatorKeeps DEF IInv

\* The drain loop, from discovery to the pause of a failed operation, keeps the invariant.
LEMMA DrainSteps ==
    ASSUME IInv, Discover \/ DiscoverFails \/ TakeWake \/ StartNext \/ WaveEnds
    PROVE  IInv'
  <1> USE DEF IInv
  <1>1. CASE Discover
    <2>1. /\ coord' = [coord EXCEPT !.pc = "drain", !.pending = {op \in Ops : IsOpen(op)}]
          /\ UNCHANGED <<rec, events, planned, embedding, stored, late, wake, in_flight,
                         mutex, faults, operator, client, model, requests, crashes>>
      BY <1>1 DEF Discover, durable, CoordFrame
    <2>2. coord' \in Coordinator /\ coord'.txn = coord.txn /\ coord'.pc \in Resting
      BY <2>1 DEF Coordinator, Resting
    <2> QED
      BY <2>1, <2>2, QuietStep, Rests DEF Others
  <1>2. CASE DiscoverFails
    <2>1. /\ coord' = [coord EXCEPT !.pc = "idle"] /\ Spend
          /\ UNCHANGED <<rec, events, planned, embedding, stored, late, wake, in_flight,
                         mutex, operator, client, model, requests, crashes>>
      BY <1>2 DEF DiscoverFails, Goto, durable, CoordFrame
    <2>2. coord' \in Coordinator /\ coord'.txn = coord.txn /\ coord'.pc \in Resting
      BY <2>1 DEF Coordinator, Resting
    <2> QED
      BY <2>1, <2>2, QuietStep, Rests DEF Others, Spend
  <1>3. CASE TakeWake
    <2>1. /\ coord' = [coord EXCEPT !.pc = "drain", !.pending = {Head(wake)}]
          /\ wake # <<>> /\ wake' = Tail(wake)
          /\ UNCHANGED <<rec, events, planned, embedding, stored, late, in_flight,
                         mutex, faults, operator, client, model, requests, crashes>>
      BY <1>3 DEF TakeWake, durable, CoordFrame
    <2>2. Head(wake) \in Ops /\ wake' \in Seq(Ops)
      BY <2>1 DEF Others
    <2>3. coord' \in Coordinator /\ coord'.txn = coord.txn /\ coord'.pc \in Resting
      BY <2>1, <2>2 DEF Coordinator, Resting
    <2> QED
      BY <2>1, <2>2, <2>3, QuietStep, Rests DEF Others
  <1>4. CASE StartNext
    <2>1. PICK op \in coord.pending :
             /\ coord' = [coord EXCEPT !.pc = "load", !.op = op, !.pending = @ \ {op}]
             /\ in_flight' = op
      BY <1>4 DEF StartNext
    <2>2. UNCHANGED <<rec, events, planned, embedding, stored, late, wake, mutex, faults,
                      operator, client, model, requests, crashes>>
      BY <1>4 DEF StartNext, durable, CoordFrame
    <2>3. op \in Ops
      BY DEF Coordinator
    <2>4. /\ coord' \in Coordinator /\ coord'.txn = coord.txn
          /\ coord'.pc = "load" /\ coord'.op \in Ops
      BY <2>1, <2>3 DEF Coordinator
    <2> QED
      BY <2>1, <2>2, <2>3, <2>4, QuietStep, Outside DEF Others
  <1>5. CASE WaveEnds
    <2>1. faults' \in Nat
      BY <1>5 DEF WaveEnds, Spend, Others
    <2>2. UNCHANGED <<rec, events, planned, embedding, stored, late, wake, in_flight,
                      mutex, operator, client, model, requests, crashes>>
      BY <1>5 DEF WaveEnds, durable, CoordFrame
    <2>3. coord' \in Coordinator /\ coord'.txn = coord.txn /\ coord'.pc \in Resting
      <3>1. CASE coord' = [coord EXCEPT !.rescan = FALSE,
                                        !.pending = {op \in Ops : IsOpen(op)}]
        BY <3>1, <1>5 DEF WaveEnds, At, Coordinator, Resting
      <3>2. CASE coord' = [coord EXCEPT !.pc = "idle", !.retried = {}]
        BY <3>2 DEF Coordinator, Resting
      <3>3. CASE coord' = [coord EXCEPT !.pc = "idle", !.retried = {}, !.rescan = FALSE]
        BY <3>3 DEF Coordinator, Resting
      <3> QED
        BY <3>1, <3>2, <3>3, <1>5 DEF WaveEnds
    <2> QED
      BY <2>1, <2>2, <2>3, QuietStep, Rests DEF Others
  <1> QED
    BY <1>1, <1>2, <1>3, <1>4, <1>5

\* Going on within process() keeps the coordinator's type.
LEMMA GotoMoves ==
    ASSUME coord \in Coordinator, NEW pc \in Bodied \cup {"deps", "done", "pause"}, Goto(pc)
    PROVE  /\ coord' \in Coordinator /\ coord'.pc = pc /\ coord'.op = coord.op
           /\ coord'.state = coord.state /\ coord'.txn = coord.txn
  BY DEF Goto, Coordinator, Bodied

\* So does an error.
LEMMA FailMoves ==
    ASSUME coord \in Coordinator, NEW f \in Failure, Fail(f)
    PROVE  /\ coord' \in Coordinator /\ coord'.pc = "failed" /\ coord'.op = coord.op
           /\ coord'.txn = NoTxn
  BY DEF Fail, Coordinator

\* So does the return to the drain loop.
LEMMA DrainedMoves ==
    ASSUME coord \in Coordinator
    PROVE  Drained \in Coordinator /\ Drained.pc = "drain" /\ Drained.txn = NoTxn
  BY DEF Drained, Coordinator

\* A call of transition() that is justified keeps the invariant of the coordinator.
LEMMA CallMoves ==
    ASSUME coord \in Coordinator, coord.op \in Ops,
           NEW to \in State, NEW blocked_by \in SUBSET Ops, NEW error \in Error,
           NEW then \in {"parts", "advance", "seal", "done", "drain"},
           NEW caller \in {"process", "dead_letter", "pause"},
           Transition(to, blocked_by, error, then, caller), Justified(coord.op, to),
           then \in {"parts", "advance"} => to \in Started,
           then = "seal" => to = "indexed"
    PROVE  /\ coord' \in Coordinator /\ coord'.txn = coord.txn
           /\ Safe => CoordInv'
  <1> DEFINE g == [to |-> to, blocked_by |-> blocked_by, error |-> error,
                   then |-> then, caller |-> caller]
  <1>1. g \in Goal
    BY DEF Goal
  <1>2. g.to = to /\ g.then = then
    OBVIOUS
  <1>3. coord' = [coord EXCEPT !.pc = "read", !.goal = g]
    BY DEF Transition
  <1> HIDE DEF g
  <1>4. /\ coord' \in Coordinator /\ coord'.txn = coord.txn /\ coord'.op = coord.op
        /\ coord'.pc = "read" /\ coord'.goal = g
    BY <1>1, <1>3 DEF Coordinator
  <1> QED
    BY <1>1, <1>2, <1>4, Calls

\* The same for a call of transition() without blockers or error.
LEMMA MoveMoves ==
    ASSUME coord \in Coordinator, coord.op \in Ops,
           NEW to \in State, NEW then \in {"parts", "advance", "seal", "done"},
           Move(to, then), Justified(coord.op, to),
           then \in {"parts", "advance"} => to \in Started,
           then = "seal" => to = "indexed"
    PROVE  /\ coord' \in Coordinator /\ coord'.txn = coord.txn
           /\ Safe => CoordInv'
  <1>1. Transition(to, {}, "none", then, "process") /\ "none" \in Error
    BY DEF Move, Error
  <1> QED
    BY <1>1, CallMoves

\* A step of process() that only reads.
LEMMA ReadStep ==
    ASSUME IInv, UNCHANGED <<durable, faults>>, ProcessFrame, coord' \in Coordinator,
           coord'.txn \in {NoTxn, coord.txn}, Safe => CoordInv'
    PROVE  IInv'
  <1>1. UNCHANGED <<rec, events, planned, embedding, stored, late, wake, in_flight, mutex,
                    faults, operator, client, model, requests, crashes>>
    BY DEF ProcessFrame, CoordFrame, durable
  <1>2. Others'
    BY <1>1 DEF IInv, Others
  <1> QED
    BY <1>1, <1>2, QuietStep

\* The steps of process() that only read keep the invariant.
LEMMA ReadingSteps ==
    ASSUME IInv, Load \/ CheckDependencies \/ Advance \/ Finish \/ Seal
    PROVE  IInv'
  <1>0. coord \in Coordinator /\ CoordInv /\ LedgerInv
    BY DEF IInv
  <1>1. CASE Load
    <2>1. UNCHANGED <<durable, faults>> /\ ProcessFrame /\ coord.pc = "load" /\ coord.op \in Ops
      BY <1>0, <1>1 DEF Load, At, CoordInv, Resting
    <2>2. CASE IsOpen(coord.op)
      <3>1. coord' = [coord EXCEPT !.pc = "deps", !.state = rec[coord.op].state,
                                   !.seen = rec[coord.op].blocked_by]
        BY <1>1, <2>2 DEF Load
      <3>2. /\ rec[coord.op].state \in State \cup {"absent"}
            /\ rec[coord.op].blocked_by \in SUBSET Ops
        BY <1>0, <2>1 DEF LedgerInv, LedgerType, Row
      <3>3. /\ coord' \in Coordinator /\ coord'.pc = "deps" /\ coord'.op = coord.op
            /\ coord'.txn = coord.txn
        BY <1>0, <3>1, <3>2 DEF Coordinator
      <3>4. Exists(coord.op)
        BY <2>2 DEF IsOpen
      <3> QED
        BY <2>1, <3>3, <3>4, Inside, ReadStep
    <2>3. CASE ~IsOpen(coord.op)
      <3>1. Goto("done")
        BY <1>1, <2>3 DEF Load
      <3> QED
        BY <1>0, <2>1, <3>1, GotoMoves, Outside, ReadStep
    <2> QED
      BY <2>2, <2>3
  <1>2. CASE CheckDependencies
    <2> DEFINE op == coord.op
               blockers == Blockers(op)
    <2>1. /\ UNCHANGED <<durable, faults>> /\ ProcessFrame /\ coord.pc = "deps"
          /\ coord.op \in Ops /\ Exists(coord.op)
      BY <1>0, <1>2 DEF CheckDependencies, At, CoordInv, Resting
    <2>2. blockers \in SUBSET Ops /\ (blockers = {} => DepsCommitted(op))
      BY <2>1, LedgerAssumption DEF Blockers, DepsCommitted
    <2>3. CASE Transition("blocked", blockers, "none", "done", "process")
      <3>1. /\ "blocked" \in State /\ "none" \in Error /\ Justified(op, "blocked")
        BY DEF State, Waiting, Started, Error, Justified
      <3> QED
        BY <1>0, <2>1, <2>2, <2>3, <3>1, CallMoves, ReadStep
    <2>4. CASE Goto("done")
      BY <1>0, <2>1, <2>4, GotoMoves, Outside, ReadStep
    <2>5. CASE Transition("rejected", {}, "payload", "done", "process")
      <3>1. /\ "rejected" \in State /\ "payload" \in Error /\ Justified(op, "rejected")
        BY DEF State, Started, Terminal, Error, Justified
      <3> QED
        BY <1>0, <2>1, <2>5, <3>1, CallMoves, ReadStep
    <2>6. CASE blockers = {} /\ Move("validated", Body(op))
      <3>1. "validated" \in State /\ "validated" \in Started /\ Justified(op, "validated")
        BY <2>2, <2>6 DEF State, Started, Justified
      <3>2. Body(op) \in {"parts", "advance"}
        BY DEF Body
      <3> QED
        BY <1>0, <2>1, <2>6, <3>1, <3>2, MoveMoves, ReadStep
    <2>7. CASE blockers = {} /\ coord.state \in Started /\ Goto(Body(op))
      <3>1. Body(op) \in {"parts", "advance"}
        BY DEF Body
      <3>2. /\ coord' \in Coordinator /\ coord'.pc = Body(op) /\ coord'.op = coord.op
            /\ coord'.state = coord.state /\ coord'.txn = coord.txn
        BY <1>0, <2>7, <3>1, GotoMoves DEF Bodied
      <3>3. DepsCommitted(coord.op)
        BY <2>2, <2>7
      <3>4. Safe => CoordInv'
        BY <2>1, <2>7, <3>1, <3>2, <3>3, Inside DEF Bodied
      <3> QED
        BY <2>1, <3>2, <3>4, ReadStep
    <2> QED
      BY <1>2, <2>3, <2>4, <2>5, <2>6, <2>7 DEF CheckDependencies
  <1>3. CASE Advance
    <2>1. /\ UNCHANGED <<durable, faults>> /\ ProcessFrame /\ coord.pc = "advance"
          /\ coord.op \in Ops /\ Exists(coord.op) /\ DepsCommitted(coord.op)
          /\ coord.state \in Started
      BY <1>0, <1>3 DEF Advance, At, CoordInv, Resting, Bodied
    <2>2. CASE coord.state = "validated"
      <3>1. Move("planned", "advance")
        BY <1>3, <2>2 DEF Advance
      <3>2. "planned" \in State /\ "planned" \in Started /\ Justified(coord.op, "planned")
        BY <2>1 DEF State, Started, Justified
      <3> QED
        BY <1>0, <2>1, <3>1, <3>2, MoveMoves, ReadStep
    <2>3. CASE coord.state = "planned"
      <3>1. Move("processing", "advance")
        BY <1>3, <2>3 DEF Advance
      <3>2. "processing" \in State /\ "processing" \in Started /\ Justified(coord.op, "processing")
        BY <2>1 DEF State, Started, Justified
      <3> QED
        BY <1>0, <2>1, <3>1, <3>2, MoveMoves, ReadStep
    <2>4. CASE coord.state \in {"processing", "indexed"}
      <3>1. \E pc \in {"embed", "store"} : Goto(pc)
        BY <1>3, <2>4 DEF Advance
      <3>2. PICK pc \in {"embed", "store"} : Goto(pc)
        BY <3>1
      <3>3. /\ coord' \in Coordinator /\ coord'.pc = pc /\ coord'.op = coord.op
            /\ coord'.txn = coord.txn
        BY <1>0, <3>2, GotoMoves DEF Bodied
      <3>4. Safe => CoordInv'
        BY <2>1, <3>3, Inside DEF Bodied
      <3> QED
        BY <2>1, <3>3, <3>4, ReadStep
    <2> QED
      BY <2>1, <2>2, <2>3, <2>4 DEF Started
  <1>4. CASE Finish \/ Seal
    <2>1. /\ UNCHANGED <<durable, faults>> /\ ProcessFrame
          /\ coord.op \in Ops /\ DepsCommitted(coord.op) /\ coord.op \in stored
      BY <1>0, <1>4 DEF Finish, Seal, At, CoordInv, Resting, Bodied
    <2>2. /\ "committed" \in State /\ Justified(coord.op, "committed")
          /\ "indexed" \in State /\ Justified(coord.op, "indexed")
      BY <2>1 DEF State, Started, Terminal, Justified
    <2>3. CASE Goto("done")
      BY <1>0, <2>1, <2>3, GotoMoves, Outside, ReadStep
    <2>4. CASE Move("committed", "done")
      BY <1>0, <2>1, <2>2, <2>4, MoveMoves, ReadStep
    <2>5. CASE Move("indexed", "seal")
      BY <1>0, <2>1, <2>2, <2>5, MoveMoves, ReadStep
    <2> QED
      BY <1>4, <2>3, <2>4, <2>5 DEF Finish, Seal
  <1> QED
    BY <1>1, <1>2, <1>3, <1>4

\* planned, embedding and stored grow and keep their types.
EffectTypes ==
    /\ planned' \subseteq Ops /\ stored' \subseteq Ops /\ stored \subseteq stored'
    /\ embedding' \in [Ops -> [Parts -> Models \cup {NoModel}]]
    /\ faults' \in Nat

\* A step of process() that writes parts or the store, never the ledger.
LEMMA EffectStep ==
    ASSUME IInv, UNCHANGED <<rec, events>>, EffectTypes, ProcessFrame, coord' \in Coordinator,
           coord'.txn \in {NoTxn, coord.txn}, Safe => CoordInv'
    PROVE  IInv'
  <1>1. UNCHANGED <<rec, events, late, wake, in_flight, mutex, operator, client, model,
                    requests, crashes>>
    BY DEF ProcessFrame, CoordFrame
  <1>2. Others'
    BY <1>1 DEF IInv, Others, EffectTypes
  <1> QED
    BY <1>1, <1>2, QuietStep DEF EffectTypes

\* mark_part_indexed keeps the type of the part rows.
LEMMA EmbeddingType ==
    ASSUME IInv, NEW op \in Ops, NEW p \in Parts
    PROVE  [embedding EXCEPT ![op][p] = model] \in [Ops -> [Parts -> Models \cup {NoModel}]]
  BY DEF IInv, Others

\* The steps of process() that write parts or the store keep the invariant.
LEMMA EffectSteps ==
    ASSUME IInv, Plan \/ Embed \/ Store
    PROVE  IInv'
  <1>0. /\ coord \in Coordinator /\ CoordInv
        /\ planned \subseteq Ops /\ stored \subseteq Ops /\ faults \in Nat
        /\ embedding \in [Ops -> [Parts -> Models \cup {NoModel}]]
    BY DEF IInv, Others
  <1>1. CASE Plan
    <2>1. /\ UNCHANGED <<rec, events, embedding, stored, faults>> /\ ProcessFrame
          /\ coord.pc = "parts" /\ coord.op \in Ops /\ Exists(coord.op)
          /\ DepsCommitted(coord.op) /\ coord.state \in Started
      BY <1>0, <1>1 DEF Plan, At, CoordInv, Resting, Bodied
    <2>2. EffectTypes
      BY <1>0, <1>1, <2>1 DEF Plan, EffectTypes
    <2>3. CASE Goto("advance")
      <3>1. /\ coord' \in Coordinator /\ coord'.pc = "advance" /\ coord'.op = coord.op
            /\ coord'.state = coord.state /\ coord'.txn = coord.txn
        BY <1>0, <2>3, GotoMoves DEF Bodied
      <3>2. Safe => CoordInv'
        BY <2>1, <3>1, Inside DEF Bodied
      <3> QED
        BY <2>1, <2>2, <3>1, <3>2, EffectStep
    <2>4. CASE Fail("permanent")
      <3>1. "permanent" \in Failure
        BY DEF Failure
      <3> QED
        BY <1>0, <2>1, <2>2, <2>4, <3>1, FailMoves, Outside, EffectStep
    <2> QED
      BY <1>1, <2>3, <2>4 DEF Plan
  <1>2. CASE Embed
    <2>1. /\ UNCHANGED <<rec, events, planned, stored, faults>> /\ ProcessFrame
          /\ coord.pc = "embed" /\ coord.op \in Ops /\ Exists(coord.op)
          /\ DepsCommitted(coord.op)
      BY <1>0, <1>2 DEF Embed, At, CoordInv, Resting, Bodied
    <2>2. CASE UNCHANGED coord /\ \E p \in Parts :
                  embedding' = [embedding EXCEPT ![coord.op][p] = model]
      <3>1. EffectTypes
        BY <1>0, <2>1, <2>2, EmbeddingType DEF EffectTypes
      <3>2. Safe => CoordInv'
        BY <2>1, <2>2, Inside DEF Bodied
      <3> QED
        BY <1>0, <2>1, <2>2, <3>1, <3>2, EffectStep
    <2>3. CASE Goto("store") /\ UNCHANGED embedding
      <3>1. /\ coord' \in Coordinator /\ coord'.pc = "store" /\ coord'.op = coord.op
            /\ coord'.txn = coord.txn
        BY <1>0, <2>3, GotoMoves DEF Bodied
      <3>2. Safe => CoordInv'
        BY <2>1, <3>1, Inside DEF Bodied
      <3>3. EffectTypes
        BY <1>0, <2>1, <2>3 DEF EffectTypes
      <3> QED
        BY <2>1, <3>1, <3>2, <3>3, EffectStep
    <2> QED
      BY <1>2, <2>2, <2>3 DEF Embed
  <1>3. CASE Store
    <2>1. /\ UNCHANGED <<rec, events, planned, embedding, faults>> /\ ProcessFrame
          /\ coord.pc = "store" /\ coord.op \in Ops /\ Exists(coord.op)
          /\ DepsCommitted(coord.op)
      BY <1>0, <1>3 DEF Store, At, CoordInv, Resting, Bodied
    <2>2. ASSUME NEW f \in {"mismatch", "store"}, Fail(f), UNCHANGED stored
          PROVE  IInv'
      <3>1. f \in Failure
        BY DEF Failure
      <3>2. EffectTypes
        BY <1>0, <2>1, <2>2 DEF EffectTypes
      <3> QED
        BY <1>0, <2>1, <2>2, <3>1, <3>2, FailMoves, Outside, EffectStep
    <2>3. CASE Goto("finish") /\ stored' = stored \cup {coord.op}
      <3>1. /\ coord' \in Coordinator /\ coord'.pc = "finish" /\ coord'.op = coord.op
            /\ coord'.txn = coord.txn
        BY <1>0, <2>3, GotoMoves DEF Bodied
      <3>2. Safe => CoordInv'
        BY <2>1, <2>3, <3>1, Inside DEF Bodied
      <3>3. EffectTypes
        BY <1>0, <2>1, <2>3 DEF EffectTypes
      <3> QED
        BY <2>1, <3>1, <3>2, <3>3, EffectStep
    <2> QED
      BY <1>3, <2>2, <2>3 DEF Store
  <1> QED
    BY <1>1, <1>2, <1>3

\* An error of transition() keeps the coordinator's invariant, whichever caller takes it.
LEMMA TransitionFailedMoves ==
    ASSUME coord \in Coordinator, coord.op \in Ops, coord.goal \in Goal,
           NEW f \in Failure, TransitionFailed(f)
    PROVE  coord' \in Coordinator /\ coord'.txn = NoTxn /\ CoordInv'
  <1>1. coord.goal.caller \in {"process", "dead_letter", "pause"}
    BY DEF Goal
  <1>2. CASE coord.goal.caller = "process"
    BY <1>2, FailMoves, Outside DEF TransitionFailed
  <1>3. CASE coord.goal.caller = "dead_letter"
    <2>1. coord' = [coord EXCEPT !.pc = "pause", !.goal = NoGoal, !.txn = NoTxn]
      BY <1>3 DEF TransitionFailed
    <2>2. /\ coord' \in Coordinator /\ coord'.pc = "pause" /\ coord'.op \in Ops
          /\ coord'.txn = NoTxn
      BY <2>1 DEF Coordinator
    <2> QED
      BY <2>2, Outside
  <1>4. CASE coord.goal.caller = "pause"
    BY <1>4, DrainedMoves, Rests DEF TransitionFailed, Resting
  <1> QED
    BY <1>1, <1>2, <1>3, <1>4

\* A caller that gives up leaves the ledger as it is, or its transaction commits.
LEMMA Abandoning ==
    ASSUME IInv, NEW t \in Txn, Carried(t), Abandon(t), UNCHANGED stored
    PROVE  /\ LedgerInv' /\ Safe /\ faults' \in Nat
           /\ late' \subseteq late \cup {t} /\ late' \subseteq Txn
  <1>1. LedgerInv /\ TxnOK(t) /\ late \subseteq Txn /\ faults \in Nat
    BY DEF IInv, TxnInv, Others
  <1>2. /\ faults' \in Nat /\ late' \subseteq late \cup {t} /\ late' \subseteq Txn
        /\ UNCHANGED <<rec, events>> \/ (KeyFree(t) /\ Write(t))
    BY <1>1 DEF Abandon, Spend
  <1>3. LedgerInv' /\ Safe
    BY <1>1, <1>2, Untouched, Committing
  <1> QED
    BY <1>2, <1>3

\* transition() keeps the invariant, whether it commits, conflicts or is abandoned.
LEMMA TransitionSteps ==
    ASSUME IInv, TransitionRead \/ TransitionCommit \/ TransitionLost
    PROVE  IInv'
  <1>0. coord \in Coordinator /\ CoordInv /\ LedgerInv /\ late \subseteq Txn /\ Others
    BY DEF IInv
  <1>1. /\ coord.pc \in {"read", "commit"} /\ coord.op \in Ops /\ coord.goal \in Goal
        /\ Justified(coord.op, coord.goal.to)
        /\ coord.goal.then \in {"parts", "advance"} => coord.goal.to \in Started
        /\ coord.goal.then = "seal" => coord.goal.to = "indexed"
    BY <1>0 DEF TransitionRead, TransitionCommit, TransitionLost, At, CoordInv, GoalInv, Resting
  <1>2. /\ coord.goal.to \in State /\ coord.goal.blocked_by \in SUBSET Ops
        /\ coord.goal.error \in Error
        /\ coord.goal.then \in {"parts", "advance", "seal", "done", "drain"}
    BY <1>1 DEF Goal
  <1>f. {"terminal", "ledger", "recovered"} \subseteq Failure
    BY DEF Failure
  <1>3. CASE TransitionRead
    <2> DEFINE g == coord.goal
               t == NextTxn(coord.op, g.to, g.blocked_by, g.error)
    <2>1. UNCHANGED <<durable, faults>> /\ ProcessFrame /\ coord.pc = "read"
      BY <1>3 DEF TransitionRead, At
    <2>2. CASE IsOpen(coord.op)
      <3>1. coord' = [coord EXCEPT !.pc = "commit", !.txn = t]
        BY <1>3, <2>2 DEF TransitionRead
      <3>2. t \in Txn /\ TxnOK(t)
        BY <1>0, <1>1, <1>2, <2>2, NextTxnOK
      <3>3. t.op = coord.op /\ t.to = coord.goal.to
        BY DEF NextTxn
      <3> HIDE DEF t
      <3>4. /\ coord' \in Coordinator /\ coord'.pc = "commit" /\ coord'.txn = t
            /\ coord'.op = coord.op /\ coord'.goal = coord.goal
        BY <1>0, <3>1, <3>2 DEF Coordinator
      <3>5. UNCHANGED <<rec, events, planned, embedding, stored, late, wake, in_flight, mutex,
                        faults, operator, client, model, requests, crashes>>
        BY <2>1 DEF ProcessFrame, CoordFrame, durable
      <3>6. Safe
        BY <1>0, <3>5, Untouched
      <3>7. TxnOK(coord.txn)'
        BY <3>2, <3>4, <3>6 DEF Safe
      <3>8. Justified(coord.op, coord.goal.to)'
        BY <1>1, <3>4, <3>5 DEF Justified, DepsCommitted, IsCommitted
      <3>9. CoordInv'
        BY <1>1, <3>2, <3>3, <3>4, <3>8 DEF CoordInv, GoalInv, Resting, Bodied
      <3>10. Others'
        BY <1>0, <3>5 DEF Others
      <3> QED
        BY <3>4, <3>5, <3>7, <3>9, <3>10, QuietStep
    <2>3. CASE ~IsOpen(coord.op)
      <3>1. \E f \in {"terminal", "ledger"} : TransitionFailed(f)
        BY <1>3, <2>3 DEF TransitionRead
      <3> QED
        BY <1>0, <1>1, <1>f, <2>1, <3>1, TransitionFailedMoves, ReadStep
    <2> QED
      BY <2>2, <2>3
  <1>4. ASSUME coord.pc = "commit"
        PROVE  /\ coord.txn \in Txn /\ coord.txn.op = coord.op /\ coord.txn.to = coord.goal.to
               /\ Carried(coord.txn) /\ TxnOK(coord.txn)
    BY <1>4, <1>0 DEF IInv, CoordInv, TxnInv, Carried
  <1>5. CASE TransitionCommit
    <2>1. /\ coord.pc = "commit"
          /\ UNCHANGED <<planned, embedding, stored, faults, late, wake, in_flight, mutex,
                         operator, client, model, requests, crashes>>
      BY <1>5 DEF TransitionCommit, At, ProcessFrame, CoordFrame
    <2>2. Others' /\ late' \subseteq Txn
      BY <1>0, <2>1 DEF Others
    <2>3. CASE /\ KeyFree(coord.txn) /\ Write(coord.txn)
               /\ IF coord.goal.then = "drain"
                  THEN coord' = Drained
                  ELSE coord' = [coord EXCEPT !.pc = coord.goal.then, !.state = coord.goal.to,
                                              !.goal = NoGoal, !.txn = NoTxn]
      <3>1. LedgerInv' /\ Safe /\ rec'[coord.op].state = coord.goal.to
        BY <1>0, <1>4, <2>1, <2>3, Committing
      <3>2. CASE coord.goal.then = "drain"
        BY <1>0, <2>1, <2>2, <2>3, <3>1, <3>2, DrainedMoves, Rests, CoordinatorKeeps DEF Resting
      <3>3. CASE coord.goal.then # "drain"
        <4>1. /\ coord' \in Coordinator /\ coord'.pc = coord.goal.then /\ coord'.op = coord.op
              /\ coord'.state = coord.goal.to /\ coord'.txn = NoTxn
          <5> DEFINE next == coord.goal.then
                     to   == coord.goal.to
          <5>1. next \in {"parts", "advance", "seal", "done"} /\ to \in State
            BY <1>2, <3>3
          <5>2. coord' = [coord EXCEPT !.pc = next, !.state = to, !.goal = NoGoal, !.txn = NoTxn]
            BY <2>3, <3>3
          <5> HIDE DEF next, to
          <5>3. coord' \in Coordinator
            BY <1>0, <5>1, <5>2 DEF Coordinator
          <5>4. /\ coord'.pc = next /\ coord'.op = coord.op
                /\ coord'.state = to /\ coord'.txn = NoTxn
            BY <1>0, <5>2 DEF Coordinator
          <5> QED
            BY <5>3, <5>4 DEF next, to
        <4>2. CASE coord.goal.then = "done"
          BY <1>1, <2>1, <2>2, <3>1, <4>1, <4>2, Outside, CoordinatorKeeps
        <4>3. CASE coord.goal.then \in {"parts", "advance", "seal"}
          <5>1. Exists(coord.op)'
            BY <1>2, <3>1, <4>1 DEF Exists, State, Waiting, Started, Terminal
          <5>2. DepsCommitted(coord.op)
            BY <1>1, <4>3 DEF Justified, Started
          <5>3. DepsCommitted(coord.op)'
            BY <1>1, <3>1, <4>1, <5>2 DEF Safe, DepsCommitted, IsCommitted
          <5>4. coord'.pc = "seal" => coord'.op \in stored'
            BY <1>1, <2>1, <4>1, <4>3 DEF Justified
          <5>5. coord'.pc \in {"parts", "advance"} => coord'.state \in Started
            BY <1>1, <4>1
          <5>6. CoordInv'
            BY <1>1, <4>1, <4>3, <5>1, <5>3, <5>4, <5>5 DEF CoordInv, Resting, Bodied
          <5> QED
            BY <2>1, <2>2, <3>1, <4>1, <5>6, CoordinatorKeeps
        <4> QED
          BY <1>2, <3>3, <4>2, <4>3
      <3> QED
        BY <3>2, <3>3
    <2>4. CASE Conflict(coord.txn) /\ TransitionFailed("ledger")
      <3>1. UNCHANGED <<rec, events>>
        BY <2>4 DEF Conflict
      <3>2. coord' \in Coordinator /\ coord'.txn = NoTxn /\ CoordInv'
        BY <1>0, <1>1, <1>f, <2>4, TransitionFailedMoves
      <3> QED
        BY <2>1, <2>2, <3>1, <3>2, QuietStep
    <2> QED
      BY <1>5, <2>3, <2>4 DEF TransitionCommit
  <1>6. CASE TransitionLost
    <2>1. /\ coord.pc = "commit" /\ Abandon(coord.txn)
          /\ UNCHANGED <<planned, embedding, stored, wake, in_flight, mutex,
                         operator, client, model, requests, crashes>>
      BY <1>6 DEF TransitionLost, At, CoordFrame
    <2>2. /\ LedgerInv' /\ Safe /\ faults' \in Nat
          /\ late' \subseteq late \cup {coord.txn} /\ late' \subseteq Txn
      BY <1>4, <2>1, Abandoning
    <2>3. coord' \in Coordinator /\ coord'.txn = NoTxn /\ CoordInv'
      BY <1>0, <1>1, <1>6, <1>f, TransitionFailedMoves DEF TransitionLost
    <2>4. Others'
      BY <1>0, <2>1, <2>2 DEF Others
    <2> QED
      BY <2>1, <2>2, <2>3, <2>4, CoordinatorKeeps
  <1> QED
    BY <1>3, <1>5, <1>6

\* A failed await of process() keeps the invariant.
LEMMA FailingSteps ==
    ASSUME IInv, AwaitFails
    PROVE  IInv'
  <1>0. /\ coord \in Coordinator /\ CoordInv
        /\ planned \subseteq Ops /\ stored \subseteq Ops /\ faults \in Nat
        /\ embedding \in [Ops -> [Parts -> Models \cup {NoModel}]]
    BY DEF IInv, Others
  <1>1. /\ coord.pc \in {"load", "deps", "parts", "embed", "store", "finish", "read"}
        /\ coord.op \in Ops
    BY <1>0 DEF AwaitFails, At, CoordInv, Resting
  <1>2. UNCHANGED <<rec, events>> /\ ProcessFrame /\ faults' \in Nat
    BY <1>0 DEF AwaitFails, Spend
  <1>3. {"recovered", "ledger", "executor", "store"} \subseteq Failure
    BY DEF Failure
  <1>4. EffectTypes
    <2>1. planned' \subseteq Ops /\ stored' \subseteq Ops /\ stored \subseteq stored'
      BY <1>0, <1>1 DEF AwaitFails
    <2>2. \/ embedding' = embedding
          \/ \E p \in Parts : embedding' = [embedding EXCEPT ![coord.op][p] = model]
      BY DEF AwaitFails
    <2>3. embedding' \in [Ops -> [Parts -> Models \cup {NoModel}]]
      <3>1. CASE embedding' = embedding
        BY <1>0, <3>1
      <3>2. ASSUME NEW p \in Parts, embedding' = [embedding EXCEPT ![coord.op][p] = model]
            PROVE  embedding' \in [Ops -> [Parts -> Models \cup {NoModel}]]
        BY <1>1, <3>2, EmbeddingType
      <3> QED
        BY <2>2, <3>1, <3>2
    <2> QED
      BY <1>2, <2>1, <2>3 DEF EffectTypes
  <1>5. coord' \in Coordinator /\ coord'.txn = NoTxn /\ CoordInv'
    <2>1. CASE \E f \in Failure : Fail(f)
      BY <1>0, <1>1, <2>1, FailMoves, Outside
    <2>2. CASE coord.pc = "read" /\ \E f \in Failure : TransitionFailed(f)
      BY <1>0, <1>1, <2>2, TransitionFailedMoves DEF CoordInv, GoalInv
    <2> QED
      BY <1>3, <2>1, <2>2 DEF AwaitFails, At
  <1> QED
    BY <1>2, <1>4, <1>5, EffectStep

\* The end of process(), with or without an error, keeps the invariant.
LEMMA EndingSteps ==
    ASSUME IInv, Done \/ Failed \/ Pause
    PROVE  IInv'
  <1>0. coord \in Coordinator /\ CoordInv /\ LedgerInv /\ Others
    BY DEF IInv
  <1>1. coord.op \in Ops
    BY <1>0 DEF Done, Failed, Pause, At, CoordInv, Resting
  <1>2. /\ UNCHANGED <<rec, events, planned, embedding, stored, late, wake, mutex,
                       operator, client, model, requests, crashes>>
        /\ faults' \in Nat /\ in_flight' \in Ops \cup {NoOp}
    BY <1>0 DEF Done, Failed, Pause, Spend, durable, CoordFrame, ProcessFrame, Others
  <1>3. Others'
    BY <1>0, <1>2 DEF Others
  <1>4. coord' \in Coordinator /\ coord'.txn \in {NoTxn, coord.txn} /\ (Safe => CoordInv')
    <2>1. CASE Done
      <3>1. CASE coord' = Drained
        BY <1>0, <3>1, DrainedMoves, Rests DEF Resting
      <3>2. CASE coord' = [Drained EXCEPT !.rescan = @ \/ IsCommitted(coord.op)]
        <4>1. Drained \in Coordinator /\ Drained.pc = "drain" /\ Drained.txn = NoTxn
          BY <1>0, DrainedMoves
        <4>2. (Drained.rescan \/ IsCommitted(coord.op)) \in BOOLEAN
          OBVIOUS
        <4>3. coord' \in Coordinator /\ coord'.pc = "drain" /\ coord'.txn = NoTxn
          BY <3>2, <4>1, <4>2 DEF Coordinator
        <4> QED
          BY <4>3, Rests DEF Resting
      <3> QED
        BY <2>1, <3>1, <3>2 DEF Done
    <2>2. CASE Failed
      <3>1. CASE coord' = Drained
        BY <1>0, <3>1, DrainedMoves, Rests DEF Resting
      <3>2. CASE Transition("rejected", {}, "permanent", "drain", "dead_letter")
        <4>1. "rejected" \in State /\ "permanent" \in Error /\ Justified(coord.op, "rejected")
          BY DEF State, Started, Terminal, Error, Failure, Justified
        <4> QED
          BY <1>0, <1>1, <3>2, <4>1, CallMoves
      <3>3. CASE coord' = [Drained EXCEPT !.retried = @ \cup {coord.op},
                                          !.pending = @ \cup {coord.op}]
        <4>1. Drained \in Coordinator /\ Drained.pc = "drain" /\ Drained.txn = NoTxn
          BY <1>0, DrainedMoves
        <4>2. coord' \in Coordinator /\ coord'.pc = "drain" /\ coord'.txn = NoTxn
          BY <1>1, <3>3, <4>1 DEF Coordinator
        <4> QED
          BY <4>2, Rests DEF Resting
      <3>4. CASE Goto("pause")
        BY <1>0, <1>1, <3>4, GotoMoves, Outside
      <3> QED
        BY <2>2, <3>1, <3>2, <3>3, <3>4 DEF Failed
    <2>3. CASE Pause
      <3>1. CASE coord' = Drained
        BY <1>0, <3>1, DrainedMoves, Rests DEF Resting
      <3>2. CASE /\ IsOpen(coord.op)
                 /\ Transition(rec[coord.op].state, rec[coord.op].blocked_by, coord.fail,
                               "drain", "pause")
        <4>1. /\ rec[coord.op].state \in State /\ rec[coord.op].blocked_by \in SUBSET Ops
              /\ Justified(coord.op, rec[coord.op].state)
          BY <1>0, <1>1, <3>2 DEF LedgerInv, LedgerType, Row, RowInv, IsOpen, Exists
        <4>2. coord.fail \in Error
          BY <1>0 DEF Coordinator, Error
        <4> QED
          BY <1>0, <1>1, <3>2, <4>1, <4>2, CallMoves
      <3> QED
        BY <2>3, <3>1, <3>2 DEF Pause
    <2> QED
      BY <2>1, <2>2, <2>3
  <1> QED
    BY <1>2, <1>3, <1>4, QuietStep

\* Every step of the coordinator keeps the invariant.
LEMMA CoordinatorSteps ==
    ASSUME IInv, CoordinatorStep
    PROVE  IInv'
  BY DrainSteps, ReadingSteps, EffectSteps, TransitionSteps, FailingSteps, EndingSteps
     DEF CoordinatorStep

-----------------------------------------------------------------------------
(* The steps of the others *)

\* What the coordinator relies on survives the steps of the other tasks.
LEMMA CoordStable ==
    ASSUME CoordInv, Safe, UNCHANGED <<coord, stored>>
    PROVE  CoordInv'
  <1>1. coord.pc \in Bodied \cup {"deps", "read", "commit"} => coord.op \in Ops
    BY DEF CoordInv, Resting, Bodied
  <1>2. coord.op \in Ops => /\ Exists(coord.op) => Exists(coord.op)'
                            /\ DepsCommitted(coord.op) => DepsCommitted(coord.op)'
    BY DEF Safe, Exists, DepsCommitted, IsCommitted
  <1>3. ASSUME coord.pc \in {"read", "commit"}, GoalInv
        PROVE  GoalInv'
    <2>1. coord.goal.to \in State
      BY <1>3 DEF GoalInv, Goal
    <2>2. Justified(coord.op, coord.goal.to)'
      BY <1>1, <1>2, <1>3, <2>1 DEF GoalInv, Justified
    <2> QED
      BY <1>3, <2>2 DEF GoalInv
  <1> QED
    BY <1>1, <1>2, <1>3 DEF CoordInv

\* The types of what a step does not touch.
LEMMA OthersKeep ==
    ASSUME IInv, LedgerInv', Safe, Others', UNCHANGED <<coord, stored>>, late' \subseteq Txn,
           \A t \in Txn : Carried(t)' => Carried(t) \/ TxnOK(t),
           operator' \in OperatorRequest, OperatorInv',
           client' \in [Clients -> Submission], ClientInv'
    PROVE  IInv'
  <1>1. TxnInv'
    BY DEF IInv, TxnInv, Safe
  <1>2. CoordInv'
    BY CoordStable DEF IInv
  <1> QED
    BY <1>1, <1>2 DEF IInv

\* Every step of retry() and reject() keeps the invariant.
LEMMA OperatorSteps ==
    ASSUME IInv, OperatorStep \/ \E op \in Ops : OperatorRetry(op) \/ RejectLock(op)
    PROVE  IInv'
  <1>0. /\ LedgerInv /\ Others /\ late \subseteq Txn /\ operator \in OperatorRequest
        /\ OperatorInv /\ client \in [Clients -> Submission] /\ ClientInv
    BY DEF IInv
  <1>c. UNCHANGED client => client' \in [Clients -> Submission] /\ ClientInv'
    BY <1>0 DEF ClientInv
  <1>e. /\ NoRequest \in OperatorRequest /\ NoRequest.pc = "idle" /\ NoRequest.txn = NoTxn
    BY DEF NoRequest, OperatorRequest
  <1>n. ASSUME operator' = NoRequest
        PROVE  operator' \in OperatorRequest /\ OperatorInv' /\ operator'.txn = NoTxn
    BY <1>n, <1>e DEF OperatorInv
  <1>1. ASSUME NEW op \in Ops, OperatorRetry(op)
        PROVE  IInv'
    <2>1. UNCHANGED <<rec, events, planned, embedding, stored, late, in_flight, mutex, coord,
                      operator, client, model, faults, crashes>>
      BY <1>1 DEF OperatorRetry, durable
    <2>2. wake' \in Seq(Ops) /\ requests' \in Nat
      BY <1>0, <1>1 DEF OperatorRetry, Others
    <2>3. Others' /\ OperatorInv' /\ \A t \in Txn : Carried(t)' => Carried(t)
      BY <1>0, <2>1, <2>2 DEF Others, OperatorInv, Carried
    <2> QED
      BY <1>0, <1>c, <2>1, <2>3, Untouched, OthersKeep
  <1>2. ASSUME NEW op \in Ops, RejectLock(op)
        PROVE  IInv'
    <2>1. /\ operator' = [operator EXCEPT !.pc = "check", !.op = op] /\ mutex' = "operator"
          /\ UNCHANGED <<rec, events, late, faults, planned, embedding, stored, wake,
                         in_flight, coord, client, model, crashes>>
      BY <1>2 DEF RejectLock, OperatorFrame
    <2>2. requests' \in Nat
      <3>1. requests > 0 /\ requests' = requests - 1
        BY <1>2 DEF RejectLock
      <3> QED
        BY <1>0, <3>1 DEF Others
    <2>3. /\ operator' \in OperatorRequest /\ operator'.txn = operator.txn
          /\ operator'.pc = "check" /\ operator'.op = op
      BY <1>0, <2>1 DEF OperatorRequest
    <2>4. Others' /\ OperatorInv' /\ \A t \in Txn : Carried(t)' => Carried(t)
      BY <1>0, <2>1, <2>2, <2>3 DEF Others, OperatorInv, Carried
    <2> QED
      BY <1>0, <1>c, <2>1, <2>3, <2>4, Untouched, OthersKeep
  <1>3. CASE RejectCheck \/ RejectRead
    <2>1. /\ operator.pc \in {"check", "read"} /\ operator.op \in Ops
          /\ UNCHANGED <<rec, events, late, requests, planned, embedding, stored, wake,
                         in_flight, coord, client, model, crashes>>
      BY <1>0, <1>3 DEF RejectCheck, RejectRead, OperatorInv, OperatorFrame
    <2>2. faults' \in Nat /\ mutex' \in {"free", "operator"}
      BY <1>0, <1>3 DEF RejectCheck, RejectRead, RejectEnds, Spend, Others
    <2>3. Others' /\ late' \subseteq Txn
      BY <1>0, <2>1, <2>2 DEF Others
    <2>4. CASE operator' = NoRequest
      <3>1. \A t \in Txn : Carried(t)' => Carried(t)
        BY <1>n, <2>1, <2>4, NoTxnIsNone DEF Carried
      <3> QED
        BY <1>0, <1>c, <1>n, <2>1, <2>3, <2>4, <3>1, Untouched, OthersKeep
    <2>5. CASE operator' = [operator EXCEPT !.pc = "read"]
      <3>1. /\ operator' \in OperatorRequest /\ operator'.txn = operator.txn
            /\ operator'.pc = "read" /\ operator'.op = operator.op
        BY <1>0, <2>5 DEF OperatorRequest
      <3>2. OperatorInv' /\ \A t \in Txn : Carried(t)' => Carried(t)
        BY <2>1, <3>1 DEF OperatorInv, Carried
      <3> QED
        BY <1>0, <1>c, <2>1, <2>3, <3>1, <3>2, Untouched, OthersKeep
    <2>6. CASE /\ IsOpen(operator.op)
               /\ operator' = [operator EXCEPT !.pc = "commit",
                                !.txn = NextTxn(operator.op, "rejected", {}, "operator")]
      <3> DEFINE t == NextTxn(operator.op, "rejected", {}, "operator")
      <3>1. t \in Txn /\ TxnOK(t)
        <4>1. /\ "rejected" \in State /\ "operator" \in Error
              /\ Justified(operator.op, "rejected")
          BY DEF State, Started, Terminal, Error, Justified
        <4> QED
          BY <1>0, <2>1, <2>6, <4>1, NextTxnOK
      <3> HIDE DEF t
      <3>2. operator' = [operator EXCEPT !.pc = "commit", !.txn = t]
        BY <2>6 DEF t
      <3>3. /\ operator' \in OperatorRequest /\ operator'.txn = t
            /\ operator'.pc = "commit" /\ operator'.op = operator.op
        BY <1>0, <3>1, <3>2 DEF OperatorRequest
      <3>4. OperatorInv' /\ \A u \in Txn : Carried(u)' => Carried(u) \/ TxnOK(u)
        BY <2>1, <3>1, <3>3 DEF OperatorInv, Carried
      <3> QED
        BY <1>0, <1>c, <2>1, <2>3, <3>3, <3>4, Untouched, OthersKeep
    <2> QED
      BY <1>3, <2>4, <2>5, <2>6 DEF RejectCheck, RejectRead, RejectEnds
  <1>4. CASE RejectCommit
    <2>1. /\ operator.pc = "commit" /\ operator' = NoRequest /\ mutex' = "free"
          /\ UNCHANGED <<requests, planned, embedding, stored, wake, in_flight, coord,
                         client, model, crashes>>
      BY <1>4 DEF RejectCommit, RejectEnds, OperatorFrame
    <2>2. operator.txn \in Txn /\ Carried(operator.txn) /\ TxnOK(operator.txn)
      BY <1>0, <2>1 DEF IInv, OperatorInv, TxnInv, Carried
    <2>3. /\ LedgerInv' /\ Safe /\ faults' \in Nat
          /\ late' \subseteq late \cup {operator.txn} /\ late' \subseteq Txn
      <3>1. CASE KeyFree(operator.txn) /\ Write(operator.txn) /\ UNCHANGED <<late, faults>>
        BY <1>0, <2>1, <2>2, <3>1, Committing DEF Others
      <3>2. CASE Conflict(operator.txn) /\ UNCHANGED <<late, faults>>
        BY <1>0, <2>1, <3>2, Untouched DEF Conflict, Others
      <3>3. CASE Abandon(operator.txn)
        BY <2>1, <2>2, <3>3, Abandoning
      <3> QED
        BY <1>4, <3>1, <3>2, <3>3 DEF RejectCommit
    <2>4. Others'
      BY <1>0, <2>1, <2>3 DEF Others
    <2>5. \A t \in Txn : Carried(t)' => Carried(t)
      BY <1>n, <2>1, <2>3, NoTxnIsNone DEF Carried
    <2> QED
      BY <1>c, <1>n, <2>1, <2>3, <2>4, <2>5, OthersKeep
  <1> QED
    BY <1>1, <1>2, <1>3, <1>4 DEF OperatorStep

\* The caller is answered, or goes on without a transaction.
LEMMA Answering ==
    ASSUME IInv, NEW c \in Clients,
           NEW pc \in Outcome \cup {"read", "reread", "wake", "rewake"}, Answer(c, pc)
    PROVE  /\ client' \in [Clients -> Submission] /\ ClientInv'
           /\ \A d \in Clients : client'[d].txn \in {client[d].txn, NoTxn}
  <1> DEFINE a == [pc |-> pc, txn |-> NoTxn]
  <1>0. client \in [Clients -> Submission] /\ ClientInv
    BY DEF IInv
  <1>1. a \in Submission /\ a.pc # "create" /\ a.txn = NoTxn
    BY DEF Submission, Outcome
  <1>2. client' = [client EXCEPT ![c] = a]
    BY DEF Answer
  <1> HIDE DEF a
  <1> QED
    BY <1>0, <1>1, <1>2 DEF ClientInv

\* Every step of submit() keeps the invariant.
LEMMA ClientSteps ==
    ASSUME IInv, NEW c \in Clients, ClientStep(c)
    PROVE  IInv'
  <1>0. /\ LedgerInv /\ Others /\ late \subseteq Txn /\ operator \in OperatorRequest
        /\ OperatorInv /\ client \in [Clients -> Submission] /\ ClientInv
    BY DEF IInv
  <1>1. /\ UNCHANGED <<planned, embedding, stored, in_flight, mutex, coord, operator, model,
                       requests, crashes>>
        /\ Op(c) \in Ops
    BY LedgerAssumption DEF ClientStep, SubmitGet, SubmitCreate, SubmitReread, SubmitRead,
                            SubmitWake, ClientFrame, Op
  <1>2. operator' \in OperatorRequest /\ OperatorInv'
    BY <1>0, <1>1 DEF OperatorInv
  <1>3. ASSUME NEW pc \in Outcome \cup {"read", "reread", "wake", "rewake"}, Answer(c, pc),
               late' \subseteq late \cup {client[c].txn}
        PROVE  \A t \in Txn : Carried(t)' => Carried(t)
    <2>1. \A d \in Clients : client'[d].txn \in {client[d].txn, NoTxn}
      BY <1>3, Answering
    <2> QED
      BY <1>1, <1>3, <2>1, NoTxnIsNone DEF Carried
  <1>4. CASE SubmitGet(c) \/ SubmitReread(c) \/ SubmitRead(c)
    <2>1. UNCHANGED <<rec, events, late, wake>> /\ faults' \in Nat
      BY <1>0, <1>4 DEF SubmitGet, SubmitReread, SubmitRead, Spend, Others
    <2>2. Others' /\ late' \subseteq Txn /\ LedgerInv' /\ Safe
      BY <1>0, <1>1, <2>1, Untouched DEF Others
    <2>3. CASE \E pc \in Outcome \cup {"wake", "rewake"} : Answer(c, pc)
      BY <1>1, <1>2, <1>3, <2>1, <2>2, <2>3, Answering, OthersKeep
    <2>4. CASE client' = [client EXCEPT ![c] = [pc |-> "create", txn |-> CreateTxn(c)]]
      <3> DEFINE t == CreateTxn(c)
                 a == [pc |-> "create", txn |-> t]
      <3>1. t \in Txn /\ TxnOK(t)
        BY <1>0, CreateTxnOK
      <3> HIDE DEF t
      <3>2. a \in Submission /\ a.txn = t
        BY <3>1 DEF Submission
      <3>3. client' = [client EXCEPT ![c] = a]
        BY <2>4 DEF t
      <3> HIDE DEF a
      <3>4. client' \in [Clients -> Submission] /\ ClientInv'
        BY <1>0, <3>1, <3>2, <3>3 DEF ClientInv
      <3>5. \A d \in Clients : client'[d].txn \in {client[d].txn, t}
        BY <1>0, <3>2, <3>3
      <3>6. \A u \in Txn : Carried(u)' => Carried(u) \/ TxnOK(u)
        BY <1>1, <2>1, <3>1, <3>5 DEF Carried
      <3> QED
        BY <1>1, <1>2, <2>2, <3>4, <3>6, OthersKeep
    <2> QED
      BY <1>4, <2>3, <2>4 DEF SubmitGet, SubmitReread, SubmitRead, Outcome
  <1>5. CASE SubmitCreate(c)
    <2> DEFINE t == client[c].txn
    <2>1. client[c].pc = "create" /\ UNCHANGED wake
      BY <1>5 DEF SubmitCreate
    <2>2. t \in Txn /\ Carried(t) /\ TxnOK(t)
      BY <1>0, <2>1 DEF IInv, ClientInv, TxnInv, Carried
    <2>3. /\ LedgerInv' /\ Safe /\ faults' \in Nat
          /\ late' \subseteq late \cup {t} /\ late' \subseteq Txn
      <3>1. CASE KeyFree(t) /\ Write(t) /\ UNCHANGED <<late, faults>>
        BY <1>0, <1>1, <2>2, <3>1, Committing DEF Others
      <3>2. CASE Conflict(t) /\ UNCHANGED <<late, faults>>
        BY <1>0, <1>1, <3>2, Untouched DEF Conflict, Others
      <3>3. CASE Abandon(t)
        BY <1>1, <2>2, <3>3, Abandoning
      <3> QED
        BY <1>5, <3>1, <3>2, <3>3 DEF SubmitCreate
    <2>4. Answer(c, "read") \/ Answer(c, "reread")
      BY <1>5 DEF SubmitCreate
    <2>5. Others'
      BY <1>0, <1>1, <2>1, <2>3 DEF Others
    <2> QED
      BY <1>1, <1>2, <1>3, <2>3, <2>4, <2>5, Answering, OthersKeep
  <1>6. CASE SubmitWake(c)
    <2>1. /\ UNCHANGED <<rec, events, late, faults>> /\ wake' = Append(wake, Op(c))
          /\ Answer(c, "accepted") \/ Answer(c, "replayed")
      BY <1>6 DEF SubmitWake, ClientFrame
    <2>2. wake' \in Seq(Ops)
      BY <1>0, <1>1, <2>1 DEF Others
    <2>3. Others' /\ late' \subseteq Txn /\ LedgerInv' /\ Safe
      BY <1>0, <1>1, <2>1, <2>2, Untouched DEF Others
    <2>4. {"accepted", "replayed"} \subseteq Outcome
      BY DEF Outcome
    <2> QED
      BY <1>1, <1>2, <1>3, <2>1, <2>3, <2>4, Answering, OthersKeep
  <1> QED
    BY <1>4, <1>5, <1>6 DEF ClientStep

\* So does a transaction that commits after its caller has given up.
LEMMA LateCommits ==
    ASSUME IInv, NEW t \in late, LateCommit(t)
    PROVE  IInv'
  <1>1. /\ KeyFree(t) /\ Write(t) /\ late' = late \ {t}
        /\ UNCHANGED <<planned, embedding, stored, wake, in_flight, mutex, coord, operator,
                       client, model, faults, requests, crashes>>
    BY DEF LateCommit
  <1>2. t \in Txn /\ TxnOK(t) /\ LedgerInv
    BY DEF IInv, TxnInv, Carried
  <1>3. LedgerInv' /\ Safe
    BY <1>1, <1>2, Committing
  <1>4. /\ Others' /\ late' \subseteq Txn /\ OperatorInv' /\ ClientInv'
        /\ operator' \in OperatorRequest /\ client' \in [Clients -> Submission]
        /\ \A u \in Txn : Carried(u)' => Carried(u)
    BY <1>1 DEF IInv, Others, OperatorInv, ClientInv, Carried
  <1> QED
    BY <1>1, <1>3, <1>4, OthersKeep

\* So does a restart of the server.
LEMMA Crashes ==
    ASSUME IInv, Crash
    PROVE  IInv'
  <1>1. /\ UNCHANGED <<rec, events, planned, embedding, stored, faults, requests>>
        /\ crashes > 0 /\ crashes' = crashes - 1 /\ late' \subseteq Outstanding
        /\ wake' = <<>> /\ in_flight' = NoOp /\ mutex' = "free" /\ model' \in Models
        /\ coord' = InitCoord /\ operator' = NoRequest
        /\ client' = [c \in Clients |->
                        IF client[c].pc \in Outcome \cup {"get"} THEN client[c]
                        ELSE [pc |-> "lost", txn |-> NoTxn]]
    BY DEF Crash, durable, Outstanding
  <1>2. LedgerInv' /\ Safe
    BY <1>1, Untouched DEF IInv
  <1>3. Others'
    BY <1>1 DEF IInv, Others
  <1>4. /\ coord' \in Coordinator /\ CoordInv' /\ coord'.txn = NoTxn
        /\ operator' \in OperatorRequest /\ OperatorInv' /\ operator'.txn = NoTxn
    <2>1. InitCoord \in Coordinator /\ InitCoord.pc = "startup" /\ InitCoord.txn = NoTxn
      BY DEF InitCoord, Coordinator
    <2>2. NoRequest \in OperatorRequest /\ NoRequest.pc = "idle" /\ NoRequest.txn = NoTxn
      BY DEF NoRequest, OperatorRequest
    <2> QED
      BY <1>1, <2>1, <2>2, Rests DEF Resting, OperatorInv
  <1>5. /\ client' \in [Clients -> Submission] /\ ClientInv'
        /\ \A c \in Clients : client'[c].txn \in {client[c].txn, NoTxn}
    <2>1. [pc |-> "lost", txn |-> NoTxn] \in Submission
      BY DEF Submission, Outcome
    <2> QED
      BY <1>1, <2>1 DEF IInv, ClientInv, Outcome
  <1>6. \A t \in Outstanding : t \in Txn /\ Carried(t)
    <2>1. coord.txn \in Txn \cup {NoTxn} /\ operator.txn \in Txn \cup {NoTxn}
      BY DEF IInv, Coordinator, OperatorRequest
    <2>2. \A c \in Clients : client[c].txn \in Txn \cup {NoTxn}
      BY DEF IInv, Submission
    <2> QED
      BY <2>1, <2>2 DEF IInv, Outstanding, Sent, Carried
  <1>7. TxnInv'
    <2> SUFFICES ASSUME NEW t \in Txn, Carried(t)'
                 PROVE  TxnOK(t)'
      BY DEF TxnInv
    <2>1. Carried(t)
      BY <1>1, <1>4, <1>5, <1>6, NoTxnIsNone DEF Carried
    <2> QED
      BY <1>2, <2>1 DEF IInv, TxnInv, Safe
  <1> QED
    BY <1>1, <1>2, <1>3, <1>4, <1>5, <1>6, <1>7 DEF IInv

-----------------------------------------------------------------------------
(* The theorems *)

\* The strengthened invariant holds in every reachable state: it is established
\* by an empty database and kept by every step of every task.
THEOREM Inductive == Spec => []IInv
  <1>1. Init => IInv
    <2> SUFFICES ASSUME Init PROVE IInv
      OBVIOUS
    <2> USE DEF Init
    <2>1. LedgerInv
      <3>1. LedgerType
        BY DEF LedgerType, Row, Error, Failure
      <3>2. EventLogComplete
        <4> SUFFICES ASSUME NEW op \in Ops PROVE LogComplete(op)
          BY DEF EventLogComplete
        <4>1. events[op] = {} /\ rec[op].seq = 0
          OBVIOUS
        <4>2. {e.seq : e \in events[op]} = 1..rec[op].seq
          BY <4>1
        <4> QED
          BY <4>1, <4>2 DEF LogComplete
      <3>3. RowInv
        BY DEF RowInv, Justified, Started
      <3> QED
        BY <3>1, <3>2, <3>3 DEF LedgerInv
    <2>2. Others /\ late \subseteq Txn
      BY LedgerAssumption DEF Others
    <2>3. coord \in Coordinator /\ coord.pc = "startup" /\ coord.txn = NoTxn
      BY DEF InitCoord, Coordinator
    <2>4. operator \in OperatorRequest /\ operator.pc = "idle" /\ operator.txn = NoTxn
      BY DEF NoRequest, OperatorRequest
    <2>5. /\ client \in [Clients -> Submission]
          /\ \A c \in Clients : client[c].pc \in {"get", "lost"} /\ client[c].txn = NoTxn
      BY DEF Submission, Outcome
    <2>6. TxnInv
      BY <2>3, <2>4, <2>5, NoTxnIsNone DEF TxnInv, Carried
    <2>7. CoordInv /\ OperatorInv /\ ClientInv
      BY <2>3, <2>4, <2>5 DEF CoordInv, Resting, Bodied, OperatorInv, ClientInv
    <2> QED
      BY <2>1, <2>2, <2>3, <2>4, <2>5, <2>6, <2>7 DEF IInv
  <1>2. IInv /\ [Next]_vars => IInv'
    <2> SUFFICES ASSUME IInv, [Next]_vars PROVE IInv'
      OBVIOUS
    <2>1. CASE Next
      BY <2>1, CoordinatorSteps, OperatorSteps, ClientSteps, LateCommits, Crashes DEF Next
    <2>2. CASE UNCHANGED vars
      <3>1. LedgerInv' /\ Safe
        BY <2>2, Untouched DEF IInv, vars
      <3>2. /\ Others' /\ late' \subseteq Txn /\ OperatorInv' /\ ClientInv'
            /\ operator' \in OperatorRequest /\ client' \in [Clients -> Submission]
            /\ \A u \in Txn : Carried(u)' => Carried(u)
        BY <2>2 DEF IInv, vars, Others, OperatorInv, ClientInv, Carried
      <3> QED
        BY <2>2, <3>1, <3>2, OthersKeep DEF vars
    <2> QED
      BY <2>1, <2>2
  <1> QED
    BY <1>1, <1>2, PTL DEF Spec

\* Every variable of the ledger keeps its type.
THEOREM TypeCorrect == Spec => []TypeOK
  <1>1. IInv => TypeOK
    BY DEF IInv, TypeOK, LedgerInv, LedgerType, Others
  <1> QED
    BY <1>1, Inductive, PTL

\* The event log of every operation is complete and chained, and ends in the
\* state of its row, although transactions are built from rows read earlier and
\* the UPDATE of transition() has no guard of its own.
THEOREM LogIsComplete == Spec => []EventLogComplete
  <1>1. IInv => EventLogComplete
    BY DEF IInv, LedgerInv
  <1> QED
    BY <1>1, Inductive, PTL

\* process() moves no operation past `blocked` before its dependencies commit.
THEOREM DependenciesFirst == Spec => []StartedAfterDependencies
  <1>1. IInv => StartedAfterDependencies
    BY DEF IInv, LedgerInv, RowInv, Justified, StartedAfterDependencies
  <1> QED
    BY <1>1, Inductive, PTL

-----------------------------------------------------------------------------
(* What a step does to rows and store *)

\* The coordinator puts the effect of an operation it may work on into the store.
Applies == /\ coord.op \in Ops /\ Exists(coord.op) /\ DepsCommitted(coord.op)
           /\ stored' = stored \cup {coord.op}

\* Every step writes no row, and perhaps the store, or commits one transaction.
LEMMA LedgerMoves ==
    ASSUME IInv, [Next]_vars
    PROVE  \/ UNCHANGED <<rec, events>> /\ (UNCHANGED stored \/ Applies)
           \/ \E t \in Txn : TxnOK(t) /\ KeyFree(t) /\ Write(t) /\ UNCHANGED stored
  <1> DEFINE Quiet   == UNCHANGED <<rec, events, stored>>
             Commits == \E t \in Txn : TxnOK(t) /\ KeyFree(t) /\ Write(t) /\ UNCHANGED stored
  <1>0. \A t \in Txn : Carried(t) => TxnOK(t)
    BY DEF IInv, TxnInv
  <1>1. CASE Discover \/ DiscoverFails \/ TakeWake \/ StartNext \/ WaveEnds
    BY <1>1 DEF Discover, DiscoverFails, TakeWake, StartNext, WaveEnds, durable
  <1>2. CASE Load \/ CheckDependencies \/ Plan \/ Advance \/ Embed
    BY <1>2 DEF Load, CheckDependencies, Plan, Advance, Embed, durable
  <1>3. CASE Finish \/ Seal \/ TransitionRead \/ Done \/ Failed \/ Pause
    BY <1>3 DEF Finish, Seal, TransitionRead, Done, Failed, Pause, durable
  <1>4. CASE Store \/ AwaitFails
    <2>1. UNCHANGED <<rec, events>>
      BY <1>4 DEF Store, AwaitFails
    <2>2. UNCHANGED stored \/ (coord.pc = "store" /\ stored' = stored \cup {coord.op})
      BY <1>4 DEF Store, AwaitFails, At
    <2>3. coord.pc = "store" => /\ coord.op \in Ops /\ Exists(coord.op)
                                /\ DepsCommitted(coord.op)
      BY DEF IInv, CoordInv, Resting, Bodied
    <2> QED
      BY <2>1, <2>2, <2>3 DEF Applies
  <1>5. CASE TransitionCommit \/ TransitionLost
    <2>1. coord.txn \in Txn /\ TxnOK(coord.txn) /\ UNCHANGED stored
      BY <1>0, <1>5 DEF TransitionCommit, TransitionLost, At, IInv, CoordInv, Carried
    <2>2. UNCHANGED <<rec, events>> \/ (KeyFree(coord.txn) /\ Write(coord.txn))
      BY <1>5 DEF TransitionCommit, TransitionLost, Conflict, Abandon
    <2> QED
      BY <2>1, <2>2
  <1>6. CASE RejectCheck \/ RejectRead \/ \E op \in Ops : OperatorRetry(op) \/ RejectLock(op)
    BY <1>6 DEF RejectCheck, RejectRead, OperatorRetry, RejectLock, OperatorFrame, durable
  <1>7. CASE RejectCommit
    <2>1. operator.txn \in Txn /\ TxnOK(operator.txn) /\ UNCHANGED stored
      BY <1>0, <1>7 DEF RejectCommit, OperatorFrame, IInv, OperatorInv, Carried
    <2>2. UNCHANGED <<rec, events>> \/ (KeyFree(operator.txn) /\ Write(operator.txn))
      BY <1>7 DEF RejectCommit, Conflict, Abandon
    <2> QED
      BY <2>1, <2>2
  <1>8. ASSUME NEW c \in Clients, ClientStep(c)
        PROVE  Quiet \/ Commits
    <2>1. CASE SubmitCreate(c)
      <3>1. client[c].txn \in Txn /\ TxnOK(client[c].txn) /\ UNCHANGED stored
        BY <1>0, <2>1 DEF SubmitCreate, ClientFrame, IInv, ClientInv, Carried
      <3>2. UNCHANGED <<rec, events>> \/ (KeyFree(client[c].txn) /\ Write(client[c].txn))
        BY <2>1 DEF SubmitCreate, Conflict, Abandon
      <3> QED
        BY <3>1, <3>2
    <2>2. CASE ~SubmitCreate(c)
      BY <1>8, <2>2 DEF ClientStep, SubmitGet, SubmitReread, SubmitRead, SubmitWake, ClientFrame
    <2> QED
      BY <2>1, <2>2
  <1>9. ASSUME NEW t \in late, LateCommit(t)
        PROVE  Commits
    <2>1. t \in Txn /\ TxnOK(t)
      BY <1>0 DEF IInv, Carried
    <2> QED
      BY <1>9, <2>1 DEF LateCommit
  <1>10. CASE Crash \/ UNCHANGED vars
    BY <1>10 DEF Crash, durable, vars
  <1>11. CASE CoordinatorStep
    BY <1>11, <1>1, <1>2, <1>3, <1>4, <1>5 DEF CoordinatorStep
  <1>12. CASE OperatorStep
    BY <1>12, <1>6, <1>7 DEF OperatorStep
  <1> QED
    BY <1>6, <1>8, <1>9, <1>10, <1>11, <1>12 DEF Next

\* A committed or rejected row never changes again, whatever transaction of any
\* task, of an abandoned request or of an earlier life of the server commits.
THEOREM TerminalRowsAreFinal == Spec => TerminalImmutable
  <1>1. IInv /\ [Next]_vars => [\A op \in Ops : IsTerminal(op) => rec'[op] = rec[op]]_vars
    <2> SUFFICES ASSUME IInv, [Next]_vars
                 PROVE  \A op \in Ops : IsTerminal(op) => rec'[op] = rec[op]
      OBVIOUS
    <2>1. CASE UNCHANGED rec
      BY <2>1
    <2>2. CASE \E t \in Txn : TxnOK(t) /\ KeyFree(t) /\ Write(t) /\ UNCHANGED stored
      BY <2>2, Committing DEF IInv, Safe
    <2> QED
      BY <2>1, <2>2, LedgerMoves
  <1> QED
    BY <1>1, Inductive, PTL DEF Spec, TerminalImmutable

-----------------------------------------------------------------------------
(* Refinement *)

\* The step of Receipt that a commit of the ledger is.
LEMMA CommitRefines ==
    ASSUME IInv, NEW t \in Txn, TxnOK(t), KeyFree(t), Write(t), UNCHANGED stored
    PROVE  [Receipts!Next]_(Receipts!vars)
  <1> DEFINE op == t.op
             receipt == [o \in Ops |-> Abstract(o)]
  <1>1. /\ op \in Ops /\ t.to \in State /\ t.seq \in Nat
        /\ rec \in [Ops -> Row] /\ EventLogComplete
    BY DEF Txn, IInv, LedgerInv, LedgerType
  <1>2. rec[op].state \in State \cup {"absent"} /\ rec[op].seq \in Nat
    BY <1>1 DEF Row
  <1>3. t.from = rec[op].state /\ rec[op].state \notin Terminal
    <2>1. t.seq \notin 1..rec[op].seq
      BY <1>1 DEF KeyFree, EventLogComplete, LogComplete
    <2>2. t.seq = rec[op].seq + 1
      BY <1>1, <1>2, <2>1 DEF TxnOK
    <2> QED
      BY <2>2 DEF TxnOK
  <1>4. rec'[op].state = t.to /\ \A o \in Ops : o # op => rec'[o] = rec[o]
    BY <1>1 DEF Write
  <1>5. /\ Abstract(op) = IF rec[op].state = "absent" THEN "absent" ELSE "open"
        /\ Abstract(op)' = IF t.to \in Terminal THEN t.to ELSE "open"
        /\ \A o \in Ops : o # op => Abstract(o)' = Abstract(o)
    BY <1>1, <1>3, <1>4 DEF Abstract, State, Waiting, Started, Terminal
  <1>6. receipt' = [receipt EXCEPT ![op] = Abstract(op)']
    BY <1>1, <1>5
  <1>7. receipt[op] = Abstract(op)
    BY <1>1
  <1>8. CASE rec[op].state = "absent"
    <2>1. Receipts!Accept(op)
      BY <1>3, <1>5, <1>6, <1>7, <1>8 DEF Receipts!Accept, TxnOK
    <2> QED
      BY <1>1, <2>1 DEF Receipts!Next
  <1>9. CASE rec[op].state # "absent" /\ t.to = "rejected"
    <2>1. Receipts!Reject(op)
      BY <1>5, <1>6, <1>7, <1>9 DEF Receipts!Reject, Terminal
    <2> QED
      BY <1>1, <2>1 DEF Receipts!Next
  <1>10. CASE rec[op].state # "absent" /\ t.to = "committed"
    <2>1. op \in stored /\ DepsCommitted(op)
      BY <1>10 DEF TxnOK, Justified
    <2>2. \A d \in Deps[op] : receipt[d] = "committed"
      BY <1>1, <2>1, LedgerAssumption DEF DepsCommitted, IsCommitted, Abstract, Terminal
    <2>3. Receipts!Commit(op)
      BY <1>5, <1>6, <1>7, <1>10, <2>1, <2>2 DEF Receipts!Commit, Receipts!Committed, Terminal
    <2> QED
      BY <1>1, <2>3 DEF Receipts!Next
  <1>11. CASE rec[op].state # "absent" /\ t.to \notin Terminal
    <2>1. receipt' = receipt
      BY <1>1, <1>5, <1>6, <1>7, <1>11
    <2> QED
      BY <2>1 DEF Receipts!vars
  <1> QED
    BY <1>8, <1>9, <1>10, <1>11 DEF Terminal

\* The ledger implements Receipt: an operation is accepted once, its effect
\* reaches the store only after its dependencies have committed, it commits only
\* with its effect in the store, and a final answer stays.
THEOREM LedgerImplementsReceipt == Spec => ImplementsReceipt
  <1>1. Init => Receipts!Init
    BY DEF Init, Receipts!Init, Abstract
  <1>2. IInv /\ [Next]_vars => [Receipts!Next]_(Receipts!vars)
    <2> SUFFICES ASSUME IInv, [Next]_vars
                 PROVE  [Receipts!Next]_(Receipts!vars)
      OBVIOUS
    <2>1. CASE UNCHANGED <<rec, stored>>
      <3>1. [op \in Ops |-> Abstract(op)]' = [op \in Ops |-> Abstract(op)]
        BY <2>1 DEF Abstract
      <3> QED
        BY <2>1, <3>1 DEF Receipts!vars
    <2>2. CASE UNCHANGED rec /\ Applies
      <3>1. [op \in Ops |-> Abstract(op)]' = [op \in Ops |-> Abstract(op)]
        BY <2>2 DEF Abstract
      <3>2. \A d \in Deps[coord.op] : d \in Ops /\ Abstract(d) = "committed"
        BY <2>2, LedgerAssumption DEF Applies, DepsCommitted, IsCommitted, Abstract, Terminal
      <3>3. coord.op \in Ops /\ Abstract(coord.op) # "absent"
        BY <2>2 DEF Applies, Exists, Abstract, Terminal
      <3>4. Receipts!Apply(coord.op)
        BY <2>2, <3>1, <3>2, <3>3 DEF Receipts!Apply, Receipts!Committed, Applies
      <3> QED
        BY <3>3, <3>4 DEF Receipts!Next
    <2>3. CASE \E t \in Txn : TxnOK(t) /\ KeyFree(t) /\ Write(t) /\ UNCHANGED stored
      BY <2>3, CommitRefines
    <2> QED
      BY <2>1, <2>2, <2>3, LedgerMoves
  <1> QED
    BY <1>1, <1>2, Inductive, PTL DEF Spec, ImplementsReceipt, Receipts!Spec

-----------------------------------------------------------------------------
(* What the ledger promises about the effects of operations and to the     *)
(* clients that submit them.  The invariant above tells which transactions *)
(* can commit; this part adds where the parts of a plan, the store and the *)
(* answers of submit() stand.                                              *)
(*                                                                         *)
(* Receipts move in order and nothing rejected is stored only if a         *)
(* transaction whose caller gave up cannot commit later: those theorems    *)
(* have the hypothesis ~InDoubt, and the runs ledger_order and             *)
(* ledger_reject_stored show how they fail without it.                     *)

-----------------------------------------------------------------------------
(* Plans, parts and the store *)

\* A memory is stored from a complete plan, and parts with a vector stay as they
\* are; the coordinator gets past "parts" only with the plan's rows.
Ready(op) == op \in planned /\ FullyIndexed(op) /\ OneWidth(op)

PlanInv ==
    /\ coord.op \in AddMemory
    /\ \/ coord.pc \in {"advance", "embed", "store"}
       \/ coord.pc \in {"read", "commit"} /\ coord.goal.then = "advance"
    => coord.op \in planned

EffectInv == PlanInv /\ \A op \in stored \cap AddMemory : Ready(op)

-----------------------------------------------------------------------------
(* Answers *)

\* What submission s of client c may rely on.
AnswerOK(c, s) ==
    /\ s.pc \in {"read", "wake", "rewake", "accepted", "replayed"} =>
          Exists(Op(c)) /\ rec[Op(c)].hash = Hash(c)
    /\ s.pc = "conflict" => Exists(Op(c)) /\ rec[Op(c)].hash # Hash(c)
    /\ s.pc = "create" => s.txn = CreateTxn(c)

\* c has created the row of its operation and knows it.
Creator(c) == client[c].pc \in {"read", "wake", "accepted"}

AnswerInv ==
    /\ \A c \in Clients : AnswerOK(c, client[c])
    /\ \A c, d \in Clients : Creator(c) /\ Creator(d) /\ Op(c) = Op(d) => c = d

-----------------------------------------------------------------------------
(* One process at a time *)

Calling == coord.pc \in {"read", "commit"}

\* Between StartNext and the end of process() ...
Working   == coord.pc \in Bodied \cup {"deps"} \/ (Calling /\ coord.goal.caller = "process")
InProcess == Working \/ coord.pc \in {"load", "done", "failed"}

\* ... in_flight keeps reject() away from the operation.
ExclusionInv ==
    /\ InProcess => in_flight = coord.op
    /\ operator.pc # "idle" => mutex = "operator" /\ in_flight # operator.op

\* So process() knows the state of the row, and what it asks for goes forward.
CallOK ==
    /\ coord.goal.then = "drain" <=> coord.goal.caller # "process"
    /\ IsOpen(coord.op) => Rank(rec[coord.op].state) <= Rank(coord.goal.to)
    /\ coord.goal.caller = "dead_letter" => coord.op \notin planned
    /\ coord.goal.caller = "process" /\ coord.goal.to = "rejected" => coord.state \in Waiting
    /\ coord.goal.caller = "pause" => coord.goal.to # "rejected"

ProcessInv ==
    /\ Working => IsOpen(coord.op) /\ coord.state = rec[coord.op].state
    /\ coord.pc \in {"embed", "store"} => coord.state \in {"processing", "indexed"}
    /\ coord.pc = "failed" /\ coord.fail = "permanent" => coord.op \notin planned
    /\ Calling => CallOK

RejectInv ==
    /\ operator.pc \in {"read", "commit"} => operator.op \notin AddMemory \cap stored
    /\ operator.pc = "commit" => operator.txn.op = operator.op /\ operator.txn.to = "rejected"

\* What is stored has got at least as far as "processing".
StoredInv == \A op \in stored : rec[op].state \in {"processing", "indexed"} \cup Terminal

OrderInv == /\ late = {} /\ ExclusionInv /\ ProcessInv /\ RejectInv /\ StoredInv
            /\ RejectedIsNotStored

-----------------------------------------------------------------------------
(* How the coordinator's record changes *)

\* Each of these is one way in which the code of run(), process() and
\* transition() goes on, field by field.
LEMMA GotoFields ==
    ASSUME coord \in Coordinator, NEW pc, Goto(pc)
    PROVE  /\ coord'.pc = pc /\ coord'.op = coord.op /\ coord'.state = coord.state
           /\ coord'.goal = coord.goal /\ coord'.fail = coord.fail
  BY DEF Goto, Coordinator

LEMMA FailFields ==
    ASSUME coord \in Coordinator, NEW f, Fail(f)
    PROVE  coord'.pc = "failed" /\ coord'.op = coord.op /\ coord'.fail = f
  BY DEF Fail, Coordinator

LEMMA DrainedFields ==
    ASSUME coord \in Coordinator
    PROVE  Drained.pc = "drain" /\ Drained.op = NoOp
  BY DEF Drained, Coordinator

LEMMA CallFields ==
    ASSUME coord \in Coordinator, NEW to, NEW blocked_by, NEW error, NEW then, NEW caller,
           Transition(to, blocked_by, error, then, caller)
    PROVE  /\ coord'.pc = "read" /\ coord'.op = coord.op /\ coord'.state = coord.state
           /\ coord'.goal.to = to /\ coord'.goal.then = then /\ coord'.goal.caller = caller
  <1> DEFINE g == [to |-> to, blocked_by |-> blocked_by, error |-> error,
                   then |-> then, caller |-> caller]
  <1>1. g.to = to /\ g.then = then /\ g.caller = caller
    OBVIOUS
  <1>2. coord' = [coord EXCEPT !.pc = "read", !.goal = g]
    BY DEF Transition
  <1> HIDE DEF g
  <1>3. /\ coord'.pc = "read" /\ coord'.op = coord.op /\ coord'.state = coord.state
        /\ coord'.goal = g
    BY <1>2 DEF Coordinator
  <1> QED
    BY <1>1, <1>3

LEMMA FailedCallFields ==
    ASSUME coord \in Coordinator, coord.goal \in Goal, NEW f, TransitionFailed(f)
    PROVE  \/ /\ coord.goal.caller = "process" /\ coord'.pc = "failed"
              /\ coord'.op = coord.op /\ coord'.fail = f
           \/ /\ coord.goal.caller = "dead_letter" /\ coord'.pc = "pause"
              /\ coord'.op = coord.op
           \/ coord.goal.caller = "pause" /\ coord'.pc = "drain"
  <1>1. coord.goal.caller \in {"process", "dead_letter", "pause"}
    BY DEF Goal
  <1>2. CASE coord.goal.caller = "process"
    BY <1>2, FailFields DEF TransitionFailed
  <1>3. CASE coord.goal.caller = "dead_letter"
    BY <1>3 DEF TransitionFailed, Coordinator
  <1>4. CASE coord.goal.caller = "pause"
    BY <1>4, DrainedFields DEF TransitionFailed
  <1> QED
    BY <1>1, <1>2, <1>3, <1>4

\* transition() has built its transaction.
LEMMA BuiltFields ==
    ASSUME coord \in Coordinator, NEW t, coord' = [coord EXCEPT !.pc = "commit", !.txn = t]
    PROVE  /\ coord'.pc = "commit" /\ coord'.op = coord.op /\ coord'.state = coord.state
           /\ coord'.goal = coord.goal /\ coord'.txn = t
  BY DEF Coordinator

\* transition() has committed and process() goes on.
LEMMA ReturnFields ==
    ASSUME coord \in Coordinator, NEW pc, NEW state,
           coord' = [coord EXCEPT !.pc = pc, !.state = state, !.goal = NoGoal, !.txn = NoTxn]
    PROVE  coord'.pc = pc /\ coord'.op = coord.op /\ coord'.state = state
  BY DEF Coordinator

\* What the drain loop does outside process().
LEMMA DrainFields ==
    ASSUME coord \in Coordinator,
           Discover \/ DiscoverFails \/ TakeWake \/ StartNext \/ WaveEnds
    PROVE  \/ coord'.pc \in Resting
           \/ /\ StartNext /\ coord'.pc = "load" /\ in_flight' = coord'.op
              /\ mutex = "free"
  <1>1. CASE Discover
    BY <1>1 DEF Discover, Coordinator, Resting
  <1>2. CASE DiscoverFails
    BY <1>2, GotoFields DEF DiscoverFails, Resting
  <1>3. CASE TakeWake
    BY <1>3 DEF TakeWake, Coordinator, Resting
  <1>4. CASE StartNext
    <2>1. PICK op \in coord.pending :
             /\ coord' = [coord EXCEPT !.pc = "load", !.op = op, !.pending = @ \ {op}]
             /\ in_flight' = op
      BY <1>4 DEF StartNext
    <2>2. coord'.pc = "load" /\ coord'.op = op
      BY <2>1 DEF Coordinator
    <2> QED
      BY <1>4, <2>1, <2>2 DEF StartNext
  <1>5. CASE WaveEnds
    <2>1. coord.pc = "drain"
      BY <1>5 DEF WaveEnds, At
    <2> QED
      BY <1>5, <2>1 DEF WaveEnds, Coordinator, Resting
  <1> QED
    BY <1>1, <1>2, <1>3, <1>4, <1>5

\* What becomes of it when process() has ended.
LEMMA DoneFields ==
    ASSUME coord \in Coordinator, Done
    PROVE  coord'.pc = "drain" /\ in_flight' = NoOp /\ mutex = "free"
  <1>1. CASE coord' = Drained
    BY <1>1, DrainedFields DEF Done
  <1>2. CASE coord' = [Drained EXCEPT !.rescan = @ \/ IsCommitted(coord.op)]
    BY <1>2 DEF Done, Drained, Coordinator
  <1> QED
    BY <1>1, <1>2 DEF Done

LEMMA FailedFields ==
    ASSUME coord \in Coordinator, Failed
    PROVE  /\ in_flight' = NoOp /\ mutex = "free" /\ coord.pc = "failed"
           /\ \/ coord'.pc = "drain"
              \/ /\ coord'.pc = "read" /\ coord'.op = coord.op /\ coord.fail = "permanent"
                 /\ coord'.goal.to = "rejected" /\ coord'.goal.then = "drain"
                 /\ coord'.goal.caller = "dead_letter"
              \/ coord'.pc = "pause"
  <1>1. /\ in_flight' = NoOp /\ mutex = "free" /\ coord.pc = "failed"
    BY DEF Failed, At
  <1>2. CASE coord' = Drained
    BY <1>1, <1>2, DrainedFields
  <1>3. CASE coord.fail = "permanent" /\ Transition("rejected", {}, "permanent", "drain", "dead_letter")
    BY <1>1, <1>3, CallFields
  <1>4. CASE coord' = [Drained EXCEPT !.retried = @ \cup {coord.op}, !.pending = @ \cup {coord.op}]
    BY <1>1, <1>4 DEF Drained, Coordinator
  <1>5. CASE Goto("pause")
    BY <1>1, <1>5, GotoFields
  <1> QED
    BY <1>2, <1>3, <1>4, <1>5 DEF Failed

LEMMA PauseFields ==
    ASSUME coord \in Coordinator, Pause
    PROVE  \/ coord'.pc = "drain"
           \/ /\ coord'.pc = "read" /\ coord'.op = coord.op /\ IsOpen(coord.op)
              /\ coord'.goal.to = rec[coord.op].state /\ coord'.goal.then = "drain"
              /\ coord'.goal.caller = "pause"
  <1>1. CASE coord' = Drained
    BY <1>1, DrainedFields
  <1>2. CASE /\ IsOpen(coord.op)
             /\ Transition(rec[coord.op].state, rec[coord.op].blocked_by, coord.fail,
                           "drain", "pause")
    BY <1>2, CallFields
  <1> QED
    BY <1>1, <1>2 DEF Pause

\* What a failed await leaves.
LEMMA AwaitFailsFields ==
    ASSUME IInv, AwaitFails
    PROVE  \/ /\ coord'.pc = "failed" /\ coord'.op = coord.op /\ coord'.fail # "permanent"
              /\ \/ coord.pc \in {"load", "deps", "parts", "embed", "store", "finish"}
                 \/ coord.pc = "read" /\ coord.goal.caller = "process"
           \/ /\ coord.pc = "read" /\ coord.goal.caller = "dead_letter" /\ coord'.pc = "pause"
           \/ coord.pc = "read" /\ coord'.pc = "drain"
  <1>0. coord \in Coordinator /\ (coord.pc = "read" => coord.goal \in Goal)
    BY DEF IInv, CoordInv, GoalInv
  <1>1. CASE /\ coord.pc \in {"load", "deps", "parts", "embed", "store", "finish"}
             /\ \E f \in {"recovered", "ledger", "executor", "store"} : Fail(f)
    <2>1. PICK f \in {"recovered", "ledger", "executor", "store"} : Fail(f)
      BY <1>1
    <2>2. coord'.pc = "failed" /\ coord'.op = coord.op /\ coord'.fail = f
      BY <1>0, <2>1, FailFields
    <2> QED
      BY <1>1, <2>1, <2>2
  <1>2. CASE coord.pc = "read" /\ \E f \in {"recovered", "ledger"} : TransitionFailed(f)
    BY <1>0, <1>2, FailedCallFields
  <1> QED
    BY <1>1, <1>2 DEF AwaitFails, At

-----------------------------------------------------------------------------
(* Effects *)

\* Plans are never taken back, vectors never change, and an add_memory gets into
\* the store only from parts that all hold vectors of one width.
LEMMA EffectsGrow ==
    ASSUME IInv, [Next]_vars
    PROVE  /\ planned \subseteq planned'
           /\ \A op \in Ops : FullyIndexed(op) => embedding'[op] = embedding[op]
           /\ \A op \in stored' \ stored :
                 /\ op = coord.op /\ coord.pc = "store" /\ UNCHANGED rec
                 /\ op \in AddMemory => FullyIndexed(op) /\ OneWidth(op)
  <1>0. embedding \in [Ops -> [Parts -> Models \cup {NoModel}]]
    BY DEF IInv, Others
  <1>1. CASE UNCHANGED <<planned, embedding, stored>>
    BY <1>1
  <1>2. CASE Plan
    BY <1>2 DEF Plan
  <1>3. ASSUME NEW p \in Parts, embedding[coord.op][p] = NoModel,
               embedding' = [embedding EXCEPT ![coord.op][p] = model],
               UNCHANGED <<planned, stored>>
        PROVE  /\ planned \subseteq planned'
               /\ \A op \in Ops : FullyIndexed(op) => embedding'[op] = embedding[op]
               /\ stored' \ stored = {}
    <2>1. ~FullyIndexed(coord.op)
      BY <1>3 DEF FullyIndexed
    <2> QED
      BY <1>0, <1>3, <2>1
  <1>4. CASE Embed
    BY <1>1, <1>3, <1>4 DEF Embed, ProcessFrame
  <1>5. CASE Store
    BY <1>5 DEF Store, At, Storable
  <1>6. CASE AwaitFails
    BY <1>1, <1>3, <1>6 DEF AwaitFails, At, Storable
  <1>7. CASE Discover \/ DiscoverFails \/ TakeWake \/ StartNext \/ WaveEnds
    BY <1>1, <1>7 DEF Discover, DiscoverFails, TakeWake, StartNext, WaveEnds, durable
  <1>8. CASE Load \/ CheckDependencies \/ Advance \/ Finish \/ Seal \/ TransitionRead
    BY <1>1, <1>8 DEF Load, CheckDependencies, Advance, Finish, Seal, TransitionRead, durable
  <1>9. CASE TransitionCommit \/ TransitionLost \/ Done \/ Failed \/ Pause
    BY <1>1, <1>9 DEF TransitionCommit, TransitionLost, Done, Failed, Pause, durable
  <1>10. CASE OperatorStep \/ \E op \in Ops : OperatorRetry(op) \/ RejectLock(op)
    BY <1>1, <1>10 DEF OperatorStep, RejectCheck, RejectRead, RejectCommit, OperatorRetry,
                       RejectLock, OperatorFrame, durable
  <1>11. CASE \E c \in Clients : ClientStep(c)
    BY <1>1, <1>11 DEF ClientStep, SubmitGet, SubmitCreate, SubmitReread, SubmitRead,
                       SubmitWake, ClientFrame
  <1>12. CASE (\E t \in late : LateCommit(t)) \/ Crash \/ UNCHANGED vars
    BY <1>1, <1>12 DEF LateCommit, Crash, durable, vars
  <1> QED
    BY <1>2, <1>4, <1>5, <1>6, <1>7, <1>8, <1>9, <1>10, <1>11, <1>12 DEF Next, CoordinatorStep

\* The coordinator gets past "parts" only with the rows of the plan.
LEMMA PlanStep ==
    ASSUME IInv, PlanInv, [Next]_vars
    PROVE  PlanInv'
  <1>0. /\ coord \in Coordinator /\ planned \subseteq planned'
        /\ coord.pc \in {"read", "commit"} => coord.goal \in Goal
    BY EffectsGrow DEF IInv, CoordInv, GoalInv
  <1>1. CASE coord'.pc \notin {"advance", "embed", "store", "read", "commit"}
    BY <1>1 DEF PlanInv
  <1>2. CASE UNCHANGED coord
    BY <1>0, <1>2 DEF PlanInv
  <1>3. CASE Discover \/ DiscoverFails \/ TakeWake \/ StartNext \/ WaveEnds
    BY <1>0, <1>1, <1>3, DrainFields DEF Resting
  <1>4. CASE Load
    <2>1. coord'.pc \in {"deps", "done"}
      BY <1>0, <1>4, GotoFields DEF Load, Coordinator
    <2> QED
      BY <1>1, <2>1
  <1>5. CASE CheckDependencies
    <2>1. CASE \E to, blockers, error : Transition(to, blockers, error, "done", "process")
      BY <1>0, <2>1, CallFields DEF PlanInv
    <2>2. CASE Goto("done")
      BY <1>0, <1>1, <2>2, GotoFields
    <2>3. CASE Move("validated", Body(coord.op)) \/ Goto(Body(coord.op))
      <3>1. coord.op \in AddMemory => Body(coord.op) = "parts"
        BY DEF Body
      <3> QED
        BY <1>0, <2>3, <3>1, CallFields, GotoFields DEF PlanInv, Move
    <2> QED
      BY <1>5, <2>1, <2>2, <2>3 DEF CheckDependencies
  <1>6. CASE Plan
    BY <1>0, <1>1, <1>6, GotoFields, FailFields DEF Plan, PlanInv
  <1>7. CASE Advance
    <2>1. coord.op \in AddMemory => coord.op \in planned'
      BY <1>0, <1>7 DEF Advance, At, PlanInv
    <2>2. coord'.op = coord.op
      <3>1. coord.state \in Started
        BY <1>7 DEF Advance, At, IInv, CoordInv
      <3>2. \/ \E to : Move(to, "advance")
            \/ \E pc : Goto(pc)
        BY <1>7, <3>1 DEF Advance, Started
      <3> QED
        BY <1>0, <3>2, CallFields, GotoFields DEF Move
    <2> QED
      BY <2>1, <2>2 DEF PlanInv
  <1>8. CASE Embed
    BY <1>0, <1>2, <1>8, GotoFields DEF Embed, At, PlanInv
  <1>9. CASE Store
    BY <1>0, <1>1, <1>9, GotoFields, FailFields DEF Store
  <1>10. CASE Finish
    BY <1>0, <1>1, <1>10, GotoFields, CallFields DEF Finish, Move, PlanInv
  <1>11. CASE Seal
    BY <1>0, <1>11, CallFields DEF Seal, Move, PlanInv
  <1>12. CASE TransitionRead
    <2>1. CASE IsOpen(coord.op)
      <3>1. /\ coord'.pc = "commit" /\ coord'.op = coord.op /\ coord'.goal = coord.goal
        BY <1>0, <1>12, <2>1, BuiltFields DEF TransitionRead
      <3> QED
        BY <1>0, <1>12, <3>1 DEF TransitionRead, At, PlanInv
    <2>2. CASE ~IsOpen(coord.op)
      BY <1>0, <1>1, <1>12, <2>2, FailedCallFields DEF TransitionRead, At
    <2> QED
      BY <2>1, <2>2
  <1>13. CASE TransitionCommit
    <2>1. CASE coord' = Drained \/ TransitionFailed("ledger")
      BY <1>0, <1>1, <1>13, <2>1, DrainedFields, FailedCallFields DEF TransitionCommit, At
    <2>2. CASE coord' = [coord EXCEPT !.pc = coord.goal.then, !.state = coord.goal.to,
                                      !.goal = NoGoal, !.txn = NoTxn]
      <3>1. coord'.pc = coord.goal.then /\ coord'.op = coord.op /\ coord.pc = "commit"
        BY <1>0, <1>13, <2>2, ReturnFields DEF TransitionCommit, At
      <3>2. coord.goal.then \in {"parts", "advance", "seal", "done", "drain"}
        BY <1>0, <3>1 DEF Goal
      <3> QED
        BY <1>0, <3>1, <3>2 DEF PlanInv
    <2> QED
      BY <1>13, <2>1, <2>2 DEF TransitionCommit
  <1>14. CASE TransitionLost
    BY <1>0, <1>1, <1>14, FailedCallFields DEF TransitionLost, At
  <1>15. CASE AwaitFails
    BY <1>1, <1>15, AwaitFailsFields
  <1>16. CASE Done
    BY <1>0, <1>1, <1>16, DoneFields
  <1>17. CASE Failed \/ Pause
    BY <1>0, <1>1, <1>17, FailedFields, PauseFields DEF PlanInv
  <1>18. CASE OperatorStep \/ \E op \in Ops : OperatorRetry(op) \/ RejectLock(op)
    BY <1>2, <1>18 DEF OperatorStep, RejectCheck, RejectRead, RejectCommit, OperatorRetry,
                       RejectLock, OperatorFrame
  <1>19. CASE \E c \in Clients : ClientStep(c)
    BY <1>2, <1>19 DEF ClientStep, SubmitGet, SubmitCreate, SubmitReread, SubmitRead,
                       SubmitWake, ClientFrame
  <1>20. CASE (\E t \in late : LateCommit(t)) \/ UNCHANGED vars
    BY <1>2, <1>20 DEF LateCommit, vars
  <1>21. CASE Crash
    BY <1>1, <1>21 DEF Crash, InitCoord
  <1> QED
    BY <1>3, <1>4, <1>5, <1>6, <1>7, <1>8, <1>9, <1>10, <1>11, <1>12, <1>13, <1>14, <1>15,
       <1>16, <1>17, <1>18, <1>19, <1>20, <1>21 DEF Next, CoordinatorStep

LEMMA ReadyStep == ASSUME IInv, EffectInv, [Next]_vars PROVE EffectInv'
  <1>1. PlanInv'
    BY PlanStep DEF EffectInv
  <1>2. ASSUME NEW op \in stored' \cap AddMemory
        PROVE  Ready(op)'
    <2>1. /\ planned \subseteq planned' /\ op \in Ops
          /\ FullyIndexed(op) => embedding'[op] = embedding[op]
      BY EffectsGrow, LedgerAssumption
    <2>2. Ready(op)
      BY <1>2, EffectsGrow DEF EffectInv, PlanInv, Ready
    <2> QED
      BY <2>1, <2>2 DEF Ready, FullyIndexed, OneWidth
  <1> QED
    BY <1>1, <1>2 DEF EffectInv

\* Whatever is stored comes from a plan that is complete and of one width, and
\* the coordinator gets past the parts of an operation only with its plan.
THEOREM EffectsInductive == Spec => []EffectInv
  <1>1. Init => EffectInv
    BY DEF Init, EffectInv, PlanInv, InitCoord
  <1>2. IInv /\ EffectInv /\ [Next]_vars => EffectInv'
    BY ReadyStep
  <1> QED
    BY <1>1, <1>2, Inductive, PTL DEF Spec

\* An indexed or committed receipt has its effect in the store, and a memory was
\* stored from a plan whose parts all hold vectors of one width, whatever model
\* the server was restarted with and whichever awaits failed.
THEOREM CommittedReceiptsAreStored == Spec => []CommittedIsStored
  <1>1. IInv /\ EffectInv => CommittedIsStored
    BY DEF IInv, LedgerInv, RowInv, Justified, EffectInv, Ready, CommittedIsStored
  <1> QED
    BY <1>1, Inductive, EffectsInductive, PTL

-----------------------------------------------------------------------------
(* Answers of submit() *)

\* What the transaction that commits does to its row, and to no other.
LEMMA Follows ==
    ASSUME LedgerInv, NEW t \in Txn, TxnOK(t), KeyFree(t), Write(t)
    PROVE  /\ t.op \in Ops /\ t.seq = rec[t.op].seq + 1
           /\ t.from = rec[t.op].state /\ ~IsTerminal(t.op)
           /\ t.seq = 1 => ~Exists(t.op)
           /\ rec'[t.op].state = t.to
           /\ rec'[t.op].hash = IF t.seq = 1 THEN t.hash ELSE rec[t.op].hash
           /\ \A op \in Ops \ {t.op} : rec'[op] = rec[op]
  <1>1. /\ t.op \in Ops /\ t.seq \in Nat /\ rec \in [Ops -> Row] /\ rec[t.op].seq \in Nat
    BY DEF Txn, LedgerInv, LedgerType, Row
  <1>2. t.seq \notin 1..rec[t.op].seq
    BY <1>1 DEF KeyFree, LedgerInv, EventLogComplete, LogComplete
  <1>3. t.seq = rec[t.op].seq + 1
    BY <1>1, <1>2 DEF TxnOK
  <1>4. t.from = rec[t.op].state /\ ~IsTerminal(t.op)
    BY <1>3 DEF TxnOK, IsTerminal
  <1>5. t.seq = 1 => ~Exists(t.op)
    BY <1>1, <1>3 DEF LedgerInv, RowInv, Exists
  <1>6. /\ rec'[t.op].state = t.to
        /\ rec'[t.op].hash = IF t.seq = 1 THEN t.hash ELSE rec[t.op].hash
        /\ \A op \in Ops \ {t.op} : rec'[op] = rec[op]
    BY <1>1 DEF Write
  <1> QED
    BY <1>1, <1>3, <1>4, <1>5, <1>6

\* The payload hash of an operation never changes.
LEMMA HashKept ==
    ASSUME IInv, [Next]_vars, NEW op \in Ops, Exists(op)
    PROVE  Exists(op)' /\ rec'[op].hash = rec[op].hash
  <1>1. CASE UNCHANGED rec
    BY <1>1 DEF Exists
  <1>2. ASSUME NEW t \in Txn, TxnOK(t), KeyFree(t), Write(t), UNCHANGED stored
        PROVE  Exists(op)' /\ rec'[op].hash = rec[op].hash
    <2>1. Exists(op)'
      BY <1>2, Committing DEF IInv, Safe
    <2>2. rec'[op].hash = rec[op].hash
      BY <1>2, Follows DEF IInv
    <2> QED
      BY <2>1, <2>2
  <1> QED
    BY <1>1, <1>2, LedgerMoves

\* A submission goes on by a step of its own, or dies with the server.
LEMMA OneClient ==
    ASSUME IInv, [Next]_vars, NEW c \in Clients, client'[c] # client[c]
    PROVE  ClientStep(c) \/ client'[c].pc = "lost"
  <1>1. CASE CoordinatorStep
    BY <1>1 DEF CoordinatorStep, Discover, DiscoverFails, TakeWake, StartNext, WaveEnds, Load,
                CheckDependencies, Plan, Advance, Embed, Store, Finish, Seal, TransitionRead,
                TransitionCommit, TransitionLost, AwaitFails, Done, Failed, Pause,
                ProcessFrame, CoordFrame
  <1>2. CASE OperatorStep \/ \E op \in Ops : OperatorRetry(op) \/ RejectLock(op)
    BY <1>2 DEF OperatorStep, RejectCheck, RejectRead, RejectCommit, OperatorRetry,
                RejectLock, OperatorFrame
  <1>3. ASSUME NEW d \in Clients, ClientStep(d)
        PROVE  d = c
    <2>1. \E s : client' = [client EXCEPT ![d] = s]
      BY <1>3 DEF ClientStep, SubmitGet, SubmitCreate, SubmitReread, SubmitRead, SubmitWake, Answer
    <2> QED
      BY <2>1 DEF IInv
  <1>4. CASE (\E t \in late : LateCommit(t)) \/ UNCHANGED vars
    BY <1>4 DEF LateCommit, vars
  <1>5. CASE Crash
    BY <1>5 DEF Crash, IInv
  <1> QED
    BY <1>1, <1>2, <1>3, <1>4, <1>5 DEF Next

\* The field of the record a step of submit() leaves.
LEMMA Answered ==
    ASSUME IInv, NEW c \in Clients, NEW pc, Answer(c, pc)
    PROVE  /\ client'[c].pc = pc
           /\ \A d \in Clients \ {c} : client'[d] = client[d]
  BY DEF IInv, Answer

\* The answer of a submission is true when it is given.
LEMMA SubmitStep ==
    ASSUME IInv, [Next]_vars, NEW c \in Clients, AnswerOK(c, client[c]), ClientStep(c)
    PROVE  AnswerOK(c, client[c])'
  <1>0. Op(c) \in Ops /\ client \in [Clients -> Submission]
    BY LedgerAssumption DEF Op, IInv
  <1>1. CASE SubmitGet(c)
    <2>1. UNCHANGED rec
      BY <1>1 DEF SubmitGet
    <2>2. CASE client' = [client EXCEPT ![c] = [pc |-> "create", txn |-> CreateTxn(c)]]
      <3>1. client'[c] = [pc |-> "create", txn |-> CreateTxn(c)]
        BY <1>0, <2>2
      <3>2. client'[c].pc = "create" /\ client'[c].txn = CreateTxn(c)
        BY <3>1
      <3>3. CreateTxn(c)' = CreateTxn(c)
        BY DEF CreateTxn, Op, Hash
      <3> QED
        BY <3>2, <3>3 DEF AnswerOK
    <2>3. CASE Answer(c, "conflict") /\ Exists(Op(c)) /\ rec[Op(c)].hash # Hash(c)
      BY <2>1, <2>3, Answered DEF AnswerOK, Exists
    <2>4. CASE \E pc \in {"replayed", "rewake"} :
                  Answer(c, pc) /\ Exists(Op(c)) /\ rec[Op(c)].hash = Hash(c)
      BY <2>1, <2>4, Answered DEF AnswerOK, Exists
    <2>5. CASE Answer(c, "unavailable")
      BY <2>5, Answered DEF AnswerOK
    <2> QED
      BY <1>1, <2>2, <2>3, <2>4, <2>5 DEF SubmitGet
  <1>2. CASE SubmitCreate(c)
    <2> DEFINE t == client[c].txn
    <2>1. t = CreateTxn(c)
      BY <1>2 DEF SubmitCreate, AnswerOK
    <2>2. t.op = Op(c) /\ t.seq = 1 /\ t.hash = Hash(c) /\ t.to = "accepted"
      BY <2>1 DEF CreateTxn
    <2>3. t \in Txn /\ TxnOK(t) /\ LedgerInv
      BY <2>1, CreateTxnOK DEF IInv
    <2> HIDE DEF t
    <2>4. CASE KeyFree(t) /\ Write(t) /\ Answer(c, "read")
      <3>1. rec'[Op(c)].state = "accepted" /\ rec'[Op(c)].hash = Hash(c)
        BY <2>2, <2>3, <2>4, Follows
      <3>2. client'[c].pc = "read"
        BY <2>4, Answered
      <3> QED
        BY <3>1, <3>2 DEF AnswerOK, Exists
    <2>5. CASE Answer(c, "reread")
      BY <2>5, Answered DEF AnswerOK
    <2> QED
      BY <1>2, <2>4, <2>5 DEF SubmitCreate, t
  <1>3. CASE SubmitReread(c)
    <2>1. UNCHANGED rec
      BY <1>3 DEF SubmitReread
    <2>2. CASE Answer(c, "unavailable")
      BY <2>2, Answered DEF AnswerOK
    <2>3. CASE /\ Exists(Op(c))
               /\ Answer(c, IF rec[Op(c)].hash = Hash(c) THEN "replayed" ELSE "conflict")
      <3>1. client'[c].pc = IF rec[Op(c)].hash = Hash(c) THEN "replayed" ELSE "conflict"
        BY <2>3, Answered
      <3> QED
        BY <2>1, <2>3, <3>1 DEF AnswerOK, Exists
    <2> QED
      BY <1>3, <2>2, <2>3 DEF SubmitReread
  <1>4. CASE SubmitRead(c)
    <2>1. UNCHANGED rec /\ client[c].pc = "read"
      BY <1>4 DEF SubmitRead
    <2>2. client'[c].pc \in {"wake", "unavailable"}
      BY <1>4, Answered DEF SubmitRead
    <2> QED
      BY <2>1, <2>2 DEF AnswerOK, Exists
  <1>5. CASE SubmitWake(c)
    <2>1. UNCHANGED rec /\ client[c].pc \in {"wake", "rewake"}
      BY <1>5 DEF SubmitWake
    <2>2. client'[c].pc \in {"accepted", "replayed"}
      BY <1>5, Answered DEF SubmitWake
    <2> QED
      BY <2>1, <2>2 DEF AnswerOK, Exists
  <1> QED
    BY <1>1, <1>2, <1>3, <1>4, <1>5 DEF ClientStep

\* A submission becomes the creator of an operation that did not exist.
LEMMA Creates ==
    ASSUME IInv, AnswerInv, [Next]_vars, NEW c \in Clients, ~Creator(c), Creator(c)'
    PROVE  ~Exists(Op(c)) /\ \A d \in Clients \ {c} : client'[d] = client[d]
  <1>1. ClientStep(c)
    BY OneClient DEF Creator
  <1>2. CASE SubmitGet(c) \/ SubmitReread(c) \/ SubmitRead(c) \/ SubmitWake(c)
    <2>1. client[c].pc \notin {"read", "wake"}
      BY DEF Creator
    <2>2. CASE client' = [client EXCEPT ![c] = [pc |-> "create", txn |-> CreateTxn(c)]]
      BY <2>2 DEF Creator, IInv
    <2>3. CASE \E pc \in {"conflict", "replayed", "rewake", "unavailable"} : Answer(c, pc)
      BY <2>3, Answered DEF Creator
    <2> QED
      BY <1>2, <2>1, <2>2, <2>3 DEF SubmitGet, SubmitReread, SubmitRead, SubmitWake
  <1>3. CASE SubmitCreate(c)
    <2>1. client[c].txn = CreateTxn(c)
      BY <1>3 DEF SubmitCreate, AnswerInv, AnswerOK
    <2>2. /\ CreateTxn(c) \in Txn /\ TxnOK(CreateTxn(c))
          /\ CreateTxn(c).op = Op(c) /\ CreateTxn(c).seq = 1
      BY CreateTxnOK DEF IInv, CreateTxn
    <2>3. CASE Answer(c, "reread")
      BY <2>3, Answered DEF Creator
    <2>4. CASE KeyFree(client[c].txn) /\ Write(client[c].txn) /\ Answer(c, "read")
      <3>1. ~Exists(Op(c))
        BY <2>1, <2>2, <2>4, Follows DEF IInv
      <3> QED
        BY <2>4, <3>1, Answered
    <2> QED
      BY <1>3, <2>3, <2>4 DEF SubmitCreate
  <1> QED
    BY <1>1, <1>2, <1>3 DEF ClientStep

LEMMA AnswerStep == ASSUME IInv, AnswerInv, [Next]_vars PROVE AnswerInv'
  <1>1. ASSUME NEW c \in Clients
        PROVE  AnswerOK(c, client[c])'
    <2>0. Op(c) \in Ops /\ Op(c)' = Op(c) /\ Hash(c)' = Hash(c)
      BY LedgerAssumption DEF Op, Hash
    <2>1. CASE client'[c] = client[c]
      <3>1. CreateTxn(c)' = CreateTxn(c)
        BY DEF CreateTxn, Op, Hash
      <3> QED
        BY <2>0, <2>1, <3>1, HashKept DEF AnswerInv, AnswerOK
    <2>2. CASE ClientStep(c)
      BY <2>2, SubmitStep DEF AnswerInv
    <2>3. CASE client'[c].pc = "lost"
      BY <2>3 DEF AnswerOK
    <2> QED
      BY <2>1, <2>2, <2>3, OneClient
  <1>2. ASSUME NEW c \in Clients, NEW d \in Clients, Creator(c)', Creator(d)', Op(c) = Op(d)
        PROVE  c = d
    <2>1. \A e \in Clients : Creator(e) => Exists(Op(e))
      BY DEF AnswerInv, AnswerOK, Creator
    <2>2. CASE Creator(c) /\ Creator(d)
      BY <1>2, <2>2 DEF AnswerInv
    <2>3. CASE ~Creator(c)
      BY <1>2, <2>1, <2>3, Creates DEF Creator
    <2>4. CASE ~Creator(d)
      BY <1>2, <2>1, <2>4, Creates DEF Creator
    <2> QED
      BY <2>2, <2>3, <2>4
  <1>3. \A c \in Clients : Op(c)' = Op(c)
    BY DEF Op
  <1> QED
    BY <1>1, <1>2, <1>3 DEF AnswerInv

\* Every row a submission has seen, created or compared with is there with the
\* payload it saw, and at most one submission of an id has created it.
THEOREM AnswersInductive == Spec => []AnswerInv
  <1>1. Init => AnswerInv
    <2> SUFFICES ASSUME Init PROVE AnswerInv
      OBVIOUS
    <2>1. \A c \in Clients : client[c].pc \in {"get", "lost"}
      BY DEF Init
    <2> QED
      BY <2>1 DEF AnswerInv, AnswerOK, Creator
  <1>2. IInv /\ AnswerInv /\ [Next]_vars => AnswerInv'
    BY AnswerStep
  <1> QED
    BY <1>1, <1>2, Inductive, PTL DEF Spec

\* What submit() answers is true and stays true: one caller of an id gets 202,
\* 202 and 200 stand for a row with the caller's payload, 409 for another one,
\* through every race of creators, lost answers and restarts.
THEOREM AnswersAreTrue == Spec => []SubmitAnswersTruly
  <1>1. AnswerInv => SubmitAnswersTruly
    BY DEF AnswerInv, AnswerOK, Creator, SubmitAnswersTruly
  <1> QED
    BY <1>1, AnswersInductive, PTL

-----------------------------------------------------------------------------
(* The order of states *)

LEMMA Ranks ==
    /\ Rank("absent") = 0 /\ Rank("accepted") = 1 /\ Rank("blocked") = 1
    /\ Rank("validated") = 2 /\ Rank("planned") = 3 /\ Rank("processing") = 4
    /\ Rank("indexed") = 5 /\ Rank("committed") = 6 /\ Rank("rejected") = 6
  BY DEF Rank, Waiting, Terminal

LEMMA RankBounds ==
    /\ \A s \in State \cup {"absent"} : Rank(s) \in Nat /\ Rank(s) <= 6
    /\ \A s \in State : 1 <= Rank(s)
    /\ \A s \in State : Rank(s) >= 4 => s \in {"processing", "indexed"} \cup Terminal
    /\ \A s \in {"processing", "indexed"} \cup Terminal : Rank(s) >= 4
    /\ \A s \in Waiting : Rank(s) = 1
  BY Ranks DEF State, Waiting, Started, Terminal

\* What the coordinator's own conditions come to.
CoordOrder == (InProcess => in_flight = coord.op) /\ ProcessInv

\* The five ways in which a step of the coordinator can end.
LEMMA EndsOutside ==
    ASSUME coord'.pc \in Resting \cup {"pause"}
    PROVE  CoordOrder'
  BY DEF CoordOrder, InProcess, Working, Calling, ProcessInv, Resting, Bodied

LEMMA EndsLoadedOrDone ==
    ASSUME coord'.pc \in {"load", "done"}, in_flight' = coord'.op
    PROVE  CoordOrder'
  BY DEF CoordOrder, InProcess, Working, Calling, ProcessInv, Bodied

LEMMA EndsFailed ==
    ASSUME coord'.pc = "failed", in_flight' = coord'.op,
           coord'.fail # "permanent" \/ coord'.op \notin planned'
    PROVE  CoordOrder'
  BY DEF CoordOrder, InProcess, Working, Calling, ProcessInv, Bodied

LEMMA EndsWorking ==
    ASSUME coord'.pc \in Bodied \cup {"deps"}, in_flight' = coord'.op,
           IsOpen(coord.op)', coord'.state = rec'[coord'.op].state,
           coord'.pc \in {"embed", "store"} => coord'.state \in {"processing", "indexed"}
    PROVE  CoordOrder'
  BY DEF CoordOrder, InProcess, Working, Calling, ProcessInv, Bodied

LEMMA EndsCalling ==
    ASSUME coord'.pc = "read", CallOK',
           coord'.goal.caller = "process" =>
               /\ in_flight' = coord'.op /\ IsOpen(coord.op)'
               /\ coord'.state = rec'[coord'.op].state
    PROVE  CoordOrder'
  BY DEF CoordOrder, InProcess, Working, Calling, ProcessInv, Bodied

\* process() calls transition() to go forward from the state it knows.
LEMMA ProcessCalls ==
    ASSUME IInv, CoordOrder, Working, UNCHANGED <<rec, in_flight, planned>>,
           NEW to \in State, NEW then, NEW blocked_by, NEW error, then # "drain",
           Transition(to, blocked_by, error, then, "process"),
           Rank(coord.state) <= Rank(to), to = "rejected" => coord.state \in Waiting
    PROVE  CoordOrder'
  <1>1. /\ IsOpen(coord.op) /\ coord.state = rec[coord.op].state
        /\ in_flight = coord.op /\ coord \in Coordinator
    BY DEF IInv, CoordOrder, ProcessInv, InProcess
  <1>2. /\ coord'.pc = "read" /\ coord'.op = coord.op /\ coord'.state = coord.state
        /\ coord'.goal.to = to /\ coord'.goal.then = then /\ coord'.goal.caller = "process"
    BY <1>1, CallFields
  <1>3. IsOpen(coord.op)'
    BY <1>1, <1>2 DEF IsOpen, Exists, IsTerminal
  <1>4. CallOK'
    BY <1>1, <1>2 DEF CallOK
  <1> QED
    BY <1>1, <1>2, <1>3, <1>4, EndsCalling

\* process() goes on without a call.
LEMMA ProcessGoes ==
    ASSUME IInv, CoordOrder, Working, UNCHANGED <<rec, in_flight>>,
           NEW pc \in Bodied \cup {"done"}, Goto(pc),
           pc \in {"embed", "store"} => coord.state \in {"processing", "indexed"}
    PROVE  CoordOrder'
  <1>1. /\ IsOpen(coord.op) /\ coord.state = rec[coord.op].state
        /\ in_flight = coord.op /\ coord \in Coordinator
    BY DEF IInv, CoordOrder, ProcessInv, InProcess
  <1>2. coord'.pc = pc /\ coord'.op = coord.op /\ coord'.state = coord.state
    BY <1>1, GotoFields
  <1>3. IsOpen(coord.op)'
    BY <1>1, <1>2 DEF IsOpen, Exists, IsTerminal
  <1>4. CASE pc = "done"
    BY <1>1, <1>2, <1>4, EndsLoadedOrDone
  <1>5. CASE pc \in Bodied
    BY <1>1, <1>2, <1>3, <1>5, EndsWorking
  <1> QED
    BY <1>4, <1>5

\* process() gives up.
LEMMA ProcessFails ==
    ASSUME IInv, CoordOrder, InProcess, UNCHANGED in_flight, NEW f, Fail(f),
           f # "permanent" \/ coord.op \notin planned'
    PROVE  CoordOrder'
  <1>1. in_flight = coord.op /\ coord \in Coordinator
    BY DEF IInv, CoordOrder
  <1> QED
    BY <1>1, FailFields, EndsFailed

\* transition() gives up.
LEMMA CallFails ==
    ASSUME IInv, CoordOrder, Calling, UNCHANGED in_flight, NEW f, f # "permanent",
           TransitionFailed(f)
    PROVE  CoordOrder'
  <1>1. coord \in Coordinator /\ coord.goal \in Goal
    BY DEF IInv, CoordInv, GoalInv, Calling
  <1>2. coord.goal.caller = "process" => in_flight = coord.op
    BY DEF CoordOrder, InProcess, Working, Calling
  <1> QED
    BY <1>1, <1>2, FailedCallFields, EndsFailed, EndsOutside DEF Resting

\* Before the first write process() looks at the row and its dependencies.
LEMMA FirstSteps ==
    ASSUME IInv, CoordOrder, Load \/ CheckDependencies
    PROVE  CoordOrder'
  <1>0. coord \in Coordinator /\ coord.op \in Ops
    BY DEF IInv, CoordInv, Resting, Load, CheckDependencies, At
  <1>1. CASE Load
    <2>1. /\ UNCHANGED <<rec, in_flight>> /\ in_flight = coord.op
      BY <1>1 DEF Load, durable, ProcessFrame, At, CoordOrder, InProcess
    <2>2. CASE IsOpen(coord.op)
      <3>1. /\ coord'.pc = "deps" /\ coord'.op = coord.op
            /\ coord'.state = rec[coord.op].state
        BY <1>0, <1>1, <2>2 DEF Load, Coordinator
      <3>2. IsOpen(coord.op)'
        BY <2>1, <2>2, <3>1 DEF IsOpen, Exists, IsTerminal
      <3> QED
        BY <2>1, <3>1, <3>2, EndsWorking
    <2>3. CASE ~IsOpen(coord.op)
      BY <1>0, <1>1, <2>1, <2>3, GotoFields, EndsLoadedOrDone DEF Load
    <2> QED
      BY <2>2, <2>3
  <1>2. CASE CheckDependencies
    <2> DEFINE op == coord.op
               blockers == Blockers(op)
    <2>1. /\ UNCHANGED <<rec, in_flight, planned>> /\ coord.pc = "deps"
      BY <1>2 DEF CheckDependencies, durable, ProcessFrame, At
    <2>2. Working /\ coord.state = rec[op].state /\ IsOpen(op)
      BY <2>1 DEF CoordOrder, ProcessInv, Working
    <2>3. blockers # {} => coord.state \in Waiting
      <3>1. rec[op].state \in Started => DepsCommitted(op)
        BY <1>0 DEF IInv, LedgerInv, RowInv, Justified
      <3>2. DepsCommitted(op) => blockers = {}
        BY DEF DepsCommitted, Blockers
      <3>3. rec[op].state \in State \ Terminal
        BY <1>0, <2>2 DEF IInv, LedgerInv, LedgerType, Row, IsOpen, Exists, IsTerminal
      <3> QED
        BY <2>2, <3>1, <3>2, <3>3 DEF State
    <2>4. CASE blockers # {} /\ Transition("blocked", blockers, "none", "done", "process")
      <3>1. Rank(coord.state) = 1
        BY <2>3, <2>4, RankBounds
      <3>2. "blocked" \in State /\ Rank("blocked") = 1
        BY Ranks DEF State, Waiting
      <3> QED
        BY <2>1, <2>2, <2>4, <3>1, <3>2, ProcessCalls
    <2>5. CASE Goto("done")
      BY <2>1, <2>2, <2>5, ProcessGoes
    <2>6. CASE coord.state \in Waiting /\ Transition("rejected", {}, "payload", "done", "process")
      <3>1. Rank(coord.state) = 1
        BY <2>6, RankBounds
      <3>2. "rejected" \in State /\ Rank("rejected") = 6
        BY Ranks DEF State, Terminal
      <3> QED
        BY <2>1, <2>2, <2>6, <3>1, <3>2, ProcessCalls
    <2>7. CASE coord.state \in Waiting /\ Move("validated", Body(op))
      <3>1. Rank(coord.state) = 1
        BY <2>7, RankBounds
      <3>2. "validated" \in State /\ Rank("validated") = 2
        BY Ranks DEF State, Started
      <3>3. Transition("validated", {}, "none", Body(op), "process") /\ Body(op) # "drain"
        BY <2>7 DEF Move, Body
      <3> QED
        BY <2>1, <2>2, <3>1, <3>2, <3>3, ProcessCalls
    <2>8. CASE Goto(Body(op))
      <3>1. Body(op) \in {"parts", "advance"} /\ Body(op) \in Bodied
        BY DEF Body, Bodied
      <3> QED
        BY <2>1, <2>2, <2>8, <3>1, ProcessGoes
    <2> QED
      BY <1>2, <2>4, <2>5, <2>6, <2>7, <2>8 DEF CheckDependencies
  <1> QED
    BY <1>1, <1>2

\* Within the body of process() every call goes one state forward.
LEMMA BodySteps ==
    ASSUME IInv, CoordOrder, Plan \/ Advance \/ Embed \/ Store \/ Finish \/ Seal
    PROVE  CoordOrder'
  <1>0. /\ Working /\ InProcess /\ UNCHANGED <<rec, in_flight>>
    BY DEF Plan, Advance, Embed, Store, Finish, Seal, At, Working, InProcess, Bodied,
           ProcessFrame, durable
  <1>1. CASE Plan
    <2>1. CASE Goto("advance")
      BY <1>0, <2>1, ProcessGoes DEF Bodied
    <2>2. CASE coord.op \notin planned' /\ Fail("permanent")
      BY <1>0, <2>2, ProcessFails
    <2> QED
      BY <1>1, <2>1, <2>2 DEF Plan
  <1>2. CASE Advance
    <2>0. UNCHANGED planned /\ coord.state \in Started
      BY <1>2 DEF Advance, At, durable, IInv, CoordInv
    <2>1. CASE coord.state = "validated" /\ Move("planned", "advance")
      <3>1. Rank(coord.state) = 2 /\ Rank("planned") = 3 /\ "planned" \in State
        BY <2>1, Ranks DEF State, Started
      <3> QED
        BY <1>0, <2>0, <2>1, <3>1, ProcessCalls DEF Move
    <2>2. CASE coord.state = "planned" /\ Move("processing", "advance")
      <3>1. Rank(coord.state) = 3 /\ Rank("processing") = 4 /\ "processing" \in State
        BY <2>2, Ranks DEF State, Started
      <3> QED
        BY <1>0, <2>0, <2>2, <3>1, ProcessCalls DEF Move
    <2>3. CASE /\ coord.state \in {"processing", "indexed"}
               /\ \E pc \in {"embed", "store"} : Goto(pc)
      BY <1>0, <2>3, ProcessGoes DEF Bodied
    <2> QED
      BY <1>2, <2>0, <2>1, <2>2, <2>3 DEF Advance, Started
  <1>3. CASE Embed
    <2>1. coord.pc = "embed" /\ coord.state \in {"processing", "indexed"}
      BY <1>3 DEF Embed, At, CoordOrder, ProcessInv
    <2>2. CASE UNCHANGED coord
      <3>1. /\ coord'.pc \in Bodied \cup {"deps"} /\ in_flight' = coord'.op
            /\ IsOpen(coord.op)' /\ coord'.state = rec'[coord'.op].state
        BY <1>0, <2>1, <2>2 DEF CoordOrder, ProcessInv, IsOpen, Exists, IsTerminal, Bodied
      <3> QED
        BY <2>1, <2>2, <3>1, EndsWorking
    <2>3. CASE Goto("store")
      BY <1>0, <2>1, <2>3, ProcessGoes DEF Bodied
    <2> QED
      BY <1>3, <2>2, <2>3 DEF Embed
  <1>4. CASE Store
    BY <1>0, <1>4, ProcessGoes, ProcessFails DEF Store, Bodied
  <1>5. CASE Finish \/ Seal
    <2>0. /\ UNCHANGED planned
          /\ IsOpen(coord.op) /\ coord.state = rec[coord.op].state /\ coord.op \in Ops
      BY <1>0, <1>5 DEF Finish, Seal, At, durable, CoordOrder, ProcessInv, IInv, CoordInv, Resting
    <2>1. /\ "committed" \in State /\ Rank("committed") = 6
          /\ "indexed" \in State /\ Rank("indexed") = 5
      BY Ranks DEF State, Started, Terminal
    <2>2. coord.state \in State \ Terminal
      BY <2>0 DEF IInv, LedgerInv, LedgerType, Row, IsOpen, Exists, IsTerminal
    <2>3. Rank(coord.state) <= 5
      BY <2>2, Ranks DEF State, Waiting, Started
    <2>4. CASE Goto("done")
      BY <1>0, <2>4, ProcessGoes
    <2>5. CASE Move("committed", "done")
      BY <1>0, <2>0, <2>1, <2>2, <2>3, <2>5, RankBounds, ProcessCalls DEF Move
    <2>6. CASE Move("indexed", "seal")
      BY <1>0, <2>0, <2>1, <2>3, <2>6, ProcessCalls DEF Move
    <2> QED
      BY <1>5, <2>4, <2>5, <2>6 DEF Finish, Seal
  <1> QED
    BY <1>1, <1>2, <1>3, <1>4, <1>5

\* transition() keeps to what it was asked for.
LEMMA CallSteps ==
    ASSUME IInv, CoordOrder, TransitionRead \/ TransitionCommit \/ TransitionLost
    PROVE  CoordOrder'
  <1>0. /\ coord \in Coordinator /\ coord.goal \in Goal /\ Calling /\ UNCHANGED <<in_flight, planned>>
        /\ coord.op \in Ops /\ CallOK /\ GoalInv
    BY DEF TransitionRead, TransitionCommit, TransitionLost, At, IInv, CoordInv, GoalInv, Calling,
           ProcessFrame, durable, CoordOrder, ProcessInv, Resting
  <1>f. CASE \E f \in {"terminal", "ledger", "recovered"} : TransitionFailed(f)
    BY <1>0, <1>f, CallFails
  <1>1. CASE TransitionRead
    <2>1. CASE IsOpen(coord.op)
      <3>1. /\ coord'.pc = "commit" /\ coord'.op = coord.op /\ coord'.state = coord.state
            /\ coord'.goal = coord.goal /\ UNCHANGED rec
        BY <1>0, <1>1, <2>1, BuiltFields DEF TransitionRead, durable
      <3>2. Calling' /\ (Working' <=> Working) /\ (InProcess' <=> InProcess)
        BY <1>0, <3>1 DEF Calling, Working, InProcess, Bodied
      <3>3. IsOpen(coord.op)' <=> IsOpen(coord.op)
        BY <3>1 DEF IsOpen, Exists, IsTerminal
      <3>4. CallOK'
        BY <1>0, <3>1, <3>3 DEF CallOK, IsOpen, Exists, IsTerminal
      <3> QED
        BY <1>0, <3>1, <3>2, <3>3, <3>4 DEF CoordOrder, ProcessInv, IsOpen, Exists, IsTerminal
    <2>2. CASE ~IsOpen(coord.op)
      BY <1>1, <1>f, <2>2 DEF TransitionRead
    <2> QED
      BY <2>1, <2>2
  <1>2. CASE TransitionCommit
    <2>1. CASE KeyFree(coord.txn) /\ Write(coord.txn) /\ coord.goal.then = "drain" /\ coord' = Drained
      BY <1>0, <2>1, DrainedFields, EndsOutside DEF Resting
    <2>2. CASE /\ KeyFree(coord.txn) /\ Write(coord.txn) /\ coord.goal.then # "drain"
               /\ coord' = [coord EXCEPT !.pc = coord.goal.then, !.state = coord.goal.to,
                                         !.goal = NoGoal, !.txn = NoTxn]
      <3>1. /\ coord'.pc = coord.goal.then /\ coord'.op = coord.op /\ coord'.state = coord.goal.to
        BY <1>0, <2>2, ReturnFields
      <3>2. in_flight' = coord'.op
        BY <1>0, <2>2, <3>1 DEF CallOK, CoordOrder, InProcess, Working
      <3>3. rec'[coord.op].state = coord.goal.to
        <4>1. /\ coord.txn \in Txn /\ coord.txn.op = coord.op /\ coord.txn.to = coord.goal.to
              /\ TxnOK(coord.txn)
          BY <1>2 DEF TransitionCommit, At, IInv, CoordInv, TxnInv, Carried
        <4> QED
          BY <2>2, <4>1, Follows DEF IInv
      <3>4. coord.goal.then \in {"parts", "advance", "seal", "done"}
        BY <1>0, <2>2 DEF Goal
      <3>5. CASE coord.goal.then = "done"
        BY <3>1, <3>2, <3>5, EndsLoadedOrDone
      <3>6. CASE coord.goal.then \in {"parts", "advance", "seal"}
        <4>1. coord.goal.to \in Started
          BY <1>0, <3>6 DEF GoalInv, Started
        <4>2. IsOpen(coord.op)'
          BY <3>1, <3>3, <4>1 DEF IsOpen, Exists, IsTerminal, Started, Terminal
        <4>3. coord'.pc \in Bodied /\ coord'.pc \notin {"embed", "store"}
          BY <3>1, <3>6 DEF Bodied
        <4> QED
          BY <3>1, <3>2, <3>3, <4>2, <4>3, EndsWorking
      <3> QED
        BY <3>4, <3>5, <3>6
    <2>3. CASE TransitionFailed("ledger")
      BY <1>f, <2>3
    <2> QED
      BY <1>2, <2>1, <2>2, <2>3 DEF TransitionCommit
  <1>3. CASE TransitionLost
    BY <1>3, <1>f DEF TransitionLost
  <1> QED
    BY <1>1, <1>2, <1>3

\* What process() leaves behind when it ends or fails.
LEMMA LastSteps ==
    ASSUME IInv, CoordOrder, AwaitFails \/ Done \/ Failed \/ Pause
    PROVE  CoordOrder'
  <1>0. coord \in Coordinator /\ coord.op \in Ops
    BY DEF IInv, CoordInv, Resting, AwaitFails, Done, Failed, Pause, At
  <1>1. CASE AwaitFails
    <2>1. UNCHANGED in_flight
      BY <1>1 DEF AwaitFails, ProcessFrame
    <2>2. (\/ coord.pc \in {"load", "deps", "parts", "embed", "store", "finish"}
           \/ coord.pc = "read" /\ coord.goal.caller = "process") => in_flight = coord.op
      BY DEF CoordOrder, InProcess, Working, Calling, Bodied
    <2> QED
      BY <1>1, <2>1, <2>2, AwaitFailsFields, EndsFailed, EndsOutside DEF Resting
  <1>2. CASE Done
    BY <1>0, <1>2, DoneFields, EndsOutside DEF Resting
  <1>3. CASE Failed
    <2>1. UNCHANGED <<rec, planned>>
      BY <1>3 DEF Failed, durable
    <2>2. CASE coord'.pc \in {"drain", "pause"}
      BY <2>2, EndsOutside DEF Resting
    <2>3. CASE /\ coord'.pc = "read" /\ coord'.op = coord.op /\ coord.fail = "permanent"
               /\ coord'.goal.to = "rejected" /\ coord'.goal.then = "drain"
               /\ coord'.goal.caller = "dead_letter"
      <3>1. coord.op \notin planned'
        BY <1>3, <2>1, <2>3 DEF CoordOrder, ProcessInv, Failed, At
      <3>2. Rank(rec'[coord.op].state) <= Rank("rejected")
        <4>1. rec'[coord.op].state \in State \cup {"absent"}
          BY <1>0, <2>1 DEF IInv, LedgerInv, LedgerType, Row
        <4> QED
          BY <4>1, Ranks, RankBounds
      <3>3. CallOK'
        BY <2>3, <3>1, <3>2 DEF CallOK
      <3> QED
        BY <2>3, <3>3, EndsCalling
    <2> QED
      BY <1>0, <1>3, <2>2, <2>3, FailedFields
  <1>4. CASE Pause
    <2>1. UNCHANGED <<rec, planned>>
      BY <1>4 DEF Pause, durable
    <2>2. CASE coord'.pc = "drain"
      BY <2>2, EndsOutside DEF Resting
    <2>3. CASE /\ coord'.pc = "read" /\ coord'.op = coord.op /\ IsOpen(coord.op)
               /\ coord'.goal.to = rec[coord.op].state /\ coord'.goal.then = "drain"
               /\ coord'.goal.caller = "pause"
      <3>1. Rank(rec[coord.op].state) \in Nat /\ rec[coord.op].state # "rejected"
        <4>1. rec[coord.op].state \in State \cup {"absent"}
          BY <1>0 DEF IInv, LedgerInv, LedgerType, Row
        <4> QED
          BY <2>3, <4>1, RankBounds DEF IsOpen, IsTerminal, Terminal
      <3>2. CallOK'
        BY <2>1, <2>3, <3>1 DEF CallOK
      <3> QED
        BY <2>3, <3>2, EndsCalling
    <2> QED
      BY <1>0, <1>4, <2>2, <2>3, PauseFields
  <1> QED
    BY <1>1, <1>2, <1>3, <1>4

\* Without transactions in doubt, one that commits is in the hands of its caller.
LEMMA WhoCommits ==
    ASSUME IInv, late = {}, [Next]_vars
    PROVE  \/ UNCHANGED rec
           \/ \E t \in Txn :
                 /\ TxnOK(t) /\ KeyFree(t) /\ Write(t) /\ UNCHANGED stored
                 /\ \/ t = coord.txn /\ (TransitionCommit \/ TransitionLost)
                    \/ t = operator.txn /\ RejectCommit
                    \/ \E c \in Clients : t = client[c].txn /\ SubmitCreate(c)
  <1>0. \A t \in Txn : Carried(t) => TxnOK(t)
    BY DEF IInv, TxnInv
  <1>1. CASE Discover \/ DiscoverFails \/ TakeWake \/ StartNext \/ WaveEnds
    BY <1>1 DEF Discover, DiscoverFails, TakeWake, StartNext, WaveEnds, durable
  <1>2. CASE Load \/ CheckDependencies \/ Plan \/ Advance \/ Embed \/ Store
    BY <1>2 DEF Load, CheckDependencies, Plan, Advance, Embed, Store, durable
  <1>3. CASE Finish \/ Seal \/ TransitionRead \/ AwaitFails \/ Done \/ Failed \/ Pause
    BY <1>3 DEF Finish, Seal, TransitionRead, AwaitFails, Done, Failed, Pause, durable
  <1>4. CASE TransitionCommit \/ TransitionLost
    <2>1. coord.txn \in Txn /\ TxnOK(coord.txn) /\ UNCHANGED stored
      BY <1>0, <1>4 DEF TransitionCommit, TransitionLost, At, IInv, CoordInv, Carried
    <2>2. UNCHANGED rec \/ (KeyFree(coord.txn) /\ Write(coord.txn))
      BY <1>4 DEF TransitionCommit, TransitionLost, Conflict, Abandon
    <2> QED
      BY <1>4, <2>1, <2>2
  <1>5. CASE RejectCheck \/ RejectRead \/ \E op \in Ops : OperatorRetry(op) \/ RejectLock(op)
    BY <1>5 DEF RejectCheck, RejectRead, OperatorRetry, RejectLock, durable
  <1>6. CASE RejectCommit
    <2>1. operator.txn \in Txn /\ TxnOK(operator.txn) /\ UNCHANGED stored
      BY <1>0, <1>6 DEF RejectCommit, OperatorFrame, IInv, OperatorInv, Carried
    <2>2. UNCHANGED rec \/ (KeyFree(operator.txn) /\ Write(operator.txn))
      BY <1>6 DEF RejectCommit, Conflict, Abandon
    <2> QED
      BY <1>6, <2>1, <2>2
  <1>7. ASSUME NEW c \in Clients, SubmitCreate(c), ~UNCHANGED rec
        PROVE  /\ client[c].txn \in Txn /\ TxnOK(client[c].txn) /\ UNCHANGED stored
               /\ KeyFree(client[c].txn) /\ Write(client[c].txn)
    <2>1. client[c].txn \in Txn /\ TxnOK(client[c].txn) /\ UNCHANGED stored
      BY <1>0, <1>7 DEF SubmitCreate, ClientFrame, IInv, ClientInv, Carried
    <2>2. KeyFree(client[c].txn) /\ Write(client[c].txn)
      BY <1>7 DEF SubmitCreate, Conflict, Abandon
    <2> QED
      BY <2>1, <2>2
  <1>8. ASSUME NEW c \in Clients, ClientStep(c), ~SubmitCreate(c)
        PROVE  UNCHANGED rec
    BY <1>8 DEF ClientStep, SubmitGet, SubmitReread, SubmitRead, SubmitWake
  <1>9. CASE (\E t \in late : LateCommit(t)) \/ Crash \/ UNCHANGED vars
    BY <1>9 DEF Crash, durable, vars
  <1> QED
    BY <1>1, <1>2, <1>3, <1>4, <1>5, <1>6, <1>7, <1>8, <1>9
       DEF Next, CoordinatorStep, OperatorStep

\* A transaction of submit() creates, one of reject() rejects.
LEMMA ClientTxn ==
    ASSUME AnswerInv, NEW c \in Clients, SubmitCreate(c)
    PROVE  client[c].txn.seq = 1 /\ client[c].txn.to = "accepted"
  <1>1. client[c].txn = CreateTxn(c)
    BY DEF AnswerInv, AnswerOK, SubmitCreate
  <1> QED
    BY <1>1 DEF CreateTxn

\* The rows of the others' commits are not the ones process() relies on.
LEMMA OthersOrder ==
    ASSUME IInv, AnswerInv, OrderInv, CoordOrder, [Next]_vars,
           UNCHANGED <<coord, in_flight, planned>>
    PROVE  CoordOrder'
  <1>0. coord.pc \notin Resting => coord.op \in Ops
    BY DEF IInv, CoordInv
  <1>1. ASSUME coord.pc \notin Resting => rec'[coord.op] = rec[coord.op]
        PROVE  CoordOrder'
    <2>1. coord.pc \notin Resting => (IsOpen(coord.op)' <=> IsOpen(coord.op))
      BY <1>1 DEF IsOpen, Exists, IsTerminal
    <2>2. CASE coord.pc \in Resting
      BY <2>2, EndsOutside
    <2>3. CASE coord.pc \notin Resting
      <3>1. (Working' <=> Working) /\ (Calling' <=> Calling) /\ (InProcess' <=> InProcess)
        BY DEF Working, Calling, InProcess
      <3>2. CallOK => CallOK'
        BY <1>1, <2>1, <2>3 DEF CallOK
      <3> QED
        BY <1>1, <2>1, <2>3, <3>1, <3>2 DEF CoordOrder, ProcessInv
    <2> QED
      BY <2>2, <2>3
  <1>2. ASSUME ~Working, coord.op \in Ops, coord.pc \notin Resting,
               \/ ~IsOpen(coord.op)'
               \/ rec'[coord.op].state = "accepted"
        PROVE  CoordOrder'
    <2>1. (Working' <=> Working) /\ (Calling' <=> Calling) /\ (InProcess' <=> InProcess)
      BY DEF Working, Calling, InProcess
    <2>2. ASSUME Calling, CallOK
          PROVE  CallOK'
      <3>1. coord.goal.to \in State
        BY <2>2 DEF IInv, CoordInv, GoalInv, Calling, Goal
      <3>2. 1 <= Rank(coord.goal.to) /\ Rank("accepted") = 1
        BY <3>1, Ranks, RankBounds
      <3> QED
        BY <1>2, <2>2, <3>2 DEF CallOK
    <2> QED
      BY <1>2, <2>1, <2>2 DEF CoordOrder, ProcessInv, Working, Bodied
  <1>3. CASE UNCHANGED rec
    BY <1>1, <1>3
  <1>4. ASSUME NEW t \in Txn, TxnOK(t), KeyFree(t), Write(t), t = operator.txn, RejectCommit
        PROVE  CoordOrder'
    <2>1. t.op = operator.op /\ t.to = "rejected" /\ operator.op # in_flight
      BY <1>4 DEF OrderInv, RejectInv, ExclusionInv, RejectCommit
    <2>2. /\ rec'[t.op].state = "rejected" /\ \A op \in Ops \ {t.op} : rec'[op] = rec[op]
      BY <1>4, <2>1, Follows DEF IInv
    <2>3. CASE coord.op # t.op
      BY <1>0, <1>1, <2>2, <2>3
    <2>4. CASE coord.op = t.op
      <3>1. ~Working
        BY <2>1, <2>4 DEF CoordOrder, InProcess
      <3>2. ~IsOpen(coord.op)'
        BY <2>2, <2>4 DEF IsOpen, IsTerminal, Terminal
      <3> QED
        BY <1>0, <1>2, <2>4, <3>1, <3>2, EndsOutside DEF Txn
    <2> QED
      BY <2>3, <2>4
  <1>5. ASSUME NEW t \in Txn, TxnOK(t), KeyFree(t), Write(t), NEW c \in Clients,
               t = client[c].txn, SubmitCreate(c)
        PROVE  CoordOrder'
    <2>1. t.seq = 1 /\ t.to = "accepted"
      BY <1>5, ClientTxn
    <2>2. /\ rec'[t.op].state = "accepted" /\ \A op \in Ops \ {t.op} : rec'[op] = rec[op]
          /\ ~Exists(t.op)
      BY <1>5, <2>1, Follows DEF IInv
    <2>3. CASE coord.op # t.op
      BY <1>0, <1>1, <2>2, <2>3
    <2>4. CASE coord.op = t.op
      <3>1. ~Working
        BY <2>2, <2>4 DEF CoordOrder, ProcessInv, IsOpen
      <3> QED
        BY <1>0, <1>2, <2>2, <2>4, <3>1, EndsOutside DEF Txn
    <2> QED
      BY <2>3, <2>4
  <1>6. ASSUME NEW t \in Txn, TxnOK(t), KeyFree(t), Write(t), t = coord.txn,
               TransitionCommit \/ TransitionLost
        PROVE  CoordOrder'
    BY <1>6, CallSteps
  <1> QED
    BY <1>3, <1>4, <1>5, <1>6, WhoCommits DEF OrderInv

LEMMA CoordOrderStep ==
    ASSUME IInv, AnswerInv, OrderInv, [Next]_vars
    PROVE  CoordOrder'
  <1>0. CoordOrder /\ coord \in Coordinator
    BY DEF OrderInv, CoordOrder, ExclusionInv, IInv
  <1>1. CASE Discover \/ DiscoverFails \/ TakeWake \/ StartNext \/ WaveEnds
    BY <1>0, <1>1, DrainFields, EndsOutside, EndsLoadedOrDone
  <1>2. CASE CoordinatorStep
    BY <1>0, <1>1, <1>2, FirstSteps, BodySteps, CallSteps, LastSteps DEF CoordinatorStep
  <1>3. CASE OperatorStep \/ \E op \in Ops : OperatorRetry(op) \/ RejectLock(op)
    <2>1. UNCHANGED <<coord, in_flight, planned>>
      BY <1>3 DEF OperatorStep, RejectCheck, RejectRead, RejectCommit, OperatorRetry,
                  RejectLock, OperatorFrame, durable
    <2> QED
      BY <1>0, <2>1, OthersOrder
  <1>4. CASE \E c \in Clients : ClientStep(c)
    <2>1. UNCHANGED <<coord, in_flight, planned>>
      BY <1>4 DEF ClientStep, SubmitGet, SubmitCreate, SubmitReread, SubmitRead,
                  SubmitWake, ClientFrame
    <2> QED
      BY <1>0, <2>1, OthersOrder
  <1>5. CASE Crash
    BY <1>5, EndsOutside DEF Crash, InitCoord, Resting
  <1>6. CASE UNCHANGED vars
    BY <1>0, <1>6, OthersOrder DEF vars
  <1>7. CASE \E t \in late : LateCommit(t)
    BY <1>7 DEF OrderInv
  <1> QED
    BY <1>2, <1>3, <1>4, <1>5, <1>6, <1>7 DEF Next

\* A transaction only ever moves its row forward, and rejects no stored memory.
LEMMA GoesForward ==
    ASSUME IInv, EffectInv, AnswerInv, OrderInv, [Next]_vars
    PROVE  \/ UNCHANGED rec
           \/ \E t \in Txn :
                 /\ t.op \in Ops /\ rec'[t.op].state = t.to /\ UNCHANGED stored
                 /\ \A op \in Ops \ {t.op} : rec'[op] = rec[op]
                 /\ Rank(rec[t.op].state) <= Rank(t.to)
                 /\ t.to = "rejected" => t.op \notin AddMemory \cap stored
  <1> SUFFICES ASSUME NEW t \in Txn, TxnOK(t), KeyFree(t), Write(t), UNCHANGED stored,
                      \/ t = coord.txn /\ (TransitionCommit \/ TransitionLost)
                      \/ t = operator.txn /\ RejectCommit
                      \/ \E c \in Clients : t = client[c].txn /\ SubmitCreate(c)
               PROVE  /\ Rank(rec[t.op].state) <= Rank(t.to)
                      /\ t.to = "rejected" => t.op \notin AddMemory \cap stored
    BY WhoCommits, Follows DEF IInv, OrderInv
  <1>0. /\ t.op \in Ops /\ t.to \in State /\ ~IsTerminal(t.op)
        /\ (t.seq = 1 => ~Exists(t.op))
        /\ rec[t.op].state \in State \cup {"absent"}
    BY Follows DEF IInv, LedgerInv, LedgerType, Row, Txn
  <1>1. Rank(rec[t.op].state) \in Nat /\ Rank(rec[t.op].state) <= 6 /\ Rank(t.to) \in Nat
    BY <1>0, RankBounds
  <1>2. CASE t = coord.txn /\ (TransitionCommit \/ TransitionLost)
    <2>1. /\ coord.pc = "commit" /\ t.op = coord.op /\ t.to = coord.goal.to
          /\ CallOK /\ Calling /\ coord.goal \in Goal
      BY <1>2 DEF TransitionCommit, TransitionLost, At, IInv, CoordInv, GoalInv, OrderInv,
                  ProcessInv, Calling
    <2>2. CASE Exists(t.op)
      <3>1. Rank(rec[t.op].state) <= Rank(t.to)
        BY <1>0, <2>1, <2>2 DEF CallOK, IsOpen
      <3>2. ASSUME t.to = "rejected", t.op \in AddMemory, t.op \in stored
            PROVE  FALSE
        <4>1. t.op \in planned
          BY <3>2 DEF EffectInv, Ready
        <4>2. coord.goal.caller = "process" /\ coord.state \in Waiting
          BY <2>1, <3>2, <4>1 DEF CallOK, Goal
        <4>3. rec[t.op].state \in Waiting
          BY <2>1, <4>2 DEF OrderInv, ProcessInv, Working
        <4> QED
          BY <3>2, <4>3 DEF OrderInv, StoredInv, Waiting, Terminal
      <3> QED
        BY <3>1, <3>2
    <2>3. CASE ~Exists(t.op)
      <3>1. rec[t.op].state = "absent"
        BY <2>3 DEF Exists
      <3>2. t.op \notin stored
        BY <3>1 DEF OrderInv, StoredInv, Terminal
      <3> QED
        BY <1>1, <3>1, <3>2, Ranks
    <2> QED
      BY <2>2, <2>3
  <1>3. CASE t = operator.txn /\ RejectCommit
    <2>1. /\ t.op = operator.op /\ t.to = "rejected" /\ operator.op \notin AddMemory \cap stored
      BY <1>3 DEF OrderInv, RejectInv, RejectCommit
    <2> QED
      BY <1>1, <2>1, Ranks
  <1>4. ASSUME NEW c \in Clients, t = client[c].txn, SubmitCreate(c)
        PROVE  Rank(rec[t.op].state) <= Rank(t.to) /\ t.to # "rejected"
    <2>1. t.to = "accepted" /\ rec[t.op].state = "absent"
      BY <1>0, <1>4, ClientTxn DEF Exists
    <2> QED
      BY <2>1, Ranks
  <1> QED
    BY <1>2, <1>3, <1>4

\* While an operator's request is served, nobody else starts on its operation.
LEMMA OperatorOrderStep ==
    ASSUME IInv, OrderInv, [Next]_vars
    PROVE  /\ (operator.pc # "idle" => mutex = "operator" /\ in_flight # operator.op)'
           /\ RejectInv'
  <1>0. /\ operator \in OperatorRequest /\ in_flight \in Ops \cup {NoOp} /\ coord \in Coordinator
        /\ operator.pc # "idle" => /\ mutex = "operator" /\ in_flight # operator.op
                                   /\ operator.op \in Ops
        /\ RejectInv
    BY DEF IInv, Others, OrderInv, ExclusionInv, OperatorInv
  <1>1. ASSUME UNCHANGED operator, operator.pc # "idle"
        PROVE  operator.op \notin AddMemory \cap stored => operator.op \notin AddMemory \cap stored'
    <2>1. \A op \in stored' \ stored : op = coord.op /\ coord.pc = "store"
      BY EffectsGrow
    <2>2. coord.pc = "store" => in_flight = coord.op
      BY DEF OrderInv, ExclusionInv, InProcess, Working, Bodied
    <2> QED
      BY <1>0, <1>1, <2>1, <2>2
  <1>2. ASSUME UNCHANGED <<operator, mutex>>,
               in_flight' # in_flight => mutex = "free"
        PROVE  /\ (operator.pc # "idle" => mutex = "operator" /\ in_flight # operator.op)'
               /\ RejectInv'
    BY <1>0, <1>1, <1>2 DEF RejectInv
  <1>3. CASE CoordinatorStep
    <2>1. UNCHANGED <<operator, mutex>>
      BY <1>3 DEF CoordinatorStep, Discover, DiscoverFails, TakeWake, StartNext, WaveEnds, Load,
                  CheckDependencies, Plan, Advance, Embed, Store, Finish, Seal, TransitionRead,
                  TransitionCommit, TransitionLost, AwaitFails, Done, Failed, Pause,
                  ProcessFrame, CoordFrame
    <2>2. in_flight' # in_flight => mutex = "free"
      BY <1>3 DEF CoordinatorStep, Discover, DiscoverFails, TakeWake, StartNext, WaveEnds, Load,
                  CheckDependencies, Plan, Advance, Embed, Store, Finish, Seal, TransitionRead,
                  TransitionCommit, TransitionLost, AwaitFails, Done, Failed, Pause,
                  ProcessFrame, CoordFrame
    <2> QED
      BY <1>2, <2>1, <2>2
  <1>4. ASSUME NEW op \in Ops, RejectLock(op)
        PROVE  /\ (operator.pc # "idle" => mutex = "operator" /\ in_flight # operator.op)'
               /\ RejectInv'
    <2>1. operator'.pc = "check" /\ operator'.op = op
      BY <1>0, <1>4 DEF RejectLock, OperatorRequest
    <2>2. mutex' = "operator" /\ in_flight' = in_flight /\ in_flight # op
      BY <1>4 DEF RejectLock, OperatorFrame
    <2> QED
      BY <2>1, <2>2 DEF RejectInv
  <1>5. CASE operator' = NoRequest
    BY <1>5 DEF NoRequest, RejectInv
  <1>6. CASE RejectCheck
    <2>1. UNCHANGED <<in_flight, stored>> /\ operator.pc = "check"
      BY <1>6 DEF RejectCheck, OperatorFrame
    <2>2. CASE /\ operator.op \notin AddMemory \cap stored /\ UNCHANGED mutex
               /\ operator' = [operator EXCEPT !.pc = "read"]
      <3>1. operator'.pc = "read" /\ operator'.op = operator.op
        BY <1>0, <2>2 DEF OperatorRequest
      <3> QED
        BY <1>0, <2>1, <2>2, <3>1 DEF RejectInv
    <2> QED
      BY <1>5, <1>6, <2>2 DEF RejectCheck, RejectEnds
  <1>7. CASE RejectRead
    <2>1. UNCHANGED <<in_flight, stored>> /\ operator.pc = "read"
      BY <1>7 DEF RejectRead, OperatorFrame
    <2>2. ASSUME operator' = [operator EXCEPT !.pc = "commit",
                               !.txn = NextTxn(operator.op, "rejected", {}, "operator")],
                 UNCHANGED mutex
          PROVE  /\ (operator.pc # "idle" => mutex = "operator" /\ in_flight # operator.op)'
                 /\ RejectInv'
      <3> DEFINE t == NextTxn(operator.op, "rejected", {}, "operator")
      <3>1. t.op = operator.op /\ t.to = "rejected"
        BY DEF NextTxn
      <3> HIDE DEF t
      <3>2. operator'.pc = "commit" /\ operator'.op = operator.op /\ operator'.txn = t
        BY <1>0, <2>2 DEF OperatorRequest, t
      <3> QED
        BY <1>0, <2>1, <2>2, <3>1, <3>2 DEF RejectInv
    <2> QED
      BY <1>5, <1>7, <2>2 DEF RejectRead, RejectEnds
  <1>8. CASE RejectCommit
    BY <1>5, <1>8 DEF RejectCommit, RejectEnds
  <1>9. CASE \E op \in Ops : OperatorRetry(op)
    BY <1>2, <1>9 DEF OperatorRetry
  <1>10. CASE \E c \in Clients : ClientStep(c)
    BY <1>2, <1>10 DEF ClientStep, SubmitGet, SubmitCreate, SubmitReread, SubmitRead,
                       SubmitWake, ClientFrame
  <1>11. CASE \E t \in late : LateCommit(t)
    BY <1>11 DEF OrderInv
  <1>12. CASE Crash
    BY <1>5, <1>12 DEF Crash
  <1>13. CASE UNCHANGED vars
    BY <1>2, <1>13 DEF vars
  <1> QED
    BY <1>3, <1>4, <1>6, <1>7, <1>8, <1>9, <1>10, <1>11, <1>12, <1>13 DEF Next, OperatorStep

\* A caller that gives up either sees its transaction commit now or never.
LEMMA NoneInDoubt ==
    ASSUME ~InDoubt, IInv, late = {}, [Next]_vars
    PROVE  late' = {}
  <1>1. CASE CoordinatorStep
    BY <1>1 DEF CoordinatorStep, Discover, DiscoverFails, TakeWake, StartNext, WaveEnds, Load,
                CheckDependencies, Plan, Advance, Embed, Store, Finish, Seal, TransitionRead,
                TransitionCommit, TransitionLost, AwaitFails, Done, Failed, Pause,
                ProcessFrame, Abandon
  <1>2. CASE OperatorStep \/ \E op \in Ops : OperatorRetry(op) \/ RejectLock(op)
    BY <1>2 DEF OperatorStep, RejectCheck, RejectRead, RejectCommit, OperatorRetry,
                RejectLock, Abandon
  <1>3. CASE \E c \in Clients : ClientStep(c)
    BY <1>3 DEF ClientStep, SubmitGet, SubmitCreate, SubmitReread, SubmitRead, SubmitWake, Abandon
  <1>4. CASE (\E t \in late : LateCommit(t)) \/ Crash \/ UNCHANGED vars
    BY <1>4 DEF Crash, vars
  <1> QED
    BY <1>1, <1>2, <1>3, <1>4 DEF Next

\* What is stored is stored late, and no rejected memory is.
LEMMA StoredStep ==
    ASSUME IInv, EffectInv, AnswerInv, OrderInv, [Next]_vars
    PROVE  StoredInv' /\ RejectedIsNotStored'
  <1>0. StoredInv /\ RejectedIsNotStored /\ stored' \subseteq Ops /\ IInv'
    <2>1. IInv'
      <3>1. CASE Next
        BY <3>1, CoordinatorSteps, OperatorSteps, ClientSteps, LateCommits, Crashes DEF Next
      <3>2. CASE UNCHANGED vars
        <4>1. LedgerInv' /\ Safe
          BY <3>2, Untouched DEF IInv, vars
        <4>2. /\ Others' /\ late' \subseteq Txn /\ OperatorInv' /\ ClientInv'
              /\ operator' \in OperatorRequest /\ client' \in [Clients -> Submission]
              /\ \A u \in Txn : Carried(u)' => Carried(u)
          BY <3>2 DEF IInv, vars, Others, OperatorInv, ClientInv, Carried
        <4> QED
          BY <3>2, <4>1, <4>2, OthersKeep DEF vars
      <3> QED
        BY <3>1, <3>2
    <2> QED
      BY <2>1 DEF OrderInv, IInv, Others
  <1>1. ASSUME NEW op \in stored' \ stored
        PROVE  rec'[op].state \in {"processing", "indexed"}
    <2>1. op = coord.op /\ coord.pc = "store" /\ UNCHANGED rec
      BY <1>1, EffectsGrow
    <2> QED
      BY <2>1 DEF OrderInv, ProcessInv, Working, Bodied
  <1>2. ASSUME NEW op \in stored
        PROVE  /\ rec'[op].state \in {"processing", "indexed"} \cup Terminal
               /\ op \in AddMemory => rec'[op].state # "rejected"
    <2>1. CASE rec'[op] = rec[op]
      BY <1>0, <1>2, <2>1 DEF StoredInv, RejectedIsNotStored
    <2>2. ASSUME NEW t \in Txn, op = t.op, rec'[t.op].state = t.to,
                 Rank(rec[t.op].state) <= Rank(t.to),
                 t.to = "rejected" => t.op \notin AddMemory \cap stored
          PROVE  /\ rec'[op].state \in {"processing", "indexed"} \cup Terminal
                 /\ op \in AddMemory => rec'[op].state # "rejected"
      <3>1. t.to \in State
        BY DEF Txn
      <3>2. Rank(t.to) >= 4
        <4>1. Rank(rec[t.op].state) >= 4 /\ Rank(rec[t.op].state) \in Nat /\ Rank(t.to) \in Nat
          BY <1>0, <1>2, <2>2, <3>1, RankBounds DEF StoredInv, State, Started
        <4> QED
          BY <2>2, <4>1
      <3> QED
        BY <1>2, <2>2, <3>1, <3>2, RankBounds
    <2>3. op \in Ops
      BY <1>2 DEF IInv, Others
    <2> QED
      BY <2>1, <2>2, <2>3, GoesForward
  <1> QED
    BY <1>1, <1>2, LedgerAssumption DEF StoredInv, RejectedIsNotStored

\* If no transaction is left in doubt, whoever moves a receipt has read it where
\* it still is, and a memory is stored only for a receipt under way.
THEOREM OrderInductive == ASSUME ~InDoubt PROVE Spec => []OrderInv
  <1>1. Init => OrderInv
    <2> SUFFICES ASSUME Init PROVE OrderInv
      OBVIOUS
    <2>1. /\ coord.pc = "startup" /\ operator.pc = "idle" /\ stored = {} /\ late = {}
      BY DEF Init, InitCoord, NoRequest
    <2> QED
      BY <2>1 DEF OrderInv, ExclusionInv, InProcess, Working, Calling, Bodied, ProcessInv,
                  RejectInv, StoredInv, RejectedIsNotStored
  <1>2. IInv /\ EffectInv /\ AnswerInv /\ OrderInv /\ [Next]_vars => OrderInv'
    BY CoordOrderStep, OperatorOrderStep, NoneInDoubt, StoredStep
       DEF OrderInv, ExclusionInv, CoordOrder
  <1> QED
    BY <1>1, <1>2, Inductive, EffectsInductive, AnswersInductive, PTL DEF Spec

\* A rejected add_memory has left nothing in the store, however reject(), the
\* dead letters and process() interleave and whichever of their awaits fail, as
\* long as an abandoned transaction commits at once or never.
THEOREM RejectedLeavesNothing == ASSUME ~InDoubt PROVE Spec => []RejectedIsNotStored
  <1>1. OrderInv => RejectedIsNotStored
    BY DEF OrderInv
  <1> QED
    BY <1>1, OrderInductive, PTL

\* Under the same condition a receipt moves through its states in their order.
THEOREM ReceiptsMoveForward == ASSUME ~InDoubt PROVE Spec => StatesInOrder
  <1>1. IInv /\ EffectInv /\ AnswerInv /\ OrderInv /\ [Next]_vars
          => [\A op \in Ops : Rank(rec'[op].state) >= Rank(rec[op].state)]_vars
    <2> SUFFICES ASSUME IInv, EffectInv, AnswerInv, OrderInv, [Next]_vars, NEW op \in Ops
                 PROVE  Rank(rec'[op].state) >= Rank(rec[op].state)
      OBVIOUS
    <2>1. Rank(rec[op].state) \in Nat
      BY RankBounds DEF IInv, LedgerInv, LedgerType, Row
    <2>2. CASE rec'[op] = rec[op]
      BY <2>1, <2>2
    <2>3. CASE rec'[op] # rec[op]
      <3>1. PICK t \in Txn : /\ op = t.op /\ rec'[t.op].state = t.to
                             /\ Rank(rec[t.op].state) <= Rank(t.to)
        BY <2>3, GoesForward
      <3>2. Rank(t.to) \in Nat
        BY RankBounds DEF Txn
      <3> QED
        BY <2>1, <3>1, <3>2
    <2> QED
      BY <2>2, <2>3
  <1> QED
    BY <1>1, Inductive, EffectsInductive, AnswersInductive, OrderInductive, PTL
       DEF Spec, StatesInOrder
=============================================================================
