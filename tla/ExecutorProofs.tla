--------------------------- MODULE ExecutorProofs ---------------------------
(***************************************************************************)
(* What the supervised executor and the query cache promise, for any       *)
(* number of searches, operations, parts, restarts and faults: nobody      *)
(* takes another request's reply, the streams are aligned whenever the     *)
(* mutex is free, a dropped request or a lost child leaves nothing behind, *)
(* no CPU-era search is served a vector of the other device, the events of *)
(* an operation have generations its receipt has not seen, and no receipt  *)
(* counts an exit twice, however late its snapshots are stored.            *)
(***************************************************************************)
EXTENDS QueryCache, SequenceTheorems, TLAPS

\* A call, with no bound on its parts.
Call == [pc : {"idle", "wait", "prepare", "lock", "spawn", "read", "stop", "respawn",
               "done", "snapshot"},
         op : Ops \cup {NoOp}, id : Nat, got : Nat, gen : Nat, retry : BOOLEAN,
         fail : Failure, late : BOOLEAN, answer : {"none", "error"} \cup Device,
         calls : Nat]

Preparation == [known : BOOLEAN, exits : Nat, start : Nat, gen : Nat]

TypeInv ==
    /\ child \in Child \cup {NoChild}
    /\ owner \in Callers \cup {"free"}
    /\ sup \in Supervisor
    /\ caller \in [Callers -> Call]
    /\ prepared \in [Ops -> Preparation]
    /\ snapshot \in [Ops -> [gen : Nat, exits : Nat]]
    /\ late \subseteq [op : Ops, row : [gen : Nat, exits : Nat]]
    /\ past \in Nat /\ begun \in [DOMAIN begun -> Nat] /\ DOMAIN begun \subseteq Ops
    /\ cached \in Device \cup {"none"}
    /\ producer \in Searches \cup {"none"}

CallsInv == \A c \in Callers : caller[c].calls <= MaxParts

\* The mutex belongs to the call that is between its lock and its answer; there
\* is no child while one is stopped or started, and one while it is read.
Holding == {"spawn", "read", "stop", "respawn"}

HolderInv ==
    /\ \A c \in Callers : caller[c].pc \in Holding <=> owner = c
    /\ \A c \in Callers : At(c, "read") => HasChild
    /\ \A c \in Callers : HasChild /\ owner = c => At(c, "read")

\* The child works for the holder or not at all, and after the last word on the
\* holder's request it neither works nor writes.
LastWord(m, id) == m.id = id /\ m.kind # "progress"

Aligned == child.work = 0 /\ child.pipe = <<>>

InOrder(id) ==
    /\ child.work \in {0, id}
    /\ \A i \in 1..Len(child.pipe) :
          LastWord(child.pipe[i], id) => i = Len(child.pipe) /\ child.work = 0

StreamInv == HasChild => /\ owner = "free" => Aligned
                         /\ \A c \in Callers : owner = c => InOrder(caller[c].id)

\* The generations given out are below the counter.
Naming == {"spawn", "stop", "respawn"}

GenInv ==
    /\ 1 <= sup.next_gen
    /\ HasChild => 1 <= child.gen /\ child.gen < sup.next_gen
    /\ \A c \in Callers : caller[c].pc \in Naming =>
          1 <= caller[c].gen /\ caller[c].gen < sup.next_gen

\* The coordinator has prepared the executor for its operation: every generation
\* in use or to come is above the one its receipt had.
Serving == caller[Coordinator].pc \notin {"idle", "prepare"}
Seen == prepared[Op(Coordinator)].gen

ServingInv ==
    Serving => /\ prepared[Op(Coordinator)].known
               /\ Seen < sup.next_gen
               /\ HasChild => Seen < child.gen
               /\ \A c \in Callers : caller[c].pc \in Naming => Seen < caller[c].gen
               /\ sup.event # 0 => Seen < sup.event

JobInv ==
    /\ \A c \in Searches : Op(c) = NoOp
    /\ ~At(Coordinator, "idle") => Op(Coordinator) \in Ops
    /\ ~Serving => sup.event = 0
    /\ At(Coordinator, "prepare") => Seen < sup.next_gen
    /\ ServingInv

\* A count an operation has, had when its session began, or may yet be given by a
\* late UPDATE is one of exits there were since it began.  The baseline of a life
\* of the server leaves out every exit before it.
BaselineInv(op) ==
    /\ prepared[op].start <= sup.exits
    /\ IF prepared[op].known
       THEN /\ op \in DOMAIN begun
            /\ begun[op] + prepared[op].exits <= past + prepared[op].start
       ELSE MayCount(op, prepared[op].exits)

CountInv ==
    /\ \A op \in Ops : BaselineInv(op) /\ MayCount(op, snapshot[op].exits)
    /\ \A u \in late : MayCount(u.op, u.row.exits)

\* After the fallback there is no child on the other device, and no search that
\* began after it waits for a cached vector.
LateInv == \A c \in Searches : caller[c].late => sup.force_cpu /\ ~At(c, "wait")

DeviceInv == /\ sup.force_cpu /\ HasChild => child.device = "cpu"
             /\ LateInv

IInv == /\ TypeInv /\ CallsInv /\ HolderInv /\ StreamInv /\ GenInv /\ JobInv /\ CountInv
        /\ DeviceInv /\ RepliesMatch /\ ReadyMeansChild /\ FallbackIsComplete

-----------------------------------------------------------------------------
(* The records *)

LEMMA ChildKnown ==
    ASSUME TypeInv, HasChild
    PROVE  child \in Child
  BY DEF TypeInv, HasChild

LEMMA NamedChild ==
    ASSUME NEW x, x.gen # 0
    PROVE  x # NoChild
  BY DEF NoChild

LEMMA EmitFields ==
    ASSUME NEW s \in Supervisor, NEW op, NEW gen \in Nat, NEW exited \in BOOLEAN
    PROVE  /\ Emit(s, op, gen, exited) \in Supervisor
           /\ Emit(s, op, gen, exited).next_id = s.next_id
           /\ Emit(s, op, gen, exited).next_gen = s.next_gen
           /\ Emit(s, op, gen, exited).gen = gen
           /\ Emit(s, op, gen, exited).exits \in {s.exits, s.exits + 1}
           /\ Emit(s, op, gen, exited).ready = s.ready
           /\ Emit(s, op, gen, exited).force_cpu = s.force_cpu
           /\ Emit(s, op, gen, exited).namespace = s.namespace
           /\ Emit(s, op, gen, exited).event = IF op = NoOp THEN s.event ELSE gen
  <1> DEFINE n == IF exited THEN s.exits + 1 ELSE s.exits
             e == IF op = NoOp THEN s.event ELSE gen
  <1>1. n \in Nat /\ e \in Nat /\ n \in {s.exits, s.exits + 1}
    BY DEF Supervisor
  <1>2. Emit(s, op, gen, exited) = [s EXCEPT !.gen = gen, !.exits = n, !.event = e]
    BY DEF Emit, Supervisor
  <1> HIDE DEF n
  <1>3. e = IF op = NoOp THEN s.event ELSE gen
    OBVIOUS
  <1> HIDE DEF e
  <1> QED
    BY <1>1, <1>2, <1>3 DEF Supervisor

LEMMA AskedFields ==
    ASSUME NEW s \in Supervisor
    PROVE  /\ Asked(s) \in Supervisor
           /\ Asked(s).next_gen = s.next_gen /\ Asked(s).gen = s.gen
           /\ Asked(s).exits = s.exits /\ Asked(s).ready = s.ready
           /\ Asked(s).force_cpu = s.force_cpu /\ Asked(s).event = s.event
           /\ Asked(s).namespace = s.namespace
  BY DEF Asked, Supervisor

LEMMA AskFields ==
    ASSUME NEW s \in Supervisor, NEW me \in Call
    PROVE  /\ Ask(s, me) \in Call
           /\ Ask(s, me).pc = "lock" /\ Ask(s, me).got = 0 /\ Ask(s, me).op = me.op
           /\ Ask(s, me).late = me.late /\ Ask(s, me).answer = me.answer
           /\ Ask(s, me).calls = me.calls
  BY DEF Ask, Call, Supervisor, Failure

-----------------------------------------------------------------------------
(* What a step of a request does *)

\* To the calls: only its own, which answers the same client for the same
\* operation, has no reply but its own, and no answer but an error or a vector
\* of the child.
Keeps(c) ==
    /\ caller' \in [Callers -> Call]
    /\ \A d \in Callers \ {c} : caller'[d] = caller[d]
    /\ caller'[c].op = caller[c].op /\ caller'[c].late = caller[c].late
    /\ caller'[c].calls = caller[c].calls
    /\ caller'[c].pc \notin {"idle", "wait", "prepare"}
    /\ caller'[c].got # 0 => caller'[c].got = caller'[c].id
    /\ \/ caller'[c].answer \in {caller[c].answer, "none", "error"}
       \/ HasChild /\ caller'[c].answer = child.device

\* To the service: its counters never fall and its fallback is for good; an event
\* carries the generation of the child there is or of the one it has named.
Grows(c) ==
    /\ sup' \in Supervisor
    /\ sup.next_gen <= sup'.next_gen /\ sup.exits <= sup'.exits
    /\ sup.force_cpu => sup'.force_cpu
    /\ \/ sup'.event = sup.event
       \/ /\ Op(c) # NoOp
          /\ \/ HasChild /\ sup'.event = child.gen
             \/ caller[c].pc \in Naming /\ sup'.event = caller[c].gen

\* To the child.
Names(c) ==
    /\ child' \in Child \cup {NoChild}
    /\ HasChild' => \/ HasChild /\ child'.gen = child.gen
                    \/ caller[c].pc \in Naming /\ child'.gen = caller[c].gen
    /\ caller'[c].pc \in Naming =>
         \/ HasChild /\ caller'[c].gen = child.gen
         \/ caller'[c].gen = sup.next_gen /\ sup'.next_gen = sup.next_gen + 1
    /\ sup'.force_cpu /\ HasChild' => child'.device = "cpu"
    /\ sup'.ready => HasChild'

\* To the mutex and the streams.
Locks(c) ==
    /\ owner \in {c, "free"} /\ owner' \in {c, "free"}
    /\ caller'[c].pc \in Holding <=> owner' = c
    /\ At(c, "read")' => HasChild'
    /\ HasChild' /\ owner' = c => At(c, "read")'
    /\ HasChild' /\ owner' = "free" => Aligned'
    /\ HasChild' /\ owner' = c => InOrder(caller[c].id)'

Effect(c) == Keeps(c) /\ Grows(c) /\ Names(c) /\ Locks(c)

\* The ways in which it goes on.
LEMMA ReturnFields ==
    ASSUME TypeInv, RepliesMatch, NEW c \in Callers, NEW s \in Supervisor, NEW fail \in Failure,
           Return(c, s, fail, "none")
    PROVE  /\ Keeps(c)
           /\ owner' = "free" /\ caller'[c].pc \in {"lock", After(c)}
           /\ sup' \in Supervisor
           /\ sup'.next_gen = s.next_gen /\ sup'.exits = s.exits
           /\ sup'.force_cpu = s.force_cpu /\ sup'.ready = s.ready
           /\ \/ sup'.event = s.event
              \/ Op(c) # NoOp /\ fail = "replayable" /\ sup'.event = s.gen
  <1> DEFINE me == [caller[c] EXCEPT !.fail = "none", !.gen = 0]
             again == ~me.retry /\ (fail = "replayable" \/ (fail = "retriable" /\ me.op = NoOp))
             e == Emit(s, me.op, s.gen, FALSE)
  <1>1. /\ caller[c] \in Call /\ me \in Call
        /\ me.op = caller[c].op /\ me.late = caller[c].late /\ me.got = caller[c].got
        /\ me.id = caller[c].id /\ me.answer = caller[c].answer /\ me.calls = caller[c].calls
    BY DEF TypeInv, Call, Failure
  <1>2. /\ owner' = "free"
        /\ \/ /\ again /\ sup' = Asked(e)
              /\ caller' = [caller EXCEPT ![c] = [Ask(s, me) EXCEPT !.retry = TRUE]]
           \/ /\ sup' = s
              /\ caller' = [caller EXCEPT ![c] =
                    [me EXCEPT !.pc = After(c), !.answer = IF fail = "none" THEN "none" ELSE "error"]]
    BY DEF Return
  <1>3. s.gen \in Nat
    BY DEF Supervisor
  <1>4. caller \in [Callers -> Call] /\ After(c) \in {"snapshot", "done"}
    BY DEF TypeInv, After
  <1>5. caller[c].got # 0 => caller[c].got = caller[c].id
    BY DEF RepliesMatch
  <1>6. CASE /\ again /\ sup' = Asked(e)
             /\ caller' = [caller EXCEPT ![c] = [Ask(s, me) EXCEPT !.retry = TRUE]]
    <2> DEFINE new == [Ask(s, me) EXCEPT !.retry = TRUE]
    <2>1. /\ new \in Call /\ new.pc = "lock" /\ new.got = 0 /\ new.op = caller[c].op
          /\ new.late = caller[c].late /\ new.answer = caller[c].answer
          /\ new.calls = caller[c].calls
      <3> HIDE DEF me
      <3> QED
        BY <1>1, AskFields DEF Call
    <2>0. caller' = [caller EXCEPT ![c] = new]
      BY <1>6
    <2> HIDE DEF new, me
    <2>2. Keeps(c) /\ caller'[c].pc = "lock"
      BY <1>4, <2>0, <2>1 DEF Keeps
    <2>3. /\ e \in Supervisor /\ e.next_gen = s.next_gen /\ e.exits = s.exits
          /\ e.force_cpu = s.force_cpu /\ e.ready = s.ready
          /\ e.event = IF Op(c) = NoOp THEN s.event ELSE s.gen
      BY <1>1, <1>3 DEF Emit, Supervisor, Op
    <2>4. Op(c) = NoOp \/ fail = "replayable"
      BY <1>1, <1>6 DEF Op
    <2> HIDE DEF e
    <2> QED
      BY <1>2, <1>6, <2>2, <2>3, <2>4, AskedFields
  <1>7. CASE /\ sup' = s
             /\ caller' = [caller EXCEPT ![c] =
                   [me EXCEPT !.pc = After(c), !.answer = IF fail = "none" THEN "none" ELSE "error"]]
    <2> DEFINE a == IF fail = "none" THEN "none" ELSE "error"
               new == [me EXCEPT !.pc = After(c), !.answer = a]
    <2>0. a \in {"none", "error"}
      OBVIOUS
    <2> HIDE DEF a
    <2>1. /\ new \in Call /\ new.pc = After(c) /\ new.op = caller[c].op
          /\ new.got = caller[c].got /\ new.id = caller[c].id
          /\ new.late = caller[c].late /\ new.answer = a /\ new.calls = caller[c].calls
      <3> HIDE DEF me
      <3> QED
        BY <1>1, <1>4, <2>0 DEF Call
    <2>2. caller' = [caller EXCEPT ![c] = new]
      BY <1>7 DEF a
    <2> HIDE DEF new, me
    <2>3. Keeps(c) /\ caller'[c].pc = After(c)
      BY <1>4, <1>5, <2>0, <2>1, <2>2 DEF Keeps
    <2> QED
      BY <1>2, <1>7, <2>3
  <1> QED
    BY <1>2, <1>6, <1>7

LEMMA StopFields ==
    ASSUME TypeInv, RepliesMatch, HasChild, NEW c \in Callers, NEW s \in Supervisor,
           NEW fail \in Failure, StopChild(c, s, fail)
    PROVE  /\ Keeps(c)
           /\ owner' = c /\ caller'[c].pc = "stop" /\ caller'[c].gen = child.gen
           /\ child' = NoChild /\ sup' \in Supervisor /\ ~sup'.ready
           /\ sup'.next_gen = s.next_gen /\ sup'.exits = s.exits
           /\ sup'.force_cpu = s.force_cpu /\ sup'.event = s.event
  <1>1. child.gen \in Nat /\ caller[c] \in Call
    BY ChildKnown DEF Child, TypeInv
  <1>2. caller[c].got # 0 => caller[c].got = caller[c].id
    BY DEF RepliesMatch
  <1> DEFINE new == [caller[c] EXCEPT !.pc = "stop", !.gen = child.gen, !.fail = fail]
  <1>3. /\ new \in Call /\ new.pc = "stop" /\ new.gen = child.gen /\ new.op = caller[c].op
        /\ new.got = caller[c].got /\ new.id = caller[c].id
        /\ new.late = caller[c].late /\ new.answer = caller[c].answer
        /\ new.calls = caller[c].calls
    BY <1>1 DEF Call
  <1>4. caller' = [caller EXCEPT ![c] = new]
    BY DEF StopChild, TypeInv
  <1> HIDE DEF new
  <1>5. Keeps(c) /\ caller'[c].pc = "stop" /\ caller'[c].gen = child.gen
    BY <1>2, <1>3, <1>4 DEF Keeps, TypeInv
  <1>6. sup' = [s EXCEPT !.ready = FALSE] /\ child' = NoChild /\ owner' = c
    BY DEF StopChild
  <1> QED
    BY <1>5, <1>6 DEF Supervisor

LEMMA SpawnFields ==
    ASSUME TypeInv, RepliesMatch, NEW c \in Callers, NEW s \in Supervisor,
           NEW pc \in {"spawn", "respawn"}, Spawn(c, s, pc)
    PROVE  /\ Keeps(c)
           /\ owner' = c /\ caller'[c].pc = pc /\ caller'[c].gen = s.next_gen
           /\ sup' \in Supervisor /\ sup'.ready = s.ready
           /\ sup'.next_gen = s.next_gen + 1 /\ sup'.exits = s.exits
           /\ sup'.force_cpu = s.force_cpu /\ sup'.event = s.event
  <1>1. s.next_gen \in Nat /\ caller[c] \in Call
    BY DEF Supervisor, TypeInv
  <1>2. caller[c].got # 0 => caller[c].got = caller[c].id
    BY DEF RepliesMatch
  <1> DEFINE new == [caller[c] EXCEPT !.pc = pc, !.gen = s.next_gen]
  <1>3. /\ new \in Call /\ new.pc = pc /\ new.gen = s.next_gen /\ new.op = caller[c].op
        /\ new.got = caller[c].got /\ new.id = caller[c].id
        /\ new.late = caller[c].late /\ new.answer = caller[c].answer
        /\ new.calls = caller[c].calls
    BY <1>1 DEF Call
  <1>4. caller' = [caller EXCEPT ![c] = new]
    BY DEF Spawn, TypeInv
  <1> HIDE DEF new
  <1>5. Keeps(c) /\ caller'[c].pc = pc /\ caller'[c].gen = s.next_gen
    BY <1>2, <1>3, <1>4 DEF Keeps, TypeInv
  <1>6. sup' = [s EXCEPT !.next_gen = @ + 1] /\ owner' = c
    BY DEF Spawn
  <1> QED
    BY <1>5, <1>6 DEF Supervisor

-----------------------------------------------------------------------------
(* The steps of a request *)

\* The three outcomes with no child left in the mutex, or an idle one.
LEMMA ReturnEffect ==
    ASSUME IInv, NEW c \in Callers, owner = c, NEW s \in Supervisor, NEW fail \in Failure,
           Return(c, s, fail, "none"),
           sup.next_gen <= s.next_gen, sup.exits <= s.exits, sup.force_cpu => s.force_cpu,
           \/ s.event = sup.event
           \/ /\ Op(c) # NoOp
              /\ \/ HasChild /\ s.event = child.gen
                 \/ caller[c].pc \in Naming /\ s.event = caller[c].gen,
           fail = "replayable" =>
              \/ HasChild /\ s.gen = child.gen
              \/ caller[c].pc \in Naming /\ s.gen = caller[c].gen,
           child' \in Child \cup {NoChild},
           HasChild' => \/ HasChild /\ child'.gen = child.gen
                        \/ caller[c].pc \in Naming /\ child'.gen = caller[c].gen,
           s.force_cpu /\ HasChild' => child'.device = "cpu",
           s.ready => HasChild',
           HasChild' => Aligned'
    PROVE  Effect(c)
  <1>1. /\ Keeps(c) /\ owner' = "free" /\ caller'[c].pc \in {"lock", After(c)}
        /\ sup' \in Supervisor /\ sup'.next_gen = s.next_gen /\ sup'.exits = s.exits
        /\ sup'.force_cpu = s.force_cpu /\ sup'.ready = s.ready
        /\ \/ sup'.event = s.event
           \/ Op(c) # NoOp /\ fail = "replayable" /\ sup'.event = s.gen
    BY ReturnFields DEF IInv
  <1>2. "free" \notin Callers
    BY ExecutorAssumption DEF Callers
  <1>3. caller'[c].pc \notin Holding
    BY <1>1 DEF After, Holding
  <1>4. Grows(c)
    BY <1>1 DEF Grows
  <1>5. Names(c)
    BY <1>1, <1>3 DEF Names, Naming, Holding
  <1>6. Locks(c)
    BY <1>1, <1>2, <1>3 DEF Locks, At, Holding
  <1> QED
    BY <1>1, <1>4, <1>5, <1>6 DEF Effect

LEMMA StopEffect ==
    ASSUME IInv, HasChild, NEW c \in Callers, owner \in {c, "free"},
           NEW s \in Supervisor, NEW fail \in Failure, StopChild(c, s, fail),
           s.next_gen = sup.next_gen, s.exits = sup.exits, sup.force_cpu => s.force_cpu,
           \/ s.event = sup.event
           \/ Op(c) # NoOp /\ s.event = child.gen
    PROVE  Effect(c)
  <1>1. /\ Keeps(c) /\ owner' = c /\ caller'[c].pc = "stop" /\ caller'[c].gen = child.gen
        /\ child' = NoChild /\ sup' \in Supervisor /\ ~sup'.ready
        /\ sup'.next_gen = s.next_gen /\ sup'.exits = s.exits
        /\ sup'.force_cpu = s.force_cpu /\ sup'.event = s.event
    BY StopFields DEF IInv
  <1>2. ~HasChild'
    BY <1>1 DEF HasChild
  <1>3. /\ sup.next_gen \in Nat /\ sup.exits \in Nat
    BY DEF IInv, TypeInv, Supervisor
  <1>4. Grows(c)
    BY <1>1, <1>3 DEF Grows
  <1>5. Names(c)
    BY <1>1, <1>2 DEF Names
  <1>6. Locks(c)
    BY <1>1, <1>2 DEF Locks, At, Holding
  <1> QED
    BY <1>1, <1>4, <1>5, <1>6 DEF Effect

LEMMA SpawnEffect ==
    ASSUME IInv, ~HasChild, UNCHANGED child, NEW c \in Callers, owner \in {c, "free"},
           NEW s \in Supervisor, NEW pc \in {"spawn", "respawn"}, Spawn(c, s, pc),
           s.next_gen = sup.next_gen, sup.exits <= s.exits, s.force_cpu = sup.force_cpu,
           s.ready = sup.ready,
           \/ s.event = sup.event
           \/ Op(c) # NoOp /\ caller[c].pc \in Naming /\ s.event = caller[c].gen
    PROVE  Effect(c)
  <1>1. /\ Keeps(c) /\ owner' = c /\ caller'[c].pc = pc /\ caller'[c].gen = s.next_gen
        /\ sup' \in Supervisor /\ sup'.ready = s.ready
        /\ sup'.next_gen = s.next_gen + 1 /\ sup'.exits = s.exits
        /\ sup'.force_cpu = s.force_cpu /\ sup'.event = s.event
    BY SpawnFields DEF IInv
  <1>2. ~HasChild'
    BY DEF HasChild
  <1>3. sup.next_gen \in Nat
    BY DEF IInv, TypeInv, Supervisor
  <1>4. Grows(c)
    BY <1>1, <1>3 DEF Grows
  <1>5. ~sup.ready /\ child' \in Child \cup {NoChild}
    BY DEF IInv, ReadyMeansChild, TypeInv
  <1>6. Names(c)
    BY <1>1, <1>2, <1>5 DEF Names
  <1>7. Locks(c)
    BY <1>1, <1>2 DEF Locks, At, Holding
  <1> QED
    BY <1>1, <1>4, <1>6, <1>7 DEF Effect

LEMMA AcquireEffect ==
    ASSUME IInv, NEW c \in Callers, Acquire(c)
    PROVE  Effect(c)
  <1>0. /\ sup \in Supervisor /\ caller \in [Callers -> Call] /\ owner = "free"
        /\ "retriable" \in Failure /\ sup.next_gen \in Nat /\ sup.exits \in Nat
    BY DEF IInv, TypeInv, Acquire, Failure, Supervisor
  <1>1. CASE ~HasChild
    <2>1. Spawn(c, sup, "spawn") /\ UNCHANGED child
      BY <1>1 DEF Acquire
    <2> QED
      BY <1>0, <1>1, <2>1, SpawnEffect
  <1>2. CASE HasChild /\ ~child.alive
    <2>1. StopChild(c, sup, "retriable")
      BY <1>2 DEF Acquire
    <2> QED
      BY <1>0, <1>2, <2>1, StopEffect
  <1>3. CASE HasChild /\ child.alive
    <2>1. /\ child' = [child EXCEPT !.work = caller[c].id, !.accepted = FALSE]
          /\ owner' = c /\ caller' = [caller EXCEPT ![c] = [caller[c] EXCEPT !.pc = "read"]]
          /\ sup' = sup
      BY <1>0, <1>3 DEF Acquire
    <2>2. child \in Child /\ child.pipe = <<>> /\ 1 <= child.gen
      BY <1>0, <1>3, ChildKnown DEF IInv, StreamInv, Aligned, GenInv
    <2> DEFINE new == [caller[c] EXCEPT !.pc = "read"]
    <2>3. /\ new \in Call /\ new.pc = "read" /\ new.op = caller[c].op
          /\ new.got = caller[c].got /\ new.id = caller[c].id /\ new.late = caller[c].late
          /\ new.answer = caller[c].answer /\ new.calls = caller[c].calls
      BY <1>0 DEF Call
    <2>4. caller' = [caller EXCEPT ![c] = new] /\ caller[c].id \in Nat
      BY <1>0, <2>1 DEF Call
    <2> HIDE DEF new
    <2>5. /\ caller'[c] = new /\ caller' \in [Callers -> Call]
          /\ \A d \in Callers \ {c} : caller'[d] = caller[d]
      BY <1>0, <2>3, <2>4
    <2>6. Keeps(c)
      BY <2>3, <2>5 DEF Keeps, IInv, RepliesMatch
    <2>7. /\ child' \in Child /\ child'.gen = child.gen /\ child'.device = child.device
          /\ child'.work = caller[c].id /\ child'.pipe = <<>>
      BY <2>1, <2>2, <2>4 DEF Child
    <2>8. HasChild'
      BY <2>2, <2>7, NamedChild DEF HasChild
    <2>9. Grows(c)
      BY <1>0, <2>1 DEF Grows
    <2>10. Names(c)
      BY <1>3, <2>1, <2>3, <2>5, <2>7, <2>8 DEF Names, Naming, IInv, DeviceInv
    <2>11. InOrder(caller[c].id)'
      BY <2>3, <2>5, <2>7 DEF InOrder
    <2>12. Locks(c)
      BY <1>0, <2>1, <2>3, <2>5, <2>8, <2>11, ExecutorAssumption DEF Locks, At, Holding, Callers
    <2> QED
      BY <2>6, <2>9, <2>10, <2>12 DEF Effect
  <1> QED
    BY <1>1, <1>2, <1>3

\* The holder between its lock and its answer.
LEMMA Holder ==
    ASSUME IInv, NEW c \in Callers, caller[c].pc \in Holding
    PROVE  owner = c /\ (HasChild <=> At(c, "read"))
  BY DEF IInv, HolderInv

LEMMA SpawnedEffect ==
    ASSUME IInv, NEW c \in Callers, Spawned(c)
    PROVE  Effect(c)
  <1> DEFINE device == IF sup.force_cpu THEN "cpu" ELSE "metal"
             i == Identity(sup, device)
             s == Emit(i, NoOp, caller[c].gen, FALSE)
  <1>0. /\ sup \in Supervisor /\ caller \in [Callers -> Call] /\ caller[c] \in Call
        /\ caller[c].id \in Nat /\ caller[c].gen \in Nat /\ caller[c].fail \in Failure
        /\ caller[c].pc \in Naming /\ owner = c /\ ~HasChild /\ 1 <= caller[c].gen
        /\ sup.next_gen \in Nat /\ sup.exits \in Nat
    <2>1. caller[c].pc \in {"spawn", "respawn"}
      BY DEF Spawned
    <2> QED
      BY <2>1, Holder DEF IInv, TypeInv, GenInv, Call, Holding, Naming, Supervisor, At
  <1>1. device \in Device /\ (sup.force_cpu => device = "cpu")
    BY DEF Device
  <1> HIDE DEF device
  <1>2. /\ i \in Supervisor /\ i.next_gen = sup.next_gen /\ i.exits = sup.exits
        /\ i.force_cpu = sup.force_cpu /\ i.ready = sup.ready /\ i.event = sup.event
    BY <1>0, <1>1 DEF Identity, Supervisor
  <1> HIDE DEF i
  <1>3. /\ s \in Supervisor /\ s.next_gen = sup.next_gen /\ sup.exits <= s.exits
        /\ s.force_cpu = sup.force_cpu /\ s.ready = sup.ready /\ s.event = sup.event
        /\ s.gen = caller[c].gen
    <2>1. /\ s \in Supervisor /\ s.next_gen = i.next_gen /\ s.exits \in {i.exits, i.exits + 1}
          /\ s.force_cpu = i.force_cpu /\ s.ready = i.ready /\ s.gen = caller[c].gen
          /\ s.event = IF NoOp = NoOp THEN i.event ELSE caller[c].gen
      BY <1>0, <1>2, EmitFields, Zenon
    <2> HIDE DEF s
    <2> QED
      BY <1>0, <1>2, <2>1
  <1>4. child' = [gen |-> caller[c].gen, device |-> device, pipe |-> <<>>, alive |-> TRUE,
                  accepted |-> FALSE, work |-> IF At(c, "spawn") THEN caller[c].id ELSE 0]
    BY DEF Spawned, device
  <1>5. /\ child' \in Child /\ child'.gen = caller[c].gen /\ child'.device = device
        /\ child'.pipe = <<>> /\ child'.work = IF At(c, "spawn") THEN caller[c].id ELSE 0
    BY <1>0, <1>1, <1>4 DEF Child
  <1>6. HasChild'
    BY <1>0, <1>5, NamedChild DEF HasChild
  <1>7. CASE At(c, "spawn")
    <2>1. sup' = s /\ caller' = [caller EXCEPT ![c].pc = "read"] /\ owner' = owner
      BY <1>7 DEF Spawned, s, i, device
    <2> HIDE DEF s
    <2> DEFINE new == [caller[c] EXCEPT !.pc = "read"]
    <2>2. /\ new \in Call /\ new.pc = "read" /\ new.op = caller[c].op
          /\ new.got = caller[c].got /\ new.id = caller[c].id /\ new.late = caller[c].late
          /\ new.answer = caller[c].answer /\ new.calls = caller[c].calls
      BY <1>0 DEF Call
    <2>3. caller' = [caller EXCEPT ![c] = new]
      BY <1>0, <2>1
    <2> HIDE DEF new
    <2>4. /\ caller'[c] = new /\ caller' \in [Callers -> Call]
          /\ \A d \in Callers \ {c} : caller'[d] = caller[d]
      BY <1>0, <2>2, <2>3
    <2>5. Keeps(c)
      BY <2>2, <2>4 DEF Keeps, IInv, RepliesMatch
    <2>6. Grows(c)
      BY <1>0, <1>3, <2>1 DEF Grows
    <2>7. Names(c)
      BY <1>0, <1>1, <1>3, <1>5, <1>6, <2>1, <2>2, <2>4 DEF Names, Naming
    <2>8. InOrder(caller[c].id)'
      BY <1>5, <1>7, <2>2, <2>4 DEF InOrder
    <2>9. Locks(c)
      BY <1>0, <1>6, <2>1, <2>2, <2>4, <2>8, ExecutorAssumption DEF Locks, At, Holding, Callers
    <2> QED
      BY <2>5, <2>6, <2>7, <2>9 DEF Effect
  <1>8. CASE ~At(c, "spawn")
    <2>1. Return(c, s, caller[c].fail, "none")
      BY <1>8 DEF Spawned, s, i, device
    <2> HIDE DEF s
    <2>2. Aligned'
      BY <1>5, <1>8 DEF Aligned
    <2> QED
      BY <1>0, <1>1, <1>3, <1>5, <1>6, <2>1, <2>2, ReturnEffect
  <1> QED
    BY <1>7, <1>8

LEMMA SpawnFailsEffect ==
    ASSUME IInv, NEW c \in Callers, SpawnFails(c)
    PROVE  Effect(c)
  <1> DEFINE f == IF At(c, "spawn") THEN "fatal" ELSE "retriable"
  <1>1. f \in Failure /\ f # "replayable"
    BY DEF Failure
  <1>2. Return(c, sup, f, "none") /\ child' = child
    BY DEF SpawnFails
  <1> HIDE DEF f
  <1>3. /\ sup \in Supervisor /\ child \in Child \cup {NoChild} /\ owner = c /\ ~HasChild
        /\ sup.next_gen \in Nat /\ sup.exits \in Nat /\ ~sup.ready
    <2>1. caller[c].pc \in {"spawn", "respawn"}
      BY DEF SpawnFails
    <2> QED
      BY <2>1, Holder DEF IInv, TypeInv, Holding, Supervisor, At, ReadyMeansChild
  <1>4. ~HasChild'
    BY <1>2, <1>3 DEF HasChild
  <1> QED
    BY <1>1, <1>2, <1>3, <1>4, ReturnEffect

LEMMA StoppedEffect ==
    ASSUME IInv, NEW c \in Callers, Stopped(c)
    PROVE  Effect(c)
  <1> DEFINE s == Emit(sup, Op(c), caller[c].gen, TRUE)
  <1>1. /\ Spawn(c, s, "respawn") /\ child' = child /\ caller[c].pc = "stop"
    BY DEF Stopped, At
  <1>2. /\ sup \in Supervisor /\ caller[c].gen \in Nat /\ owner = c /\ ~HasChild
        /\ caller[c].pc \in Naming /\ sup.exits \in Nat
    BY <1>1, Holder DEF IInv, TypeInv, Holding, Supervisor, Call, At, Naming
  <1>3. /\ s \in Supervisor /\ s.next_gen = sup.next_gen /\ sup.exits <= s.exits
        /\ s.force_cpu = sup.force_cpu /\ s.ready = sup.ready
        /\ s.event = IF Op(c) = NoOp THEN sup.event ELSE caller[c].gen
    <2>1. /\ s \in Supervisor /\ s.next_gen = sup.next_gen
          /\ s.exits \in {sup.exits, sup.exits + 1}
          /\ s.force_cpu = sup.force_cpu /\ s.ready = sup.ready
          /\ s.event = IF Op(c) = NoOp THEN sup.event ELSE caller[c].gen
      <3> DEFINE e == IF Op(c) = NoOp THEN sup.event ELSE caller[c].gen
                 g == caller[c].gen
                 n == sup.exits + 1
      <3>1. s = [sup EXCEPT !.gen = g, !.exits = n, !.event = e]
        BY <1>2 DEF Emit, Supervisor
      <3>2. e \in Nat /\ g \in Nat /\ n \in Nat
        BY <1>2 DEF Supervisor
      <3> HIDE DEF s, e, g, n
      <3>3. /\ s \in Supervisor /\ s.next_gen = sup.next_gen /\ s.exits = sup.exits + 1
            /\ s.force_cpu = sup.force_cpu /\ s.ready = sup.ready /\ s.event = e
        BY <1>2, <3>1, <3>2 DEF Supervisor, n
      <3> QED
        BY <3>3 DEF e
    <2> HIDE DEF s
    <2> QED
      BY <1>2, <2>1
  <1> HIDE DEF s
  <1> QED
    BY <1>1, <1>2, <1>3, SpawnEffect

LEMMA StopFailsEffect ==
    ASSUME IInv, NEW c \in Callers, StopFails(c)
    PROVE  Effect(c)
  <1>1. Return(c, sup, "retriable", "none") /\ child' = child /\ caller[c].pc = "stop"
    BY DEF StopFails, At
  <1>2. /\ sup \in Supervisor /\ child \in Child \cup {NoChild} /\ owner = c /\ ~HasChild
        /\ sup.next_gen \in Nat /\ sup.exits \in Nat /\ ~sup.ready /\ "retriable" \in Failure
    BY <1>1, Holder DEF IInv, TypeInv, Holding, Supervisor, At, ReadyMeansChild, Failure
  <1>3. ~HasChild'
    BY <1>1, <1>2 DEF HasChild
  <1> QED
    BY <1>1, <1>2, <1>3, ReturnEffect

\* A line that is its own last word leaves the streams aligned.
LEMMA LineRead ==
    ASSUME IInv, NEW c \in Callers, At(c, "read"), child.pipe # <<>>,
           child' = [child EXCEPT !.pipe = Tail(@)]
    PROVE  /\ child' \in Child /\ child'.gen = child.gen /\ child'.device = child.device
           /\ HasChild'
           /\ caller'[c].id = caller[c].id => InOrder(caller[c].id)'
           /\ LastWord(Head(child.pipe), caller[c].id) => Aligned'
  <1>1. /\ HasChild /\ owner = c /\ child \in Child /\ 1 <= child.gen /\ child.gen # 0
        /\ InOrder(caller[c].id)
    BY Holder, ChildKnown DEF At, Holding, IInv, GenInv, StreamInv, Child
  <1>2. child.pipe \in Seq(Message) /\ child.work \in Nat
    BY <1>1 DEF Child
  <1> DEFINE p == child.pipe
             t == Tail(p)
  <1>3. /\ t \in Seq(Message) /\ Len(t) = Len(p) - 1 /\ Head(p) = p[1]
        /\ \A i \in 1..Len(t) : t[i] = p[i + 1]
        /\ Len(p) \in Nat /\ Len(p) >= 1
    BY <1>2, HeadTailProperties
  <1>4. Len(t) = 0 => t = <<>>
    BY <1>3, EmptySeq
  <1>5. /\ child' \in Child /\ child'.gen = child.gen /\ child'.device = child.device
        /\ child'.work = child.work /\ child'.pipe = t
    BY <1>1, <1>3 DEF Child
  <1>6. /\ child.work \in {0, caller[c].id}
        /\ \A i \in 1..Len(p) : LastWord(p[i], caller[c].id) => i = Len(p) /\ child.work = 0
    BY <1>1 DEF InOrder
  <1> HIDE DEF p, t
  <1>7. HasChild'
    BY <1>1, <1>5, NamedChild DEF HasChild
  <1>8. ASSUME NEW i \in 1..Len(t), LastWord(t[i], caller[c].id)
        PROVE  i = Len(t) /\ child.work = 0
    <2>1. i + 1 \in 1..Len(p) /\ t[i] = p[i + 1]
      BY <1>3
    <2> QED
      BY <1>3, <1>6, <1>8, <2>1
  <1>9. caller'[c].id = caller[c].id => InOrder(caller[c].id)'
    BY <1>5, <1>6, <1>8 DEF InOrder
  <1>10. ASSUME LastWord(p[1], caller[c].id)
         PROVE  t = <<>> /\ child.work = 0
    BY <1>3, <1>4, <1>6, <1>10
  <1>11. LastWord(Head(child.pipe), caller[c].id) => Aligned'
    BY <1>3, <1>5, <1>10 DEF Aligned, p
  <1> QED
    BY <1>5, <1>7, <1>9, <1>11

LEMMA ReadEffect ==
    ASSUME IInv, NEW c \in Callers, Read(c)
    PROVE  Effect(c)
  <1> DEFINE m == Head(child.pipe)
             s == Emit(sup, Op(c), child.gen, FALSE)
  <1>0. /\ At(c, "read") /\ child.pipe # <<>> /\ HasChild /\ owner = c /\ owner # "free"
        /\ child \in Child /\ 1 <= child.gen /\ child.gen \in Nat
        /\ sup \in Supervisor /\ caller \in [Callers -> Call] /\ caller[c] \in Call
        /\ sup.next_gen \in Nat /\ sup.exits \in Nat /\ sup.event \in Nat
        /\ (sup.force_cpu => child.device = "cpu")
        /\ {"retriable", "fatal", "replayable"} \subseteq Failure
    BY Holder, ChildKnown, ExecutorAssumption
       DEF Read, At, Holding, IInv, GenInv, TypeInv, Child, Supervisor, DeviceInv, Callers,
           Failure
  <1>1. m \in Message
    BY <1>0, HeadTailProperties DEF Child
  <1>2. /\ s \in Supervisor /\ s.next_gen = sup.next_gen /\ sup.exits = s.exits
        /\ s.force_cpu = sup.force_cpu /\ s.ready = sup.ready
        /\ s.event = IF Op(c) = NoOp THEN sup.event ELSE child.gen
    <2> DEFINE e == IF Op(c) = NoOp THEN sup.event ELSE child.gen
               g == child.gen
    <2>1. s = [sup EXCEPT !.gen = g, !.event = e]
      BY <1>0 DEF Emit, Supervisor
    <2>2. e \in Nat /\ g \in Nat
      BY <1>0
    <2> HIDE DEF s, e, g
    <2>3. /\ s \in Supervisor /\ s.next_gen = sup.next_gen /\ s.exits = sup.exits
          /\ s.force_cpu = sup.force_cpu /\ s.ready = sup.ready /\ s.event = e
      BY <1>0, <2>1, <2>2 DEF Supervisor
    <2> QED
      BY <2>3 DEF e
  <1>3. CASE ~IsReplyTo(c, m)
    <2>1. StopChild(c, sup, "retriable")
      BY <1>3 DEF Read
    <2> QED
      BY <1>0, <2>1, StopEffect
  <1>4. CASE IsReplyTo(c, m) /\ m.kind = "progress"
    <2>1. /\ child' = [child EXCEPT !.pipe = Tail(@)] /\ sup' = s
          /\ owner' = owner /\ caller' = caller
      BY <1>4 DEF Read
    <2> HIDE DEF s
    <2>2. /\ child' \in Child /\ child'.device = child.device /\ child'.gen = child.gen
          /\ HasChild' /\ InOrder(caller[c].id)'
      BY <1>0, <2>1, LineRead
    <2>3. Keeps(c)
      BY <1>0, <2>1 DEF Keeps, At, IInv, RepliesMatch
    <2>4. Grows(c)
      BY <1>0, <1>2, <2>1 DEF Grows
    <2>5. Names(c)
      BY <1>0, <1>2, <2>1, <2>2 DEF Names, Naming, At
    <2>6. Locks(c)
      BY <1>0, <2>1, <2>2 DEF Locks, At, Holding
    <2> QED
      BY <2>3, <2>4, <2>5, <2>6 DEF Effect
  <1>5. CASE IsReplyTo(c, m) /\ m.kind = "completed"
    <2>1. /\ child' = [child EXCEPT !.pipe = Tail(@)]
          /\ owner' = "free" /\ sup' = [s EXCEPT !.ready = TRUE]
          /\ caller' = [caller EXCEPT ![c].pc = After(c), ![c].got = m.id,
                                      ![c].answer = child.device]
      BY <1>5 DEF Read
    <2> HIDE DEF s
    <2> DEFINE new == [caller[c] EXCEPT !.pc = After(c), !.got = m.id, !.answer = child.device]
    <2>2. m.id \in Nat /\ child.device \in Device /\ After(c) \in {"snapshot", "done"}
      BY <1>0, <1>1 DEF Message, Child, After
    <2>3. /\ new \in Call /\ new.pc = After(c) /\ new.op = caller[c].op
          /\ new.got = m.id /\ new.id = caller[c].id /\ new.late = caller[c].late
          /\ new.answer = child.device /\ new.calls = caller[c].calls
      BY <1>0, <2>2 DEF Call
    <2>4. caller' = [caller EXCEPT ![c] = new]
      BY <1>0, <2>1
    <2> HIDE DEF new
    <2>5. /\ caller'[c] = new /\ caller' \in [Callers -> Call]
          /\ \A d \in Callers \ {c} : caller'[d] = caller[d]
      BY <1>0, <2>3, <2>4
    <2>6. LastWord(m, caller[c].id)
      BY <1>5 DEF IsReplyTo, LastWord
    <2>7. /\ child' \in Child /\ child'.device = child.device /\ child'.gen = child.gen
          /\ HasChild' /\ Aligned'
      BY <1>0, <2>1, <2>3, <2>5, <2>6, LineRead
    <2>8. /\ sup' \in Supervisor /\ sup'.next_gen = s.next_gen /\ sup'.exits = s.exits
          /\ sup'.force_cpu = s.force_cpu /\ sup'.event = s.event
      BY <1>2, <2>1 DEF Supervisor
    <2>9. Keeps(c)
      BY <1>0, <1>5, <2>2, <2>3, <2>5 DEF Keeps, IsReplyTo
    <2>10. Grows(c)
      BY <1>0, <1>2, <2>8 DEF Grows
    <2>11. Names(c)
      BY <1>0, <1>2, <2>2, <2>3, <2>5, <2>7, <2>8 DEF Names, Naming
    <2>12. Locks(c)
      BY <1>0, <2>1, <2>2, <2>3, <2>5, <2>7 DEF Locks, At, Holding
    <2> QED
      BY <2>9, <2>10, <2>11, <2>12 DEF Effect
  <1>6. CASE IsReplyTo(c, m) /\ m.kind = "failed"
    <2>1. child' = [child EXCEPT !.pipe = Tail(@)] /\ Return(c, s, "fatal", "none")
      BY <1>6 DEF Read
    <2>2. LastWord(m, caller[c].id)
      BY <1>6 DEF IsReplyTo, LastWord
    <2> HIDE DEF s
    <2>3. /\ child' \in Child /\ child'.device = child.device /\ child'.gen = child.gen
          /\ HasChild' /\ Aligned'
      BY <1>0, <2>1, <2>2, LineRead
    <2>4. /\ "fatal" \in Failure /\ "fatal" # "replayable"
          /\ sup.next_gen <= s.next_gen /\ sup.exits <= s.exits
          /\ (s.force_cpu => child'.device = "cpu") /\ child' \in Child \cup {NoChild}
          /\ (s.event = sup.event \/ (Op(c) # NoOp /\ s.event = child.gen))
      BY <1>0, <1>2, <2>3
    <2>5. Return(c, s, "fatal", "none")
      BY <2>1
    <2> QED
      BY <1>0, <1>2, <2>3, <2>4, <2>5, ReturnEffect
  <1>7. CASE IsReplyTo(c, m) /\ m.kind = "metal_fault"
    <2> DEFINE f == [s EXCEPT !.force_cpu = TRUE]
    <2>1. StopChild(c, f, "replayable")
      BY <1>7 DEF Read
    <2> HIDE DEF s
    <2>2. /\ f \in Supervisor /\ f.next_gen = s.next_gen /\ f.exits = s.exits
          /\ f.force_cpu /\ f.event = s.event
      BY <1>2 DEF Supervisor
    <2> HIDE DEF f
    <2> QED
      BY <1>0, <1>2, <2>1, <2>2, StopEffect
  <1>8. m.kind \in {"progress", "completed", "failed", "metal_fault"}
    BY <1>1 DEF Message
  <1> QED
    BY <1>3, <1>4, <1>5, <1>6, <1>7, <1>8

LEMMA WatchdogEffect ==
    ASSUME IInv, NEW c \in Callers, Watchdog(c)
    PROVE  Effect(c)
  <1>1. /\ StopChild(c, sup, "retriable") /\ caller[c].pc = "read"
    BY DEF Watchdog, At
  <1>2. /\ sup \in Supervisor /\ owner = c /\ HasChild /\ "retriable" \in Failure
    BY <1>1, Holder DEF IInv, TypeInv, Holding, At, Failure
  <1> QED
    BY <1>1, <1>2, StopEffect

LEMMA RequestEffect ==
    ASSUME IInv, NEW c \in Callers, RequestStep(c)
    PROVE  Effect(c) /\ Rest
  <1>1. Effect(c)
    BY AcquireEffect, SpawnedEffect, SpawnFailsEffect, StoppedEffect, StopFailsEffect,
       ReadEffect, WatchdogEffect DEF RequestStep
  <1>2. Rest
    BY DEF RequestStep, Acquire, Spawned, SpawnFails, Stopped, StopFails, Read, Watchdog
  <1> QED
    BY <1>1, <1>2

-----------------------------------------------------------------------------
(* The invariant *)

LEMMA CountTypes ==
    ASSUME TypeInv
    PROVE  /\ sup.exits \in Nat /\ past \in Nat
           /\ \A op \in Ops : /\ prepared[op] \in Preparation
                              /\ prepared[op].exits \in Nat /\ prepared[op].start \in Nat
                              /\ snapshot[op] \in [gen : Nat, exits : Nat]
                              /\ snapshot[op].exits \in Nat
           /\ \A u \in late : u.op \in Ops /\ u.row.exits \in Nat
           /\ \A op \in DOMAIN begun : begun[op] \in Nat
  BY DEF TypeInv, Supervisor, Preparation

\* More exits of the child leave every count one of exits there were.
LEMMA CountsGrow ==
    ASSUME TypeInv, CountInv, Rest, sup'.exits \in Nat, sup.exits <= sup'.exits
    PROVE  CountInv'
  <1>1. /\ prepared' = prepared /\ snapshot' = snapshot /\ late' = late
        /\ past' = past /\ begun' = begun
    BY DEF Rest
  <1>2. \A op \in Ops : BaselineInv(op)'
    BY <1>1, CountTypes DEF CountInv, BaselineInv, MayCount, Exited
  <1>3. \A op \in Ops : MayCount(op, snapshot[op].exits)'
    BY <1>1, CountTypes DEF CountInv, MayCount, Exited
  <1>4. \A u \in late : MayCount(u.op, u.row.exits)'
    BY <1>1, CountTypes DEF CountInv, MayCount, Exited
  <1> QED
    BY <1>1, <1>2, <1>3, <1>4 DEF CountInv

LEMMA EffectKeepsJob ==
    ASSUME IInv, NEW c \in Callers, Effect(c), Rest,
           caller[c].pc \notin {"idle", "wait", "prepare"}
    PROVE  JobInv' /\ GenInv' /\ CountInv'
  <1>0. /\ sup.next_gen \in Nat /\ sup'.next_gen \in Nat /\ sup.exits \in Nat /\ sup'.exits \in Nat
        /\ Coordinator \in Callers /\ Searches \subseteq Callers
        /\ \A op \in Ops : /\ prepared[op].gen \in Nat /\ prepared[op].start \in Nat
                           /\ prepared[op].exits \in Nat /\ snapshot[op].exits \in Nat
        /\ \A d \in Callers : caller[d].gen \in Nat /\ caller'[d].gen \in Nat
        /\ (HasChild => child.gen \in Nat) /\ (HasChild' => child'.gen \in Nat)
        /\ prepared' = prepared
    BY ChildKnown DEF Effect, Keeps, Grows, Names, IInv, TypeInv, Supervisor, Callers, Preparation,
                      Call, Child, HasChild, Rest
  <1>1. /\ \A d \in Callers \ {c} : caller'[d] = caller[d]
        /\ \A d \in Callers : caller'[d].op = caller[d].op
        /\ caller'[c].pc \notin {"idle", "wait", "prepare"}
    BY DEF Effect, Keeps
  <1>2. /\ (HasChild' => \/ HasChild /\ child'.gen = child.gen
                         \/ caller[c].pc \in Naming /\ child'.gen = caller[c].gen)
        /\ (caller'[c].pc \in Naming =>
              \/ HasChild /\ caller'[c].gen = child.gen
              \/ caller'[c].gen = sup.next_gen /\ sup'.next_gen = sup.next_gen + 1)
    BY DEF Effect, Names
  <1>3. /\ sup.next_gen <= sup'.next_gen /\ sup.exits <= sup'.exits
        /\ \/ sup'.event = sup.event
           \/ /\ Op(c) # NoOp
              /\ \/ HasChild /\ sup'.event = child.gen
                 \/ caller[c].pc \in Naming /\ sup'.event = caller[c].gen
    BY DEF Effect, Grows
  <1>4. GenInv'
    <2>1. /\ 1 <= sup.next_gen
          /\ (HasChild => 1 <= child.gen /\ child.gen < sup.next_gen)
          /\ \A d \in Callers : caller[d].pc \in Naming =>
                1 <= caller[d].gen /\ caller[d].gen < sup.next_gen
      BY DEF IInv, GenInv
    <2>2. HasChild' => 1 <= child'.gen /\ child'.gen < sup'.next_gen
      BY <1>0, <1>2, <1>3, <2>1
    <2>3. ASSUME NEW d \in Callers, caller'[d].pc \in Naming
          PROVE  1 <= caller'[d].gen /\ caller'[d].gen < sup'.next_gen
      <3>1. CASE d = c
        BY <1>0, <1>2, <1>3, <2>1, <2>3, <3>1
      <3>2. CASE d # c
        BY <1>0, <1>1, <1>3, <2>1, <2>3, <3>2
      <3> QED
        BY <3>1, <3>2
    <2> QED
      BY <1>0, <1>3, <2>1, <2>2, <2>3 DEF GenInv
  <1>5. CountInv'
    BY <1>0, <1>3, CountsGrow DEF IInv
  <1>6. /\ \A d \in Searches : Op(d) = NoOp
        /\ (~At(Coordinator, "idle") => Op(Coordinator) \in Ops)
        /\ (~Serving => sup.event = 0)
        /\ (At(Coordinator, "prepare") => Seen < sup.next_gen)
    BY DEF IInv, JobInv
  <1>7. Serving' <=> Serving
    BY <1>0, <1>1 DEF Serving
  <1>8. Op(c) # NoOp => c = Coordinator /\ Serving
    BY <1>6 DEF Callers, Serving
  <1>9. Op(Coordinator)' = Op(Coordinator) /\ Seen' = Seen
    BY <1>0, <1>1 DEF Op, Seen
  <1>10. ASSUME Serving PROVE ServingInv'
    <2>1. /\ prepared[Op(Coordinator)].known /\ Seen < sup.next_gen
          /\ (HasChild => Seen < child.gen)
          /\ \A d \in Callers : caller[d].pc \in Naming => Seen < caller[d].gen
          /\ (sup.event # 0 => Seen < sup.event)
          /\ Seen \in Nat
      BY <1>0, <1>6, <1>10 DEF IInv, JobInv, ServingInv, Seen, Serving, At
    <2>2. prepared'[Op(Coordinator)'].known /\ Seen < sup'.next_gen
      BY <1>0, <1>3, <1>9, <2>1
    <2>3. HasChild' => Seen < child'.gen
      BY <1>2, <2>1
    <2>4. ASSUME NEW d \in Callers, caller'[d].pc \in Naming
          PROVE  Seen < caller'[d].gen
      <3>1. CASE d = c
        BY <1>0, <1>2, <2>1, <2>4, <3>1
      <3>2. CASE d # c
        BY <1>1, <2>1, <2>4, <3>2
      <3> QED
        BY <3>1, <3>2
    <2>5. sup'.event # 0 => Seen < sup'.event
      BY <1>3, <2>1
    <2> QED
      BY <1>9, <2>2, <2>3, <2>4, <2>5 DEF ServingInv
  <1>11. JobInv'
    <2>1. \A d \in Searches : Op(d)' = NoOp
      BY <1>0, <1>1, <1>6 DEF Op
    <2>2. ~At(Coordinator, "idle")' => Op(Coordinator)' \in Ops
      BY <1>0, <1>1, <1>6, <1>9 DEF At
    <2>3. ~Serving' => sup'.event = 0
      BY <1>3, <1>6, <1>7, <1>8
    <2>4. At(Coordinator, "prepare")' => Seen' < sup'.next_gen
      <3>1. At(Coordinator, "prepare")' => At(Coordinator, "prepare") /\ Op(Coordinator) \in Ops
        BY <1>0, <1>1, <1>6 DEF At
      <3> QED
        BY <1>0, <1>3, <1>6, <1>9, <3>1 DEF Seen
    <2>5. ~Serving => ServingInv'
      BY <1>7 DEF ServingInv
    <2> QED
      BY <1>10, <2>1, <2>2, <2>3, <2>4, <2>5 DEF JobInv
  <1> QED
    BY <1>4, <1>5, <1>11

LEMMA EffectKeepsStreams ==
    ASSUME IInv, NEW c \in Callers, Effect(c)
    PROVE  HolderInv' /\ StreamInv'
  <1>1. /\ \A d \in Callers \ {c} : caller'[d] = caller[d]
        /\ owner \in {c, "free"} /\ owner' \in {c, "free"}
        /\ (caller'[c].pc \in Holding <=> owner' = c)
        /\ (At(c, "read")' => HasChild')
        /\ (HasChild' /\ owner' = c => At(c, "read")')
        /\ (HasChild' /\ owner' = "free" => Aligned')
        /\ (HasChild' /\ owner' = c => InOrder(caller[c].id)')
    BY DEF Effect, Keeps, Locks
  <1>2. "free" \notin Callers
    BY ExecutorAssumption DEF Callers
  <1>3. \A d \in Callers : (caller[d].pc \in Holding <=> owner = d)
    BY DEF IInv, HolderInv
  <1>4. \A d \in Callers \ {c} : caller'[d].pc \notin Holding /\ owner' # d
    BY <1>1, <1>2, <1>3
  <1>5. HolderInv'
    BY <1>1, <1>2, <1>4 DEF HolderInv, At, Holding
  <1>6. StreamInv'
    BY <1>1, <1>2, <1>4 DEF StreamInv
  <1> QED
    BY <1>5, <1>6

LEMMA EffectKeepsAnswers ==
    ASSUME IInv, NEW c \in Callers, Effect(c)
    PROVE  CallsInv' /\ DeviceInv' /\ RepliesMatch' /\ ReadyMeansChild' /\ FallbackIsComplete'
  <1>1. /\ \A d \in Callers \ {c} : caller'[d] = caller[d]
        /\ caller'[c].late = caller[c].late /\ caller'[c].calls = caller[c].calls
        /\ caller'[c].pc \notin {"idle", "wait", "prepare"}
        /\ (caller'[c].got # 0 => caller'[c].got = caller'[c].id)
        /\ \/ caller'[c].answer \in {caller[c].answer, "none", "error"}
           \/ HasChild /\ caller'[c].answer = child.device
        /\ (sup.force_cpu => sup'.force_cpu)
        /\ (sup'.force_cpu /\ HasChild' => child'.device = "cpu")
        /\ (sup'.ready => HasChild')
    BY DEF Effect, Keeps, Grows, Names
  <1>2. Searches \subseteq Callers
    BY DEF Callers
  <1>3. CallsInv'
    BY <1>1 DEF IInv, CallsInv
  <1>4. /\ \A d \in Searches : caller[d].late => sup.force_cpu /\ ~At(d, "wait")
        /\ (sup.force_cpu /\ HasChild => child.device = "cpu")
    BY DEF IInv, DeviceInv, LateInv
  <1>5. LateInv'
    BY <1>1, <1>2, <1>4 DEF LateInv, At
  <1>6. RepliesMatch'
    BY <1>1 DEF IInv, RepliesMatch
  <1>7. \A d \in Searches : caller[d].late /\ caller[d].answer # "error"
                                => caller[d].answer \in {"none", "cpu"}
    BY DEF IInv, FallbackIsComplete
  <1>8. ASSUME NEW d \in Searches, caller'[d].late, caller'[d].answer # "error"
        PROVE  caller'[d].answer \in {"none", "cpu"}
    BY <1>1, <1>2, <1>4, <1>7, <1>8
  <1>9. FallbackIsComplete'
    BY <1>8 DEF FallbackIsComplete
  <1> QED
    BY <1>1, <1>3, <1>5, <1>6, <1>9 DEF DeviceInv, ReadyMeansChild

LEMMA RequestKeeps ==
    ASSUME IInv, NEW c \in Callers, RequestStep(c), UNCHANGED <<cached, producer>>
    PROVE  IInv'
  <1>1. Effect(c) /\ Rest
    BY RequestEffect
  <1>2. caller[c].pc \notin {"idle", "wait", "prepare"}
    BY DEF RequestStep, Acquire, Spawned, SpawnFails, Stopped, StopFails, Read, Watchdog, At
  <1>3. TypeInv'
    BY <1>1 DEF IInv, TypeInv, Effect, Keeps, Grows, Names, Locks, Rest
  <1> QED
    BY <1>1, <1>2, <1>3, EffectKeepsJob, EffectKeepsStreams, EffectKeepsAnswers DEF IInv

\* The child does nothing but write, and to the streams alone.
LEMMA ChildKeeps ==
    ASSUME IInv, HasChild, ChildFrame, UNCHANGED <<cached, producer>>,
           child' \in Child, child'.gen = child.gen, child'.device = child.device,
           owner = "free" => Aligned',
           \A c \in Callers : owner = c => InOrder(caller[c].id)'
    PROVE  IInv'
  <1>1. /\ owner' = owner /\ sup' = sup /\ caller' = caller /\ prepared' = prepared
        /\ snapshot' = snapshot /\ cached' = cached /\ producer' = producer
        /\ late' = late /\ past' = past /\ begun' = begun
    BY DEF ChildFrame, Rest
  <1>2. child.gen # 0 /\ child.gen \in Nat
    BY ChildKnown DEF IInv, GenInv, Child
  <1>3. HasChild'
    BY <1>2, NamedChild DEF HasChild
  <1>4. TypeInv'
    BY <1>1 DEF IInv, TypeInv
  <1>5. HolderInv' /\ StreamInv'
    BY <1>1, <1>3 DEF IInv, HolderInv, StreamInv, At
  <1>6. GenInv' /\ DeviceInv' /\ ReadyMeansChild'
    BY <1>1, <1>3 DEF IInv, GenInv, DeviceInv, LateInv, At, ReadyMeansChild
  <1>7. ServingInv'
    BY <1>1, <1>3 DEF IInv, JobInv, ServingInv, Serving, Seen, Op
  <1>8. JobInv' /\ CountInv'
    BY <1>1, <1>7 DEF IInv, JobInv, Serving, Seen, At, Op, CountInv, BaselineInv, MayCount, Exited
  <1>9. CallsInv' /\ RepliesMatch' /\ FallbackIsComplete'
    BY <1>1 DEF IInv, CallsInv, RepliesMatch, FallbackIsComplete
  <1> QED
    BY <1>4, <1>5, <1>6, <1>8, <1>9 DEF IInv

\* One more line: the last word on the request it works for ends the work.
LEMMA WriteKeeps ==
    ASSUME IInv, Working, ChildFrame, UNCHANGED <<cached, producer>>,
           NEW id \in Nat, NEW kind \in {"progress", "completed", "failed", "metal_fault"},
           Write(id, kind), id = child.work \/ id + 1 = child.work
    PROVE  IInv'
  <1> DEFINE m == [id |-> id, kind |-> kind]
             p == child.pipe
             q == Append(p, m)
             last == kind \in {"completed", "failed", "metal_fault"} /\ id = child.work
             w == IF last THEN 0 ELSE child.work
  <1>1. HasChild /\ child \in Child /\ child.work # 0 /\ child.work \in Nat /\ p \in Seq(Message)
    BY ChildKnown DEF Working, Child, IInv
  <1>2. m \in Message /\ m.id = id /\ m.kind = kind
    BY DEF Message
  <1>3. child' = [child EXCEPT !.pipe = q, !.accepted = TRUE, !.work = w]
    BY <1>1 DEF Write, Child
  <1> HIDE DEF m
  <1>4. /\ q \in Seq(Message) /\ Len(q) = Len(p) + 1 /\ Len(p) \in Nat
        /\ q[Len(q)] = m /\ \A i \in 1..Len(p) : q[i] = p[i]
    BY <1>1, <1>2, AppendProperties
  <1>5. w \in Nat /\ w \in {0, child.work} /\ (last => w = 0)
    BY <1>1
  <1>6. last <=> kind # "progress" /\ id = child.work
    OBVIOUS
  <1> HIDE DEF p, q, w, last
  <1>7. /\ child' \in Child /\ child'.gen = child.gen /\ child'.device = child.device
        /\ child'.pipe = q /\ child'.work = w
    BY <1>1, <1>3, <1>4, <1>5 DEF Child
  <1>8. owner # "free"
    BY <1>1 DEF IInv, StreamInv, Aligned
  <1>9. ASSUME NEW c \in Callers, owner = c PROVE InOrder(caller[c].id)'
    <2>1. /\ child.work = caller[c].id
          /\ \A i \in 1..Len(p) : ~LastWord(p[i], caller[c].id)
      BY <1>1, <1>9 DEF IInv, StreamInv, InOrder, p
    <2>2. caller'[c].id = caller[c].id
      BY DEF ChildFrame
    <2>3. ASSUME NEW i \in 1..Len(q), LastWord(q[i], caller[c].id)
          PROVE  i = Len(q) /\ w = 0
      <3>1. i = Len(q)
        BY <1>4, <2>1, <2>3
      <3>2. kind # "progress" /\ id = child.work
        BY <1>2, <1>4, <2>1, <2>3, <3>1 DEF LastWord
      <3> QED
        BY <1>5, <1>6, <3>1, <3>2
    <2> QED
      BY <1>5, <1>7, <2>1, <2>2, <2>3 DEF InOrder
  <1> QED
    BY <1>1, <1>7, <1>8, <1>9, ChildKeeps

LEMMA ChildStepKeeps ==
    ASSUME IInv, ChildStep, UNCHANGED <<cached, producer>>
    PROVE  IInv'
  <1>1. HasChild => child \in Child /\ child.work \in Nat /\ child.gen \in Nat
    BY ChildKnown DEF IInv, Child
  <1>2. CASE Accept
    BY <1>1, <1>2, WriteKeeps DEF Accept, Working
  <1>3. CASE Complete
    BY <1>1, <1>3, WriteKeeps DEF Complete, Working
  <1>4. CASE Fail
    <2>1. PICK kind \in {"failed", "metal_fault"} : Write(child.work, kind)
      BY <1>4 DEF Fail
    <2>2. kind \in {"progress", "completed", "failed", "metal_fault"}
      BY <2>1
    <2> QED
      BY <1>1, <1>4, <2>1, <2>2, WriteKeeps DEF Fail, Working
  <1>5. CASE Stray
    <2>1. /\ Write(child.work - 1, "completed") /\ Working /\ ChildFrame
          /\ child.work \in Nat /\ child.work # 0
      BY <1>1, <1>5 DEF Stray, Working
    <2>2. child.work - 1 \in Nat /\ (child.work - 1) + 1 = child.work
      BY <2>1
    <2> QED
      BY <2>1, <2>2, WriteKeeps
  <1>6. CASE Die
    <2>1. /\ HasChild /\ child' = [child EXCEPT !.alive = FALSE, !.work = 0] /\ ChildFrame
          /\ child \in Child
      BY <1>1, <1>6 DEF Die
    <2>2. /\ child' \in Child /\ child'.gen = child.gen /\ child'.device = child.device
          /\ child'.pipe = child.pipe /\ child'.work = 0
      BY <2>1 DEF Child
    <2>3. owner = "free" => Aligned'
      BY <2>1, <2>2 DEF IInv, StreamInv, Aligned
    <2>4. ASSUME NEW c \in Callers, owner = c PROVE InOrder(caller[c].id)'
      <3>1. InOrder(caller[c].id) /\ caller'[c].id = caller[c].id
        BY <2>1, <2>4 DEF IInv, StreamInv, ChildFrame
      <3> QED
        BY <2>2, <3>1 DEF InOrder
    <2> QED
      BY <2>1, <2>2, <2>3, <2>4, ChildKeeps
  <1> QED
    BY <1>2, <1>3, <1>4, <1>5, <1>6 DEF ChildStep

-----------------------------------------------------------------------------
(* The coordinator *)

LEMMA Keyless ==
    ASSUME TypeInv, NEW c \in Callers, NEW new \in Call, caller' = [caller EXCEPT ![c] = new]
    PROVE  /\ caller' \in [Callers -> Call] /\ caller'[c] = new
           /\ \A d \in Callers \ {c} : caller'[d] = caller[d]
  BY DEF TypeInv

\* A call that waits or is over moves on without the mutex.
LEMMA AsideKeeps ==
    ASSUME IInv, NEW c \in Callers, NEW new \in Call, caller' = [caller EXCEPT ![c] = new],
           UNCHANGED owner, child' \in Child \cup {NoChild}, HasChild' <=> HasChild,
           HasChild' => /\ child'.work = child.work /\ child'.pipe = child.pipe
                        /\ child'.device = child.device,
           sup' \in Supervisor, sup'.force_cpu = sup.force_cpu, sup'.ready = sup.ready,
           caller[c].pc \notin Holding, new.pc \notin Holding,
           new.calls <= MaxParts,
           new.got # 0 => new.got = new.id,
           c \in Searches =>
              /\ new.late => sup.force_cpu /\ new.pc # "wait"
              /\ new.late /\ new.answer # "error" => new.answer \in {"none", "cpu"}
    PROVE  /\ HolderInv' /\ StreamInv' /\ DeviceInv' /\ CallsInv' /\ RepliesMatch'
           /\ ReadyMeansChild' /\ FallbackIsComplete'
  <1>1. /\ caller' \in [Callers -> Call] /\ caller'[c] = new
        /\ \A d \in Callers \ {c} : caller'[d] = caller[d]
    BY Keyless DEF IInv
  <1>2. owner' = owner /\ owner # c
    BY DEF IInv, HolderInv
  <1>3. HolderInv'
    BY <1>1, <1>2 DEF IInv, HolderInv, At, Holding
  <1>4. StreamInv'
    BY <1>1, <1>2 DEF IInv, StreamInv, Aligned, InOrder
  <1>5. Searches \subseteq Callers
    BY DEF Callers
  <1>6. DeviceInv'
    BY <1>1, <1>5 DEF IInv, DeviceInv, LateInv, At
  <1>7. CallsInv' /\ RepliesMatch' /\ ReadyMeansChild'
    BY <1>1 DEF IInv, CallsInv, RepliesMatch, ReadyMeansChild
  <1>8. FallbackIsComplete'
    BY <1>1, <1>5 DEF IInv, FallbackIsComplete
  <1> QED
    BY <1>3, <1>4, <1>6, <1>7, <1>8

LEMMA NewCallerFields ==
    /\ NewCaller \in Call
    /\ NewCaller.pc = "idle" /\ NewCaller.op = NoOp /\ NewCaller.got = 0 /\ ~NewCaller.late
    /\ NewCaller.answer = "none" /\ NewCaller.calls = 0
  BY DEF NewCaller, Call, Failure, Device

\* The coordinator takes an operation up.
LEMMA ProcessKeeps ==
    ASSUME IInv, NEW op \in Ops, Process(op), UNCHANGED <<cached, producer>>
    PROVE  IInv'
  <1> DEFINE new == [NewCaller EXCEPT !.pc = "prepare", !.op = op]
             g == snapshot[op].gen
             row == RowRead(op, prepared[op])
             n == IF g + 1 > sup.next_gen THEN g + 1 ELSE sup.next_gen
  <1>1. /\ At(Coordinator, "idle") /\ caller' = [caller EXCEPT ![Coordinator] = new]
        /\ child' = child /\ owner' = owner /\ prepared' = [prepared EXCEPT ![op] = row]
        /\ snapshot' = snapshot /\ late' = late /\ past' = past /\ begun' = begun
        /\ cached' = cached /\ producer' = producer
    BY DEF Process, IInv, TypeInv
  <1>2. /\ new \in Call /\ new.pc = "prepare" /\ new.op = op /\ new.got = 0 /\ ~new.late
        /\ new.calls = 0
    BY NewCallerFields DEF Call
  <1>3. /\ g \in Nat /\ sup \in Supervisor /\ sup.next_gen \in Nat /\ Coordinator \in Callers
        /\ MaxParts \in Nat /\ Searches \subseteq Callers /\ Coordinator \notin Searches
        /\ sup.exits \in Nat
    BY ExecutorAssumption DEF IInv, TypeInv, Supervisor, Callers
  <1>4. n \in Nat /\ sup.next_gen <= n /\ g < n
    BY <1>3
  <1>5. sup' = [sup EXCEPT !.next_gen = n]
    BY <1>3 DEF Process
  <1>0. /\ row \in Preparation /\ row.gen = g /\ row.known = prepared[op].known
        /\ row.start = prepared[op].start
        /\ row.exits = IF row.known THEN prepared[op].exits ELSE snapshot[op].exits
    <2> DEFINE x == IF prepared[op].known THEN prepared[op].exits ELSE snapshot[op].exits
    <2>1. row = [prepared[op] EXCEPT !.exits = x, !.gen = g]
      BY CountTypes DEF RowRead, IInv, Preparation
    <2>2. prepared[op] \in Preparation /\ x \in Nat /\ g \in Nat
      BY <1>3, CountTypes DEF IInv
    <2>3. x = IF prepared[op].known THEN prepared[op].exits ELSE snapshot[op].exits
      OBVIOUS
    <2> HIDE DEF row, x, g
    <2>4. /\ row \in Preparation /\ row.gen = g /\ row.known = prepared[op].known
          /\ row.start = prepared[op].start /\ row.exits = x
      BY <2>1, <2>2 DEF Preparation
    <2> QED
      BY <2>3, <2>4
  <1> HIDE DEF new, g, n, row
  <1>6. /\ sup' \in Supervisor /\ sup'.next_gen = n /\ sup'.force_cpu = sup.force_cpu
        /\ sup'.ready = sup.ready /\ sup'.exits = sup.exits /\ sup'.event = sup.event
    BY <1>3, <1>4, <1>5 DEF Supervisor
  <1>7. /\ caller' \in [Callers -> Call] /\ caller'[Coordinator] = new
        /\ \A d \in Callers \ {Coordinator} : caller'[d] = caller[d]
    BY <1>1, <1>2, <1>3, Keyless DEF IInv
  <1>p. /\ prepared' \in [Ops -> Preparation] /\ prepared'[op] = row
        /\ \A o \in Ops \ {op} : prepared'[o] = prepared[o]
    BY <1>0, <1>1 DEF IInv, TypeInv
  <1>8. TypeInv'
    BY <1>1, <1>6, <1>7, <1>p DEF IInv, TypeInv
  <1>9. HasChild' <=> HasChild
    BY <1>1 DEF HasChild
  <1>10. /\ HolderInv' /\ StreamInv' /\ DeviceInv' /\ CallsInv' /\ RepliesMatch'
         /\ ReadyMeansChild' /\ FallbackIsComplete'
    <2>1. caller[Coordinator].pc \notin Holding /\ new.pc \notin Holding
      BY <1>1, <1>2 DEF At, Holding
    <2>2. child' \in Child \cup {NoChild} /\ new.calls <= MaxParts
      BY <1>1, <1>2, <1>3 DEF IInv, TypeInv
    <2>3. HasChild' => /\ child'.work = child.work /\ child'.pipe = child.pipe
                       /\ child'.device = child.device
      BY <1>1
    <2>4. (new.got # 0 => new.got = new.id)
      BY <1>2
    <2> QED
      BY <1>1, <1>2, <1>3, <1>6, <1>9, <2>1, <2>2, <2>3, <2>4, AsideKeeps
  <1>11. GenInv'
    <2>1. HasChild => child.gen \in Nat
      BY ChildKnown DEF IInv, Child
    <2>2. \A d \in Callers : caller[d].gen \in Nat
      BY DEF IInv, TypeInv, Call
    <2> QED
      BY <1>1, <1>2, <1>3, <1>4, <1>6, <1>7, <1>9, <2>1, <2>2 DEF IInv, GenInv, Naming
  <1>12. JobInv'
    <2>1. ~Serving /\ ~Serving' /\ sup.event = 0
      BY <1>1, <1>2, <1>7 DEF Serving, At, IInv, JobInv
    <2>2. Op(Coordinator)' = op /\ Seen' = g
      BY <1>0, <1>2, <1>7, <1>p DEF Op, Seen
    <2>3. \A d \in Searches : Op(d)' = NoOp
      BY <1>3, <1>7 DEF IInv, JobInv, Op
    <2> QED
      BY <1>4, <1>6, <2>1, <2>2, <2>3 DEF JobInv, ServingInv, At
  <1>13. CountInv'
    <2>1. ASSUME NEW o \in Ops PROVE BaselineInv(o)'
      <3>1. BaselineInv(o) /\ MayCount(o, snapshot[o].exits)
        BY DEF IInv, CountInv
      <3>2. CASE o = op
        BY <1>0, <1>1, <1>6, <1>p, <3>1, <3>2 DEF BaselineInv, MayCount, Exited
      <3>3. CASE o # op
        BY <1>1, <1>6, <1>p, <3>1, <3>3 DEF BaselineInv, MayCount, Exited
      <3> QED
        BY <3>2, <3>3
    <2> QED
      BY <1>1, <1>6, <2>1 DEF IInv, CountInv, MayCount, Exited
  <1> QED
    BY <1>8, <1>10, <1>11, <1>12, <1>13 DEF IInv

\* prepare_operation: from here on every generation in use is above the receipt's.
LEMMA PrepareKeeps ==
    ASSUME IInv, Prepare, UNCHANGED <<cached, producer>>
    PROVE  IInv'
  <1> DEFINE op == Op(Coordinator)
             g == prepared[op].gen
             adopt == HasChild /\ child.gen <= g
             s == IF adopt THEN [sup EXCEPT !.next_gen = @ + 1, !.gen = sup.next_gen] ELSE sup
             new == Ask(s, caller[Coordinator])
             base == Baseline(prepared[op])
  <1>0. /\ At(Coordinator, "prepare") /\ owner = "free" /\ owner' = owner /\ snapshot' = snapshot
        /\ late' = late /\ past' = past /\ cached' = cached /\ producer' = producer
    BY DEF Prepare
  <1>1. /\ Coordinator \in Callers /\ op \in Ops /\ g < sup.next_gen
        /\ sup \in Supervisor /\ sup.next_gen \in Nat /\ sup.gen \in Nat /\ sup.exits \in Nat
        /\ g \in Nat
        /\ caller \in [Callers -> Call] /\ caller[Coordinator] \in Call
        /\ prepared \in [Ops -> Preparation] /\ prepared[op] \in Preparation
    BY <1>0, CountTypes DEF IInv, JobInv, TypeInv, Callers, Supervisor, Preparation, At, Serving, Seen
  <1>2. /\ sup' = [Asked(s) EXCEPT !.event = 0]
        /\ child' = IF adopt THEN [child EXCEPT !.gen = sup.next_gen] ELSE child
        /\ caller' = [caller EXCEPT ![Coordinator] = new]
        /\ prepared' = [prepared EXCEPT ![op] = base]
    BY <1>1 DEF Prepare
  <1>3. /\ s \in Supervisor /\ s.next_gen \in Nat /\ sup.next_gen <= s.next_gen
        /\ (adopt => sup.next_gen < s.next_gen)
        /\ s.exits = sup.exits /\ s.force_cpu = sup.force_cpu /\ s.ready = sup.ready
    <2>1. CASE adopt
      <3> DEFINE n == sup.next_gen
                 k == sup.next_gen + 1
      <3>1. s = [sup EXCEPT !.next_gen = k, !.gen = n]
        BY <2>1
      <3>2. n \in Nat /\ k \in Nat /\ n < k /\ n <= k /\ n = sup.next_gen
        BY <1>1
      <3> HIDE DEF s, n, k
      <3>3. /\ s \in Supervisor /\ s.next_gen = k /\ s.exits = sup.exits
            /\ s.force_cpu = sup.force_cpu /\ s.ready = sup.ready
        BY <1>1, <3>1, <3>2 DEF Supervisor
      <3> QED
        BY <3>2, <3>3
    <2>2. CASE ~adopt
      BY <1>1, <2>2
    <2> QED
      BY <2>1, <2>2
  <1>4. /\ base \in Preparation /\ base.known /\ base.gen = g /\ base.exits = prepared[op].exits
        /\ base.start = IF prepared[op].known THEN prepared[op].start ELSE sup.exits
    <2>1. CASE prepared[op].known
      BY <1>1, <2>1 DEF Baseline
    <2>2. CASE ~prepared[op].known
      <3>1. base = [prepared[op] EXCEPT !.known = TRUE, !.start = sup.exits]
        BY <2>2 DEF Baseline
      <3> HIDE DEF base, g
      <3>2. /\ base \in Preparation /\ base.known /\ base.gen = prepared[op].gen
            /\ base.exits = prepared[op].exits /\ base.start = sup.exits
        BY <1>1, <3>1 DEF Preparation
      <3> QED
        BY <2>2, <3>2 DEF g
    <2> QED
      BY <2>1, <2>2
  <1>5. /\ new \in Call /\ new.pc = "lock" /\ new.got = 0 /\ new.op = op
        /\ new.calls = caller[Coordinator].calls
    <2> HIDE DEF s
    <2> QED
      BY <1>1, <1>3, AskFields DEF Op
  <1>6. /\ sup' \in Supervisor /\ sup'.next_gen = s.next_gen /\ sup'.exits = sup.exits
        /\ sup'.force_cpu = sup.force_cpu /\ sup'.ready = sup.ready /\ sup'.event = 0
    <2> DEFINE a == Asked(s)
    <2>1. /\ a \in Supervisor /\ a.next_gen = s.next_gen /\ a.exits = s.exits
          /\ a.force_cpu = s.force_cpu /\ a.ready = s.ready
      <3> HIDE DEF s
      <3> QED
        BY <1>3, AskedFields
    <2>2. sup' = [a EXCEPT !.event = 0]
      BY <1>2
    <2> HIDE DEF a, s
    <2> QED
      BY <1>3, <2>1, <2>2 DEF Supervisor
  <1>7. HasChild => /\ child \in Child /\ child.gen \in Nat /\ 1 <= child.gen
                    /\ child.gen < sup.next_gen
    BY ChildKnown DEF IInv, Child, GenInv
  <1>8. /\ (HasChild' <=> HasChild) /\ child' \in Child \cup {NoChild}
        /\ (HasChild => /\ child' \in Child /\ child'.work = child.work /\ child'.pipe = child.pipe
                        /\ child'.device = child.device
                        /\ 1 <= child'.gen /\ child'.gen < s.next_gen
                        /\ g < child'.gen)
    <2>1. CASE adopt
      <3>1. /\ child' \in Child /\ child'.work = child.work /\ child'.pipe = child.pipe
            /\ child'.device = child.device /\ child'.gen = sup.next_gen
        BY <1>1, <1>2, <1>7, <2>1 DEF Child
      <3>2. 1 <= sup.next_gen /\ sup.next_gen < s.next_gen
        BY <1>3, <2>1 DEF IInv, GenInv
      <3>3. child'.gen # 0
        BY <1>1, <3>1, <3>2
      <3>4. HasChild'
        BY <3>3, NamedChild DEF HasChild
      <3> QED
        BY <1>1, <2>1, <3>1, <3>2, <3>4
    <2>2. CASE ~adopt
      <3>1. child' = child
        BY <1>2, <2>2
      <3>2. (HasChild' <=> HasChild) /\ child \in Child \cup {NoChild}
        BY <3>1 DEF HasChild, IInv, TypeInv
      <3> QED
        BY <1>1, <1>3, <1>7, <2>2, <3>1, <3>2
    <2> QED
      BY <2>1, <2>2
  <1> HIDE DEF s, new, base, adopt, g
  <1>9. /\ caller' \in [Callers -> Call] /\ caller'[Coordinator] = new
        /\ \A d \in Callers \ {Coordinator} : caller'[d] = caller[d]
    BY <1>1, <1>2, <1>5, Keyless DEF IInv
  <1>10. /\ prepared' \in [Ops -> Preparation] /\ prepared'[op] = base
         /\ \A o \in Ops \ {op} : prepared'[o] = prepared[o]
    BY <1>1, <1>2, <1>4
  <1>b. /\ begun' \in [DOMAIN begun' -> Nat] /\ DOMAIN begun' = DOMAIN begun \cup {op}
        /\ \A o \in DOMAIN begun' : begun'[o] = IF o \in DOMAIN begun THEN begun[o] ELSE Exited
    <2>1. Begin(op)
      BY DEF Prepare
    <2>2. begun' = [o \in DOMAIN begun \cup {op} |->
                      IF o \in DOMAIN begun THEN begun[o] ELSE Exited]
      BY <2>1 DEF Begin
    <2>3. Exited \in Nat /\ \A o \in DOMAIN begun : begun[o] \in Nat
      BY <1>1, CountTypes DEF IInv, Exited
    <2> QED
      BY <2>2, <2>3
  <1>11. TypeInv'
    BY <1>0, <1>1, <1>6, <1>8, <1>9, <1>10, <1>b DEF IInv, TypeInv
  <1>12. /\ HolderInv' /\ StreamInv' /\ DeviceInv' /\ CallsInv' /\ RepliesMatch'
         /\ ReadyMeansChild' /\ FallbackIsComplete'
    <2>1. /\ caller[Coordinator].pc \notin Holding /\ new.pc \notin Holding
          /\ caller[Coordinator].calls <= MaxParts /\ Coordinator \notin Searches
      BY <1>0, <1>1, <1>5, ExecutorAssumption DEF At, Holding, IInv, CallsInv
    <2> QED
      BY <1>0, <1>1, <1>2, <1>5, <1>6, <1>8, <2>1, AsideKeeps
  <1>13. \A d \in Callers : caller'[d].pc \notin Naming
    BY <1>0, <1>5, <1>9, ExecutorAssumption DEF IInv, HolderInv, Holding, Naming, Callers
  <1>14. GenInv'
    BY <1>1, <1>3, <1>6, <1>8, <1>13 DEF IInv, GenInv
  <1>15. Op(Coordinator)' = op /\ Seen' = g /\ Serving'
    BY <1>4, <1>5, <1>9, <1>10 DEF Op, Seen, Serving
  <1>16. JobInv'
    <2>1. \A d \in Searches : Op(d)' = NoOp
      BY <1>9, ExecutorAssumption DEF IInv, JobInv, Op, Callers
    <2>2. ServingInv'
      BY <1>1, <1>3, <1>4, <1>6, <1>8, <1>10, <1>13, <1>15 DEF ServingInv
    <2> QED
      BY <1>1, <1>5, <1>9, <1>15, <2>1, <2>2 DEF JobInv, At
  <1>17. CountInv'
    <2>1. \A o \in Ops : BaselineInv(o) /\ MayCount(o, snapshot[o].exits)
      BY DEF IInv, CountInv
    <2>2. /\ past \in Nat /\ sup.exits \in Nat /\ prepared[op].exits \in Nat
          /\ \A o \in Ops : snapshot[o].exits \in Nat
          /\ \A o \in DOMAIN begun : begun[o] \in Nat
          /\ \A u \in late : u.op \in Ops /\ u.row.exits \in Nat
      BY <1>1, CountTypes DEF IInv
    <2>3. \A o \in Ops : MayCount(o, snapshot[o].exits)'
      BY <1>0, <1>6, <1>b, <2>1, <2>2 DEF MayCount, Exited
    <2>4. \A u \in late : MayCount(u.op, u.row.exits)'
      BY <1>0, <1>6, <1>b, <2>2 DEF IInv, CountInv, MayCount, Exited
    <2>5. ASSUME NEW o \in Ops PROVE BaselineInv(o)'
      <3>1. CASE o = op
        BY <1>0, <1>4, <1>6, <1>10, <1>b, <2>1, <2>2, <3>1 DEF BaselineInv, MayCount, Exited
      <3>2. CASE o # op
        BY <1>0, <1>6, <1>10, <1>b, <2>1, <2>2, <3>2 DEF BaselineInv, MayCount, Exited
      <3> QED
        BY <3>1, <3>2
    <2> QED
      BY <1>0, <2>3, <2>4, <2>5 DEF CountInv
  <1> QED
    BY <1>11, <1>12, <1>14, <1>16, <1>17 DEF IInv

\* What becomes of the snapshot of an operation: it is stored, or it is in doubt.
Keep(op) ==
    /\ \/ snapshot' = [snapshot EXCEPT ![op] = Snapshot(op)] /\ UNCHANGED late
       \/ late' = late \cup {Update(op)} /\ UNCHANGED snapshot
    /\ UNCHANGED <<prepared, past, begun>>

\* The snapshot of an operation that has been prepared counts its own exits.
LEMMA SnapshotCounts ==
    ASSUME TypeInv, NEW op \in Ops, BaselineInv(op), prepared[op].known
    PROVE  /\ Snapshot(op) \in [gen : Nat, exits : Nat]
           /\ Snapshot(op).exits = Exits(op)
           /\ Update(op).op = op /\ Update(op).row = Snapshot(op)
           /\ MayCount(op, Exits(op))
  <1>1. /\ sup.gen \in Nat /\ sup.exits \in Nat /\ past \in Nat
        /\ prepared[op].start \in Nat /\ prepared[op].exits \in Nat
    BY CountTypes DEF TypeInv, Supervisor
  <1>2. /\ prepared[op].start <= sup.exits /\ op \in DOMAIN begun /\ begun[op] \in Nat
        /\ begun[op] + prepared[op].exits <= past + prepared[op].start
    BY CountTypes DEF BaselineInv
  <1>3. Exits(op) \in Nat /\ begun[op] + Exits(op) <= past + sup.exits
    BY <1>1, <1>2 DEF Exits
  <1> QED
    BY <1>1, <1>2, <1>3 DEF Snapshot, Update, MayCount, Exited

LEMMA KeepCounts ==
    ASSUME TypeInv, CountInv, NEW op \in Ops, prepared[op].known, Keep(op),
           sup'.exits = sup.exits
    PROVE  /\ snapshot' \in [Ops -> [gen : Nat, exits : Nat]]
           /\ late' \subseteq [op : Ops, row : [gen : Nat, exits : Nat]]
           /\ CountInv'
  <1>1. /\ Snapshot(op) \in [gen : Nat, exits : Nat] /\ Snapshot(op).exits = Exits(op)
        /\ Update(op).op = op /\ Update(op).row = Snapshot(op) /\ MayCount(op, Exits(op))
        /\ Update(op) \in [op : Ops, row : [gen : Nat, exits : Nat]]
    BY SnapshotCounts DEF CountInv, Update
  <1>2. /\ prepared' = prepared /\ past' = past /\ begun' = begun
        /\ snapshot \in [Ops -> [gen : Nat, exits : Nat]]
        /\ late \subseteq [op : Ops, row : [gen : Nat, exits : Nat]]
    BY DEF Keep, TypeInv
  <1>3. \A o \in Ops : BaselineInv(o)'
    BY <1>2 DEF CountInv, BaselineInv, MayCount, Exited
  <1>4. CASE snapshot' = [snapshot EXCEPT ![op] = Snapshot(op)] /\ UNCHANGED late
    <2>1. /\ snapshot' \in [Ops -> [gen : Nat, exits : Nat]] /\ snapshot'[op] = Snapshot(op)
          /\ \A o \in Ops \ {op} : snapshot'[o] = snapshot[o]
      BY <1>1, <1>2, <1>4
    <2>2. \A o \in Ops : MayCount(o, snapshot[o].exits)'
      BY <1>1, <1>2, <2>1 DEF CountInv, MayCount, Exited
    <2>3. \A u \in late' : MayCount(u.op, u.row.exits)'
      BY <1>2, <1>4 DEF CountInv, MayCount, Exited
    <2> QED
      BY <1>2, <1>3, <1>4, <2>1, <2>2, <2>3 DEF CountInv
  <1>5. CASE late' = late \cup {Update(op)} /\ UNCHANGED snapshot
    <2>1. \A o \in Ops : MayCount(o, snapshot[o].exits)'
      BY <1>2, <1>5 DEF CountInv, MayCount, Exited
    <2>2. \A u \in late' : MayCount(u.op, u.row.exits)'
      BY <1>1, <1>2, <1>5 DEF CountInv, MayCount, Exited
    <2> QED
      BY <1>1, <1>2, <1>3, <1>5, <2>1, <2>2 DEF CountInv
  <1> QED
    BY <1>4, <1>5 DEF Keep

LEMMA PersistStores ==
    ASSUME IInv, Persist
    PROVE  /\ Coordinator \in Callers /\ Serving /\ At(Coordinator, "snapshot")
           /\ Op(Coordinator) \in Ops /\ prepared[Op(Coordinator)].known
           /\ Keep(Op(Coordinator)) /\ UNCHANGED <<child, owner, prepared>>
  BY DEF IInv, JobInv, ServingInv, Persist, Serving, Keep, At, Callers

\* After a request the snapshot is kept, and the next part begun if there is one.
LEMMA PersistKeeps ==
    ASSUME IInv, Persist, UNCHANGED <<cached, producer>>
    PROVE  IInv'
  <1> DEFINE op == Op(Coordinator)
             me == caller[Coordinator]
             next == [Ask(sup, me) EXCEPT !.retry = FALSE, !.calls = @ + 1, !.answer = "none"]
  <1>1. /\ Coordinator \in Callers /\ Coordinator \notin Searches /\ Searches \subseteq Callers
        /\ Serving /\ At(Coordinator, "snapshot") /\ op \in Ops /\ prepared[op].known
        /\ Keep(op)
        /\ child' = child /\ owner' = owner /\ prepared' = prepared
        /\ cached' = cached /\ producer' = producer
        /\ MaxParts \in Nat
    BY PersistStores, ExecutorAssumption DEF Callers
  <1>2. sup \in Supervisor /\ me \in Call /\ me.calls \in Nat
    BY <1>1 DEF IInv, TypeInv, Call
  <1>4. \/ /\ me.calls + 1 < MaxParts /\ sup' = Asked(sup)
           /\ caller' = [caller EXCEPT ![Coordinator] = next]
        \/ /\ caller' = [caller EXCEPT ![Coordinator] = NewCaller]
           /\ sup' = [sup EXCEPT !.event = 0]
    BY <1>1, <1>2 DEF Persist, IInv, TypeInv
  <1>5. /\ next \in Call /\ next.pc = "lock" /\ next.got = 0 /\ next.op = op
        /\ next.calls = me.calls + 1
    <2> DEFINE a == Ask(sup, me)
    <2>1. /\ a \in Call /\ a.pc = "lock" /\ a.got = 0 /\ a.op = me.op /\ a.calls = me.calls
      BY <1>2, AskFields
    <2> DEFINE k == a.calls + 1
    <2>2. next = [a EXCEPT !.retry = FALSE, !.calls = k, !.answer = "none"]
      BY <2>1 DEF Call
    <2>3. me.op = op /\ k \in Nat /\ k = me.calls + 1
      BY <1>2, <2>1 DEF Op
    <2> HIDE DEF a, next, me, k
    <2>4. /\ next \in Call /\ next.pc = a.pc /\ next.got = a.got /\ next.op = a.op
          /\ next.calls = k
      BY <2>1, <2>2, <2>3 DEF Call
    <2> QED
      BY <2>1, <2>3, <2>4
  <1> HIDE DEF next, me
  <1>6. /\ sup' \in Supervisor /\ sup'.next_gen = sup.next_gen /\ sup'.exits = sup.exits
        /\ sup'.force_cpu = sup.force_cpu /\ sup'.ready = sup.ready
        /\ sup'.event \in {0, sup.event}
    <2>1. CASE sup' = Asked(sup)
      BY <1>2, <2>1, AskedFields
    <2>2. CASE sup' = [sup EXCEPT !.event = 0]
      BY <1>2, <2>2 DEF Supervisor
    <2> QED
      BY <1>4, <2>1, <2>2
  <1>3. /\ snapshot' \in [Ops -> [gen : Nat, exits : Nat]]
        /\ late' \subseteq [op : Ops, row : [gen : Nat, exits : Nat]]
        /\ CountInv' /\ past' = past /\ begun' = begun
    BY <1>1, <1>6, KeepCounts DEF IInv, Keep
  <1>7. PICK new \in Call :
           /\ caller' = [caller EXCEPT ![Coordinator] = new]
           /\ new.got = 0 /\ new.calls <= MaxParts
           /\ \/ new.pc = "lock" /\ new.op = op
              \/ new.pc = "idle" /\ sup'.event = 0
    <2>1. CASE /\ me.calls + 1 < MaxParts /\ sup' = Asked(sup)
               /\ caller' = [caller EXCEPT ![Coordinator] = next]
      <3>1. next.calls <= MaxParts
        BY <1>1, <1>2, <1>5, <2>1
      <3> QED
        BY <1>5, <2>1, <3>1
    <2>2. CASE /\ caller' = [caller EXCEPT ![Coordinator] = NewCaller]
               /\ sup' = [sup EXCEPT !.event = 0]
      <3>1. sup'.event = 0
        BY <1>2, <2>2 DEF Supervisor
      <3>2. /\ NewCaller \in Call /\ NewCaller.got = 0 /\ NewCaller.calls <= MaxParts
            /\ NewCaller.pc = "idle"
        BY <1>1, NewCallerFields
      <3> QED
        BY <2>2, <3>1, <3>2
    <2> QED
      BY <1>4, <2>1, <2>2
  <1>8. /\ caller' \in [Callers -> Call] /\ caller'[Coordinator] = new
        /\ \A d \in Callers \ {Coordinator} : caller'[d] = caller[d]
    BY <1>1, <1>7, Keyless DEF IInv
  <1>9. TypeInv'
    BY <1>1, <1>3, <1>6, <1>8 DEF IInv, TypeInv
  <1>10. (HasChild' <=> HasChild) /\ new.pc \notin Holding /\ new.pc \notin Naming
    BY <1>1, <1>7 DEF HasChild, Holding, Naming
  <1>11. /\ HolderInv' /\ StreamInv' /\ DeviceInv' /\ CallsInv' /\ RepliesMatch'
         /\ ReadyMeansChild' /\ FallbackIsComplete'
    <2>1. /\ caller[Coordinator].pc \notin Holding /\ child' \in Child \cup {NoChild}
          /\ (HasChild' => /\ child'.work = child.work /\ child'.pipe = child.pipe
                           /\ child'.device = child.device)
      BY <1>1 DEF At, Holding, IInv, TypeInv
    <2> QED
      BY <1>1, <1>6, <1>7, <1>10, <2>1, AsideKeeps
  <1>12. GenInv'
    BY <1>1, <1>6, <1>8, <1>10 DEF IInv, GenInv
  <1>13. JobInv'
    <2>1. \A d \in Searches : Op(d)' = NoOp
      BY <1>1, <1>8 DEF IInv, JobInv, Op
    <2>2. CASE new.pc = "lock" /\ new.op = op
      <3>1. Op(Coordinator)' = op /\ Serving' /\ Seen' = Seen
        BY <1>1, <1>8, <2>2 DEF Op, Serving, Seen
      <3>2. ServingInv'
        BY <1>1, <1>6, <1>8, <1>10, <3>1 DEF IInv, JobInv, ServingInv
      <3> QED
        BY <1>1, <1>8, <2>1, <2>2, <3>1, <3>2 DEF JobInv, At
    <2>3. CASE new.pc = "idle" /\ sup'.event = 0
      BY <1>8, <2>1, <2>3 DEF JobInv, ServingInv, Serving, At
    <2> QED
      BY <1>7, <2>2, <2>3
  <1> QED
    BY <1>3, <1>9, <1>11, <1>12, <1>13 DEF IInv

\* A snapshot that comes late changes the receipt, and no more than that.
LEMMA LateSnapshotKeeps ==
    ASSUME IInv, NEW u \in late, LateSnapshot(u), UNCHANGED <<cached, producer>>
    PROVE  IInv'
  <1>1. /\ late' = late \ {u} /\ snapshot' = [snapshot EXCEPT ![u.op] = u.row]
        /\ child' = child /\ owner' = owner /\ sup' = sup /\ caller' = caller
        /\ prepared' = prepared /\ past' = past /\ begun' = begun
        /\ cached' = cached /\ producer' = producer
    BY DEF LateSnapshot
  <1>2. u.op \in Ops /\ u.row \in [gen : Nat, exits : Nat]
    BY DEF IInv, TypeInv
  <1>3. /\ snapshot' \in [Ops -> [gen : Nat, exits : Nat]] /\ snapshot'[u.op] = u.row
        /\ \A o \in Ops \ {u.op} : snapshot'[o] = snapshot[o]
    BY <1>1, <1>2 DEF IInv, TypeInv
  <1>4. TypeInv'
    BY <1>1, <1>3 DEF IInv, TypeInv
  <1>5. CountInv'
    <2>1. \A o \in Ops : BaselineInv(o)'
      BY <1>1 DEF IInv, CountInv, BaselineInv, MayCount, Exited
    <2>2. \A o \in Ops : MayCount(o, snapshot[o].exits)'
      BY <1>1, <1>3 DEF IInv, CountInv, MayCount, Exited
    <2>3. \A v \in late' : MayCount(v.op, v.row.exits)'
      BY <1>1 DEF IInv, CountInv, MayCount, Exited
    <2> QED
      BY <2>1, <2>2, <2>3 DEF CountInv
  <1>6. GenInv' /\ JobInv'
    BY <1>1 DEF IInv, GenInv, JobInv, ServingInv, Serving, Seen, HasChild, At, Op
  <1>7. /\ CallsInv' /\ HolderInv' /\ StreamInv' /\ DeviceInv' /\ RepliesMatch'
        /\ ReadyMeansChild' /\ FallbackIsComplete'
    BY <1>1 DEF IInv, CallsInv, HolderInv, StreamInv, InOrder, Aligned, DeviceInv, LateInv,
                RepliesMatch, ReadyMeansChild, FallbackIsComplete, HasChild, At
  <1> QED
    BY <1>4, <1>5, <1>6, <1>7 DEF IInv

-----------------------------------------------------------------------------
(* The searches *)

\* A search's steps outside the executor concern nobody's operation.
LEMMA SearchKeepsJob ==
    ASSUME IInv, NEW c \in Searches, NEW new \in Call, caller' = [caller EXCEPT ![c] = new],
           new.op = NoOp, new.pc \notin Naming,
           child' = child \/ child' = NoChild, Rest,
           sup' \in Supervisor, sup'.next_gen = sup.next_gen, sup.exits <= sup'.exits,
           sup'.event = sup.event
    PROVE  GenInv' /\ JobInv' /\ CountInv'
  <1>1. /\ caller' \in [Callers -> Call] /\ caller'[c] = new
        /\ \A d \in Callers \ {c} : caller'[d] = caller[d]
        /\ Coordinator \in Callers \ {c} /\ prepared' = prepared
        /\ Searches \subseteq Callers
    BY Keyless, ExecutorAssumption DEF Callers, IInv, Rest
  <1>2. HasChild' => HasChild /\ child' = child
    BY DEF HasChild
  <1>3. \A d \in Callers : caller'[d].pc \in Naming => caller'[d] = caller[d]
    BY <1>1
  <1>4. GenInv'
    BY <1>1, <1>2, <1>3 DEF IInv, GenInv
  <1>5. /\ caller'[Coordinator] = caller[Coordinator]
        /\ (Serving' <=> Serving) /\ Op(Coordinator)' = Op(Coordinator) /\ Seen' = Seen
    BY <1>1 DEF Serving, Op, Seen
  <1>6. ServingInv'
    BY <1>1, <1>2, <1>3, <1>5 DEF IInv, JobInv, ServingInv
  <1>7. JobInv'
    BY <1>1, <1>5, <1>6 DEF IInv, JobInv, At, Op
  <1>8. CountInv'
    BY CountsGrow DEF IInv, Supervisor
  <1> QED
    BY <1>4, <1>7, <1>8

\* All that a step of a search outside the executor may do.
Aside(c, new) ==
    /\ new \in Call /\ caller' = [caller EXCEPT ![c] = new]
    /\ new.op = NoOp /\ new.pc \notin Holding /\ new.calls <= MaxParts
    /\ new.got # 0 => new.got = new.id
    /\ new.late => sup.force_cpu /\ new.pc # "wait"
    /\ new.late /\ new.answer # "error" => new.answer \in {"none", "cpu"}
    /\ sup' \in {sup, Asked(sup)}
    /\ UNCHANGED <<child, owner>> /\ Rest
    /\ cached' \in Device \cup {"none"} /\ producer' \in Searches \cup {"none"}

LEMMA AsideStep ==
    ASSUME IInv, NEW c \in Searches, NEW new, Aside(c, new), caller[c].pc \notin Holding
    PROVE  IInv'
  <1>1. c \in Callers /\ sup \in Supervisor /\ sup.exits \in Nat /\ sup.next_gen \in Nat
    BY DEF Callers, IInv, TypeInv, Supervisor
  <1>2. /\ sup' \in Supervisor /\ sup'.next_gen = sup.next_gen /\ sup'.exits = sup.exits
        /\ sup'.force_cpu = sup.force_cpu /\ sup'.ready = sup.ready /\ sup'.event = sup.event
    <2>1. CASE sup' = sup
      BY <1>1, <2>1
    <2>2. CASE sup' = Asked(sup)
      BY <1>1, <2>2, AskedFields
    <2> QED
      BY <2>1, <2>2 DEF Aside
  <1>3. /\ child' = child /\ owner' = owner /\ Rest
        /\ (HasChild' <=> HasChild) /\ child' \in Child \cup {NoChild}
        /\ new \in Call /\ caller' = [caller EXCEPT ![c] = new] /\ new.op = NoOp
        /\ new.pc \notin Holding /\ new.pc \notin Naming
    BY DEF Aside, HasChild, IInv, TypeInv, Holding, Naming
  <1>4. GenInv' /\ JobInv' /\ CountInv'
    <2>1. sup.exits <= sup'.exits
      BY <1>1, <1>2
    <2> QED
      BY <1>2, <1>3, <2>1, SearchKeepsJob
  <1>5. /\ HolderInv' /\ StreamInv' /\ DeviceInv' /\ CallsInv' /\ RepliesMatch'
        /\ ReadyMeansChild' /\ FallbackIsComplete'
    BY <1>1, <1>2, <1>3, AsideKeeps DEF Aside
  <1>6. TypeInv'
    BY <1>1, <1>2, <1>3, Keyless DEF Aside, Rest, IInv, TypeInv
  <1> QED
    BY <1>4, <1>5, <1>6 DEF IInv

\* What a search asks of the executor.
LEMMA ProduceAside ==
    ASSUME IInv, NEW c \in Searches, NEW me \in Call, Produce(c, me),
           me.op = NoOp, me.calls <= MaxParts, me.late => sup.force_cpu,
           me.late /\ me.answer # "error" => me.answer \in {"none", "cpu"},
           UNCHANGED <<child, owner, cached>>, Rest,
           producer' \in Searches \cup {"none"}
    PROVE  Aside(c, Ask(sup, me))
  <1> DEFINE new == Ask(sup, me)
  <1>1. sup \in Supervisor
    BY DEF IInv, TypeInv
  <1>2. /\ new \in Call /\ new.pc = "lock" /\ new.got = 0 /\ new.op = NoOp
        /\ new.late = me.late /\ new.answer = me.answer /\ new.calls = me.calls
    BY <1>1, AskFields
  <1>3. caller' = [caller EXCEPT ![c] = new] /\ sup' = Asked(sup)
    BY DEF Produce
  <1> HIDE DEF new
  <1>4. cached' \in Device \cup {"none"}
    BY DEF IInv, TypeInv
  <1>5. Aside(c, new)
    BY <1>2, <1>3, <1>4 DEF Aside, Holding
  <1> QED
    BY <1>5 DEF new

LEMMA SearchStepKeeps ==
    ASSUME IInv, NEW c \in Searches, Search(c)
    PROVE  IInv'
  <1> DEFINE cpu == sup.force_cpu
             me == [NewCaller EXCEPT !.late = cpu]
  <1>1. sup \in Supervisor /\ cpu \in BOOLEAN /\ MaxParts \in Nat
    BY ExecutorAssumption DEF IInv, TypeInv, Supervisor
  <1>2. /\ me \in Call /\ me.pc = "idle" /\ me.op = NoOp /\ me.got = 0 /\ me.calls = 0
        /\ me.late = cpu /\ me.answer = "none"
    <2> HIDE DEF cpu
    <2> QED
      BY <1>1, NewCallerFields DEF Call
  <1>3. caller[c].pc \notin Holding
    BY DEF Search, At, Holding
  <1>4. /\ cached' = cached /\ child' = child /\ owner' = owner /\ Rest
        /\ cached \in Device \cup {"none"} /\ producer \in Searches \cup {"none"}
    BY DEF Search, SearchFrame, IInv, TypeInv
  <1>5. \/ Produce(c, me) /\ producer' \in {producer, c}
        \/ /\ ~cpu /\ cached # "none" /\ sup' = sup /\ producer' = producer
           /\ caller' = [caller EXCEPT ![c] = [me EXCEPT !.answer = cached, !.pc = "done"]]
        \/ /\ ~cpu /\ sup' = sup /\ producer' = producer
           /\ caller' = [caller EXCEPT ![c] = [me EXCEPT !.pc = "wait"]]
    BY DEF Search, HasKey
  <1> HIDE DEF cpu, me
  <1>6. CASE Produce(c, me) /\ producer' \in {producer, c}
    <2>1. /\ me.calls <= MaxParts /\ (me.late => sup.force_cpu)
          /\ producer' \in Searches \cup {"none"}
      BY <1>1, <1>2, <1>4, <1>6 DEF cpu
    <2>2. Aside(c, Ask(sup, me))
      BY <1>2, <1>4, <1>6, <2>1, ProduceAside
    <2> QED
      BY <1>3, <2>2, AsideStep
  <1>7. CASE /\ ~cpu /\ cached # "none" /\ sup' = sup /\ producer' = producer
             /\ caller' = [caller EXCEPT ![c] = [me EXCEPT !.answer = cached, !.pc = "done"]]
    <2> DEFINE new == [me EXCEPT !.answer = cached, !.pc = "done"]
    <2>1. /\ new \in Call /\ new.pc = "done" /\ new.op = NoOp /\ new.got = 0 /\ new.calls = 0
          /\ ~new.late
      BY <1>2, <1>4, <1>7 DEF Call
    <2>2. caller' = [caller EXCEPT ![c] = new]
      BY <1>7
    <2> HIDE DEF new
    <2>3. /\ new.pc \notin Holding /\ new.calls <= MaxParts
          /\ (new.got # 0 => new.got = new.id)
      BY <1>1, <2>1 DEF Holding
    <2>4. /\ sup' \in {sup, Asked(sup)} /\ cached' \in Device \cup {"none"}
          /\ producer' \in Searches \cup {"none"}
      BY <1>4, <1>7
    <2>5. Aside(c, new)
      BY <1>4, <2>1, <2>2, <2>3, <2>4 DEF Aside
    <2> QED
      BY <1>3, <2>5, AsideStep
  <1>8. CASE /\ ~cpu /\ sup' = sup /\ producer' = producer
             /\ caller' = [caller EXCEPT ![c] = [me EXCEPT !.pc = "wait"]]
    <2> DEFINE new == [me EXCEPT !.pc = "wait"]
    <2>1. /\ new \in Call /\ new.pc = "wait" /\ new.op = NoOp /\ new.got = 0 /\ new.calls = 0
          /\ ~new.late
      BY <1>2, <1>8 DEF Call
    <2>2. caller' = [caller EXCEPT ![c] = new]
      BY <1>8
    <2> HIDE DEF new
    <2>3. /\ new.pc \notin Holding /\ new.calls <= MaxParts
          /\ (new.got # 0 => new.got = new.id)
      BY <1>1, <2>1 DEF Holding
    <2>4. /\ sup' \in {sup, Asked(sup)} /\ cached' \in Device \cup {"none"}
          /\ producer' \in Searches \cup {"none"}
      BY <1>4, <1>8
    <2>5. Aside(c, new)
      BY <1>4, <2>1, <2>2, <2>3, <2>4 DEF Aside
    <2> QED
      BY <1>3, <2>5, AsideStep
  <1> QED
    BY <1>5, <1>6, <1>7, <1>8

\* A search on its way in the cache is not a late one.
LEMMA WaitedKeeps ==
    ASSUME IInv, NEW c \in Searches, Waited(c)
    PROVE  IInv'
  <1>1. /\ c \in Callers /\ caller[c] \in Call /\ caller \in [Callers -> Call]
        /\ sup \in Supervisor
        /\ ~caller[c].late /\ caller[c].op = NoOp /\ caller[c].calls <= MaxParts
        /\ (caller[c].got # 0 => caller[c].got = caller[c].id)
        /\ caller[c].pc = "wait" /\ caller[c].pc \notin Holding
        /\ cached \in Device \cup {"none"} /\ producer \in Searches \cup {"none"}
    BY DEF IInv, TypeInv, Callers, DeviceInv, LateInv, JobInv, CallsInv, RepliesMatch, Waited, At,
           Holding, Op
  <1>2. UNCHANGED <<child, owner, cached>> /\ Rest
    BY DEF Waited, SearchFrame
  <1>3. CASE cached # "none"
    <2> DEFINE new == [caller[c] EXCEPT !.answer = cached, !.pc = "done"]
    <2>1. sup' = sup /\ producer' = producer /\ caller' = [caller EXCEPT ![c] = new]
      BY <1>1, <1>3 DEF Waited
    <2>2. /\ new \in Call /\ new.pc = "done" /\ new.op = NoOp /\ ~new.late
          /\ new.got = caller[c].got /\ new.id = caller[c].id /\ new.calls = caller[c].calls
      BY <1>1 DEF Call
    <2> HIDE DEF new
    <2>3. Aside(c, new)
      BY <1>1, <1>2, <2>1, <2>2 DEF Aside, Holding
    <2> QED
      BY <1>1, <2>3, AsideStep
  <1>4. CASE cached = "none"
    <2>1. Produce(c, caller[c]) /\ producer' \in Searches \cup {"none"}
      BY <1>4 DEF Waited
    <2>2. Aside(c, Ask(sup, caller[c]))
      BY <1>1, <1>2, <2>1, ProduceAside
    <2> QED
      BY <1>1, <2>2, AsideStep
  <1> QED
    BY <1>3, <1>4

LEMMA AnsweredKeeps ==
    ASSUME IInv, NEW c \in Searches, Answered(c)
    PROVE  IInv'
  <1> DEFINE new == [caller[c] EXCEPT !.pc = "idle"]
  <1>1. /\ c \in Callers /\ caller[c] \in Call /\ caller \in [Callers -> Call]
        /\ (caller[c].late => sup.force_cpu) /\ caller[c].op = NoOp
        /\ caller[c].calls <= MaxParts
        /\ (caller[c].got # 0 => caller[c].got = caller[c].id)
        /\ (caller[c].late /\ caller[c].answer # "error" => caller[c].answer \in {"none", "cpu"})
        /\ caller[c].pc \notin Holding
        /\ cached \in Device \cup {"none"} /\ producer \in Searches \cup {"none"}
    BY DEF IInv, TypeInv, Callers, DeviceInv, LateInv, JobInv, CallsInv, RepliesMatch, Answered, At,
           Holding, Op, FallbackIsComplete
  <1>2. /\ sup' = sup /\ child' = child /\ owner' = owner /\ Rest
        /\ caller' = [caller EXCEPT ![c] = new]
    BY <1>1 DEF Answered, SearchFrame
  <1>3. cached' \in Device \cup {"none"} /\ producer' \in Searches \cup {"none"}
    BY <1>1 DEF Answered, Call
  <1>4. /\ new \in Call /\ new.pc = "idle" /\ new.op = NoOp /\ new.late = caller[c].late
        /\ new.got = caller[c].got /\ new.id = caller[c].id /\ new.calls = caller[c].calls
        /\ new.answer = caller[c].answer
    BY <1>1 DEF Call
  <1> HIDE DEF new
  <1>5. Aside(c, new)
    BY <1>1, <1>2, <1>3, <1>4 DEF Aside, Holding
  <1> QED
    BY <1>1, <1>5, AsideStep

\* A dropped request takes the mutex, and the child it had, with it.
LEMMA CancelKeeps ==
    ASSUME IInv, NEW c \in Searches, CancelSearch(c)
    PROVE  IInv'
  <1>1. /\ c \in Callers /\ Searches \subseteq Callers /\ "free" \notin Callers
        /\ sup \in Supervisor /\ sup.exits \in Nat
        /\ Op(c) = NoOp /\ MaxParts \in Nat /\ Callers = Searches \cup {Coordinator}
    BY ExecutorAssumption DEF IInv, TypeInv, Callers, Supervisor, JobInv
  <1>2. /\ Retire(c, sup) /\ caller' = [caller EXCEPT ![c] = NewCaller]
        /\ owner' = (IF owner = c THEN "free" ELSE owner)
        /\ Rest /\ cached' = cached
        /\ producer' = (IF producer = c THEN "none" ELSE producer)
    BY DEF CancelSearch, Cancel
  <1>3. /\ caller' \in [Callers -> Call] /\ caller'[c] = NewCaller
        /\ \A d \in Callers \ {c} : caller'[d] = caller[d]
    BY <1>1, <1>2, Keyless, NewCallerFields DEF IInv
  <1>4. /\ \/ owner = c /\ HasChild /\ child' = NoChild /\ ~sup'.ready
           \/ ~(owner = c /\ HasChild) /\ child' = child /\ sup' = sup
        /\ sup' \in Supervisor /\ sup'.next_gen = sup.next_gen /\ sup.exits <= sup'.exits
        /\ sup'.force_cpu = sup.force_cpu /\ sup'.event = sup.event
    <2>1. CASE owner = c /\ HasChild
      <3> DEFINE g == child.gen
                 n == sup.exits + 1
      <3>1. g \in Nat /\ n \in Nat /\ sup.exits <= n
        BY <1>1, <2>1, ChildKnown DEF IInv, Child
      <3>2. child' = NoChild /\ sup' = [sup EXCEPT !.gen = g, !.exits = n, !.ready = FALSE]
        BY <1>1, <1>2, <2>1 DEF Retire, Emit, Supervisor
      <3> HIDE DEF g, n
      <3> QED
        BY <1>1, <2>1, <3>1, <3>2 DEF Supervisor
    <2>2. CASE ~(owner = c /\ HasChild)
      <3>1. child' = child /\ sup' = sup
        BY <1>2, <2>2 DEF Retire
      <3> QED
        BY <1>1, <2>2, <3>1
    <2> QED
      BY <2>1, <2>2
  <1>5. GenInv' /\ JobInv' /\ CountInv'
    <2>1. NewCaller.pc \notin Naming /\ (child' = child \/ child' = NoChild)
      BY <1>4, NewCallerFields DEF Naming
    <2> QED
      BY <1>2, <1>4, <2>1, NewCallerFields, SearchKeepsJob
  <1>6. TypeInv'
    BY <1>1, <1>2, <1>3, <1>4 DEF IInv, TypeInv, Rest
  <1>7. /\ (HasChild' => HasChild /\ child' = child /\ owner # c)
        /\ (owner # c => (HasChild' <=> HasChild))
        /\ owner' # c /\ caller'[c].pc = "idle"
    BY <1>1, <1>2, <1>3, <1>4, NewCallerFields DEF HasChild
  <1>8. \A d \in Callers \ {c} : owner' = d <=> owner = d
    BY <1>1, <1>2
  <1>9. HolderInv'
    BY <1>3, <1>7, <1>8 DEF IInv, HolderInv, At, Holding
  <1>10. StreamInv'
    BY <1>1, <1>2, <1>3, <1>7, <1>8 DEF IInv, StreamInv, Aligned, InOrder
  <1>11. /\ CallsInv' /\ DeviceInv' /\ RepliesMatch' /\ FallbackIsComplete'
    BY <1>1, <1>3, <1>4, <1>7, NewCallerFields
       DEF IInv, CallsInv, DeviceInv, LateInv, At, RepliesMatch, FallbackIsComplete
  <1>12. ReadyMeansChild'
    BY <1>4, <1>7 DEF IInv, ReadyMeansChild, HasChild
  <1> QED
    BY <1>5, <1>6, <1>9, <1>10, <1>11, <1>12 DEF IInv

-----------------------------------------------------------------------------
(* Starts *)

\* What a server starts with, whatever the ledger's snapshots say.
Fresh ==
    /\ child = NoChild /\ owner = "free" /\ sup = NewSupervisor
    /\ caller = [c \in Callers |-> NewCaller]
    /\ prepared = [op \in Ops |-> NoBaseline]
    /\ cached = "none" /\ producer = "none"

\* What a server finds: snapshots, and UPDATEs of earlier servers in doubt.
Found ==
    /\ snapshot \in [Ops -> [gen : Nat, exits : Nat]]
    /\ late \subseteq [op : Ops, row : [gen : Nat, exits : Nat]]
    /\ past \in Nat /\ begun \in [DOMAIN begun -> Nat] /\ DOMAIN begun \subseteq Ops
    /\ \A op \in Ops : MayCount(op, snapshot[op].exits) /\ MayCount(op, 0)
    /\ \A u \in late : MayCount(u.op, u.row.exits)

LEMMA FreshIsSound ==
    ASSUME Fresh, Found
    PROVE  IInv
  <1>1. /\ sup \in Supervisor /\ sup.next_gen = 1 /\ sup.event = 0 /\ sup.exits = 0
        /\ ~sup.ready /\ ~sup.force_cpu
    BY DEF Fresh, NewSupervisor, Supervisor
  <1>2. /\ caller \in [Callers -> Call] /\ \A c \in Callers : caller[c] = NewCaller
    BY NewCallerFields DEF Fresh
  <1>3. /\ \A op \in Ops : prepared[op] = NoBaseline
        /\ prepared \in [Ops -> Preparation]
    BY DEF Fresh, NoBaseline, Preparation
  <1>4. ~HasChild /\ owner = "free"
    BY DEF Fresh, HasChild
  <1>5. Coordinator \in Callers /\ Searches \subseteq Callers /\ "free" \notin Callers
        /\ MaxParts \in Nat
    BY ExecutorAssumption DEF Callers
  <1>6. TypeInv
    BY <1>1, <1>2, <1>3 DEF TypeInv, Fresh, Found
  <1>7. HolderInv /\ StreamInv /\ GenInv
    BY <1>1, <1>2, <1>4, <1>5, NewCallerFields
       DEF HolderInv, StreamInv, GenInv, At, Holding, Naming
  <1>8. JobInv
    BY <1>1, <1>2, <1>5, NewCallerFields DEF JobInv, ServingInv, Serving, Seen, At, Op
  <1>9. CountInv
    BY <1>1, <1>3 DEF CountInv, BaselineInv, NoBaseline, Found
  <1>10. CallsInv /\ DeviceInv /\ RepliesMatch /\ ReadyMeansChild /\ FallbackIsComplete
    BY <1>1, <1>2, <1>5, NewCallerFields
       DEF CallsInv, DeviceInv, LateInv, RepliesMatch, ReadyMeansChild, FallbackIsComplete
  <1> QED
    BY <1>6, <1>7, <1>8, <1>9, <1>10 DEF IInv

LEMMA InitHolds == Init => IInv
  <1> SUFFICES ASSUME Init PROVE IInv
    OBVIOUS
  <1>1. Fresh /\ Found
    BY DEF Init, InitExecutor, Fresh, Found, MayCount
  <1> QED
    BY <1>1, FreshIsSound

LEMMA RestartKeeps ==
    ASSUME IInv, Restart
    PROVE  IInv'
  <1> DEFINE op == Op(Coordinator)
  <1>1. Fresh' /\ snapshot' = snapshot /\ begun' = begun /\ past' = Exited
    BY DEF Restart, Crash, Fresh
  <1>2. \/ late' = late
        \/ At(Coordinator, "snapshot") /\ late' = late \cup {Update(op)}
    BY DEF Restart, Crash
  <1>3. /\ sup.exits \in Nat /\ past \in Nat /\ Exited = past + sup.exits
        /\ \A o \in Ops : snapshot[o].exits \in Nat
        /\ \A u \in late : u.op \in Ops /\ u.row.exits \in Nat
        /\ \A o \in DOMAIN begun : begun[o] \in Nat
    BY CountTypes DEF IInv, Exited
  <1>4. Exited' = Exited
    <2>1. sup'.exits = 0
      BY <1>1 DEF Fresh, NewSupervisor
    <2> QED
      BY <1>1, <1>3, <2>1 DEF Exited
  <1>5. \A o \in Ops : (MayCount(o, snapshot[o].exits) /\ MayCount(o, 0))'
    BY <1>1, <1>3, <1>4 DEF IInv, CountInv, MayCount
  <1>6. \A u \in late : MayCount(u.op, u.row.exits)'
    BY <1>1, <1>4 DEF IInv, CountInv, MayCount
  <1>7. /\ late' \subseteq [op : Ops, row : [gen : Nat, exits : Nat]]
        /\ \A u \in late' : MayCount(u.op, u.row.exits)'
    <2>1. CASE late' = late
      BY <1>6, <2>1 DEF IInv, TypeInv
    <2>2. CASE At(Coordinator, "snapshot") /\ late' = late \cup {Update(op)}
      <3>1. op \in Ops /\ prepared[op].known
        BY <2>2 DEF IInv, JobInv, ServingInv, Serving, At
      <3>2. /\ Snapshot(op) \in [gen : Nat, exits : Nat] /\ Snapshot(op).exits = Exits(op)
            /\ Update(op).op = op /\ Update(op).row = Snapshot(op) /\ MayCount(op, Exits(op))
            /\ Update(op) \in [op : Ops, row : [gen : Nat, exits : Nat]]
        BY <3>1, SnapshotCounts DEF IInv, CountInv, Update
      <3> HIDE DEF op
      <3>3. ASSUME NEW u \in late' PROVE MayCount(u.op, u.row.exits)'
        BY <1>1, <1>4, <1>6, <2>2, <3>2, <3>3 DEF MayCount
      <3> QED
        BY <2>2, <3>2, <3>3 DEF IInv, TypeInv
    <2> QED
      BY <1>2, <2>1, <2>2
  <1>8. Found'
    BY <1>1, <1>3, <1>5, <1>7 DEF Found, IInv, TypeInv
  <1>9. ASSUME Fresh', Found' PROVE IInv'
    BY FreshIsSound, <1>9, PTL
  <1> QED
    BY <1>1, <1>8, <1>9

-----------------------------------------------------------------------------
(* The theorems *)

LEMMA StepKeeps ==
    ASSUME IInv, [Next]_vars
    PROVE  IInv'
  <1>1. ASSUME NEW c \in Callers, RequestStep(c), UNCHANGED <<cached, producer>>
        PROVE  IInv'
    BY <1>1, RequestKeeps
  <1>2. CASE ChildStep /\ UNCHANGED <<cached, producer>>
    BY <1>2, ChildStepKeeps
  <1>3. CASE CoordinatorStep /\ UNCHANGED <<cached, producer>>
    BY <1>3, ProcessKeeps, PrepareKeeps, PersistKeeps DEF CoordinatorStep
  <1>4. CASE \E c \in Searches : Search(c) \/ Waited(c) \/ Answered(c) \/ CancelSearch(c)
    BY <1>4, SearchStepKeeps, WaitedKeeps, AnsweredKeeps, CancelKeeps
  <1>5. CASE Restart
    BY <1>5, RestartKeeps
  <1>7. CASE (\E u \in late : LateSnapshot(u)) /\ UNCHANGED <<cached, producer>>
    BY <1>7, LateSnapshotKeeps
  <1>6. CASE UNCHANGED vars
    BY <1>6 DEF vars, IInv, TypeInv, CallsInv, HolderInv, StreamInv, InOrder, Aligned, GenInv,
                JobInv, ServingInv, Serving, Seen, CountInv, BaselineInv, MayCount, Exited,
                DeviceInv, LateInv,
                RepliesMatch, ReadyMeansChild, FallbackIsComplete, HasChild, At, Op
  <1> QED
    BY <1>1, <1>2, <1>3, <1>4, <1>5, <1>6, <1>7 DEF Next, ExecutorNext

\* The invariant the theorems below rest on holds in every reachable state.
THEOREM Inductive == Spec => []IInv
  <1>1. Init => IInv
    BY InitHolds
  <1>2. IInv /\ [Next]_vars => IInv'
    BY StepKeeps
  <1> QED
    BY <1>1, <1>2, PTL DEF Spec

\* Every variable keeps its type, the parts of an operation their bound.
THEOREM TypeCorrect == Spec => []TypeOK
  <1>1. IInv => TypeOK
    <2> SUFFICES ASSUME IInv PROVE TypeOK
      OBVIOUS
    <2>1. ASSUME NEW c \in Callers PROVE caller[c] \in Caller
      <3>1. caller[c] \in Call /\ caller[c].calls <= MaxParts /\ MaxParts \in Nat
        BY ExecutorAssumption DEF IInv, TypeInv, CallsInv
      <3>2. caller[c].calls \in 0..MaxParts
        BY <3>1 DEF Call
      <3> QED
        BY <3>1, <3>2 DEF Call, Caller
    <2>2. caller \in [Callers -> Caller]
      BY <2>1 DEF IInv, TypeInv
    <2> QED
      BY <2>2 DEF IInv, TypeInv, TypeOK, ExecutorTypeOK
  <1> QED
    BY <1>1, Inductive, PTL

\* Nobody takes the reply to another request for its own, however requests are
\* dropped and repeated, and children killed, replaced and renumbered.
THEOREM RepliesAreOnesOwn == Spec => []RepliesMatch
  <1>1. IInv => RepliesMatch
    BY DEF IInv
  <1> QED
    BY <1>1, Inductive, PTL

\* Whenever the mutex of the executor is free its child owes nobody an answer and
\* has written nothing that is still unread.
THEOREM StreamsAreAligned == Spec => []AlignedWhenFree
  <1>1. IInv => AlignedWhenFree
    BY DEF IInv, StreamInv, Aligned, AlignedWhenFree
  <1> QED
    BY <1>1, Inductive, PTL

\* The embedder is ready only while there is a child.
THEOREM ReadinessIsTaken == Spec => []ReadyMeansChild
  <1>1. IInv => ReadyMeansChild
    BY DEF IInv
  <1> QED
    BY <1>1, Inductive, PTL

\* After a Metal fault no search that begins gets a vector of that device, from
\* the child or from the cache.
THEOREM FallbackLeavesNothing == Spec => []FallbackIsComplete
  <1>1. IInv => FallbackIsComplete
    BY DEF IInv
  <1> QED
    BY <1>1, Inductive, PTL

\* The events of an operation have generations its receipt has not seen, in this
\* life of the server and whatever earlier ones have numbered.
THEOREM EventsAreNew == Spec => []EventsFollowReceipt
  <1>1. IInv => EventsFollowReceipt
    <2> SUFFICES ASSUME IInv, sup.event # 0 PROVE sup.event > prepared[Op(Coordinator)].gen
      BY DEF EventsFollowReceipt
    <2>1. Serving /\ Seen < sup.event /\ Op(Coordinator) \in Ops
      BY DEF IInv, JobInv, ServingInv, Serving, At
    <2>2. Seen \in Nat /\ sup.event \in Nat
      BY <2>1 DEF IInv, TypeInv, Seen, Preparation, Supervisor
    <2> QED
      BY <2>1, <2>2 DEF Seen
  <1> QED
    BY <1>1, Inductive, PTL

\* The receipt of an operation counts exits that happened since it was first
\* prepared, each at most once, also when a restart begins the count anew and when
\* a snapshot given up commits over a newer one.
THEOREM ExitsAreCountedOnce == Spec => []ExitsAreReal
  <1>1. IInv => ExitsAreReal
    BY DEF IInv, CountInv, ExitsAreReal
  <1> QED
    BY <1>1, Inductive, PTL

=============================================================================
