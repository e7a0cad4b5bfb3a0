--------------------------- MODULE DocumentProofs ---------------------------
(***************************************************************************)
(* What the tables promise to concurrent calls, for every workload: one    *)
(* step per idempotency key, the same for everybody; no node lost between  *)
(* the read of a map and the write that follows it; the counter of a       *)
(* stream exact; and every table of the types it has.                      *)
(***************************************************************************)
EXTENDS StartProofs, WellFoundedInduction

StepFields == {"key", "stream", "status", "result"}
MapFields  == {"name", "tree", "nodes", "edges", "stream"}
DocFields  == {"op", "key", "name", "node"}

Edits    == {"addNode", "addEdge", "deleteNode"}
StepPcs  == {"findStep", "createStep", "refetch"}
StepPath == {"start", "done"} \cup StepPcs
NodePath == {"start", "edit", "done"}

\* The pcs of the calls that write a step or a map.
DocPath(op, pc) ==
    /\ pc \in StepPcs => op = "addStep"
    /\ pc = "edit" => op \in Edits
    /\ pc = "dropMap" => op = "deleteMap"
    /\ op = "addStep" => pc \in StepPath
    /\ op = "addNode" => pc \in NodePath

KeyedBy(steps, key) == {s \in DOMAIN steps : steps[s].key = key}

\* A call that adds a step: its id is still to come, or there is a step of its key.
StepCall(r, steps) ==
    /\ r.pc = "start" => r.stream = None
    /\ r.pc # "done" => r.answer = None
    /\ r.pc \in {"start", "findStep", "createStep"} => r.req.key \notin DOMAIN steps
    /\ r.pc = "refetch" => KeyedBy(steps, r.req.node) # {}
    /\ r.answer = "error" => r.stream = None
    /\ r.answer = "ok" => KeyedBy(steps, r.req.node) = {r.id}

\* Node n of the map of this name was added by call c.
Holds(maps, name, c) ==
    \E m \in DOMAIN maps : maps[m].name = name /\ \E n \in maps[m].nodes : n.by = c

\* A call that adds a node to a map that nothing is removed from.
NodeCall(c, r, maps) ==
    /\ r.pc # "done" => r.answer = None
    /\ r.pc = "edit" => r.id \in DOMAIN maps /\ maps[r.id].name = r.req.name
    /\ r.answer = "ok" => Holds(maps, r.req.name, c)

OneStepPerKey == \A s, t \in DOMAIN step : step[s].key = step[t].key => s = t

RowsOfDocs ==
    /\ \A s \in DOMAIN step : StepFields \subseteq DOMAIN step[s]
    /\ \A m \in DOMAIN mindmap : MapFields \subseteq DOMAIN mindmap[m]

CallsOfDocs ==
    \A c \in DOMAIN call :
        /\ DocFields \subseteq DOMAIN Req(c)
        /\ DocPath(Op(c), call[c].pc)
        /\ Op(c) = "addStep" => StepCall(call[c], step)

KeysApart ==
    \A c, d \in DOMAIN call :
        c # d /\ Op(c) = "addStep" /\ Op(d) = "addStep" => Req(c).key # Req(d).key

NothingRemoved == \A c \in DOMAIN call : Op(c) \notin Removing

NodesOfDocs ==
    NothingRemoved =>
        \A c \in DOMAIN call : Op(c) = "addNode" => NodeCall(c, call[c], mindmap)

DInv == OneStepPerKey /\ RowsOfDocs /\ CallsOfDocs /\ KeysApart /\ NodesOfDocs

-----------------------------------------------------------------------------
(* What a step may do to these rows and to the calls *)

\* The record of c is, for this, what it was.
Stays(c, s) ==
    /\ DocFields \subseteq DOMAIN s.req
    /\ s.req.op = Op(c) /\ s.req.key = Req(c).key
    /\ s.req.name = Req(c).name /\ s.req.node = Req(c).node
    /\ s.pc = call[c].pc /\ s.id = call[c].id /\ s.stream = call[c].stream
    /\ s.answer = call[c].answer

\* It is cut off.
Stops(c, s) ==
    /\ s.req = Req(c) /\ s.pc = "done" /\ s.stream = call[c].stream
    /\ s.answer \notin {"ok", "error"}

\* It is none of a call that is followed here.
Passes(c, s) ==
    /\ Op(c) \notin {"addStep", "addNode"} /\ s.req.op \notin {"addStep", "addNode"}
    /\ DocFields \subseteq DOMAIN s.req /\ DocPath(s.req.op, s.pc)
    /\ s.req.op \in Removing <=> Op(c) \in Removing

\* It goes on as the invariant wants it.
Proceeds(c, s) ==
    /\ s.req = Req(c) /\ DocPath(Op(c), s.pc)
    /\ Op(c) = "addStep" => StepCall(s, step')
    /\ NothingRemoved /\ Op(c) = "addNode" => NodeCall(c, s, mindmap')

StepsGrow(c) ==
    /\ \A s \in DOMAIN step' : StepFields \subseteq DOMAIN step'[s]
    /\ \A s \in DOMAIN step : s \in DOMAIN step' /\ step'[s].key = step[s].key
    /\ \A t \in DOMAIN step' \ DOMAIN step :
         /\ Op(c) = "addStep" /\ t = Req(c).key
         /\ \A s \in DOMAIN step : step[s].key # step'[t].key

MapsGrow ==
    /\ \A m \in DOMAIN mindmap' : MapFields \subseteq DOMAIN mindmap'[m]
    /\ NothingRemoved =>
         \A m \in DOMAIN mindmap : /\ m \in DOMAIN mindmap' /\ mindmap'[m].name = mindmap[m].name
                                   /\ mindmap[m].nodes \subseteq mindmap'[m].nodes

DocsMove(c) ==
    /\ DOMAIN call' = DOMAIN call /\ StepsGrow(c) /\ MapsGrow
    /\ \A d \in DOMAIN call :
         \/ d = c /\ Proceeds(c, call'[c])
         \/ /\ d # c \/ DOMAIN step' = DOMAIN step
            /\ Stays(d, call'[d]) \/ Stops(d, call'[d]) \/ Passes(d, call'[d])

LEMMA KeyedKept ==
    ASSUME NEW c, NEW key, StepsGrow(c)
    PROVE  /\ KeyedBy(step, key) \subseteq KeyedBy(step', key)
           /\ KeyedBy(step, key) # {} => KeyedBy(step', key) = KeyedBy(step, key)
  BY DEF StepsGrow, KeyedBy

LEMMA StepCallKept ==
    ASSUME NEW c, StepsGrow(c), NEW r, StepCall(r, step), NEW s,
           r.req.key \in DOMAIN step' => r.req.key \in DOMAIN step,
           s.req.key = r.req.key, s.req.node = r.req.node, s.pc = r.pc, s.id = r.id,
           s.stream = r.stream, s.answer = r.answer
    PROVE  StepCall(s, step')
  <1> DEFINE node == r.req.node
  <1>1. KeyedBy(step, node) # {} => KeyedBy(step', node) = KeyedBy(step, node)
    <2> HIDE DEF node
    <2> QED BY KeyedKept
  <1>2. r.id \in {r.id}
    OBVIOUS
  <1> QED BY <1>1, <1>2 DEF StepCall

LEMMA NodeCallKept ==
    ASSUME NothingRemoved, MapsGrow, NEW c, NEW r, NodeCall(c, r, mindmap), NEW s,
           s.req.name = r.req.name, s.pc = r.pc, s.id = r.id, s.answer = r.answer
    PROVE  NodeCall(c, s, mindmap')
  BY DEF NodeCall, MapsGrow, Holds

LEMMA CallsKeepOps ==
    ASSUME NEW c, DocsMove(c)
    PROVE  \A d \in DOMAIN call :
             /\ call'[d].req.op = "addStep" =>
                    Op(d) = "addStep" /\ call'[d].req.key = Req(d).key
             /\ call'[d].req.op = "addNode" => Op(d) = "addNode"
             /\ call'[d].req.op \in Removing <=> Op(d) \in Removing
  <1> TAKE d \in DOMAIN call
  <1>1. CASE d = c /\ Proceeds(c, call'[c])
    BY <1>1 DEF Proceeds, Op, Req
  <1>2. CASE Stays(d, call'[d])
    BY <1>2 DEF Stays
  <1>3. CASE Stops(d, call'[d])
    BY <1>3 DEF Stops, Op, Req
  <1>4. CASE Passes(d, call'[d])
    BY <1>4 DEF Passes
  <1> QED BY <1>1, <1>2, <1>3, <1>4 DEF DocsMove

LEMMA DocsFollow ==
    ASSUME DInv, NEW c \in DOMAIN call, DocsMove(c)
    PROVE  DInv'
  <1>1. DOMAIN call' = DOMAIN call /\ StepsGrow(c) /\ MapsGrow
    BY DEF DocsMove
  <1>2. OneStepPerKey'
    BY <1>1 DEF DInv, OneStepPerKey, StepsGrow
  <1>3. RowsOfDocs'
    BY <1>1 DEF RowsOfDocs, StepsGrow, MapsGrow
  <1>4. KeysApart'
    BY <1>1, CallsKeepOps DEF DInv, KeysApart, Op, Req
  <1>5. NothingRemoved' => NothingRemoved
    BY <1>1, CallsKeepOps DEF NothingRemoved, Op, Req
  <1>6. ASSUME NEW d \in DOMAIN call
        PROVE  /\ DocFields \subseteq DOMAIN call'[d].req
               /\ DocPath(call'[d].req.op, call'[d].pc)
               /\ call'[d].req.op = "addStep" => StepCall(call'[d], step')
               /\ NothingRemoved /\ call'[d].req.op = "addNode" => NodeCall(d, call'[d], mindmap')
    <2>1. DocFields \subseteq DOMAIN Req(d) /\ DocPath(Op(d), call[d].pc)
          /\ (Op(d) = "addStep" => StepCall(call[d], step))
          /\ (NothingRemoved /\ Op(d) = "addNode" => NodeCall(d, call[d], mindmap))
      BY DEF DInv, CallsOfDocs, NodesOfDocs
    <2>2. CASE d = c /\ Proceeds(c, call'[c])
      BY <2>1, <2>2 DEF Proceeds, Op, Req
    <2>3. CASE Stays(d, call'[d]) /\ (d # c \/ DOMAIN step' = DOMAIN step)
      <3>1. Op(d) = "addStep" /\ Req(d).key \in DOMAIN step' => Req(d).key \in DOMAIN step
        BY <1>1, <2>3 DEF DInv, KeysApart, StepsGrow
      <3>2. Op(d) = "addStep" => StepCall(call'[d], step')
        BY <1>1, <2>1, <2>3, <3>1, StepCallKept DEF Stays, Req
      <3>3. NothingRemoved /\ Op(d) = "addNode" => NodeCall(d, call'[d], mindmap')
        BY <1>1, <2>1, <2>3, NodeCallKept DEF Stays, Req
      <3> QED BY <2>1, <2>3, <3>2, <3>3 DEF Stays
    <2>4. CASE Stops(d, call'[d])
      BY <2>1, <2>4 DEF Stops, DocPath, StepCall, NodeCall, StepPcs, StepPath, NodePath, Op, Req
    <2>5. CASE Passes(d, call'[d])
      BY <2>5 DEF Passes
    <2> QED BY <2>2, <2>3, <2>4, <2>5 DEF DocsMove
  <1>7. CallsOfDocs'
    BY <1>1, <1>6 DEF CallsOfDocs, Op, Req
  <1>8. NodesOfDocs'
    BY <1>1, <1>5, <1>6 DEF NodesOfDocs, Op
  <1> QED BY <1>2, <1>3, <1>4, <1>7, <1>8 DEF DInv

\* The rows are as they were.
DocsSame == step' = step /\ mindmap' = mindmap

LEMMA SameGrows ==
    ASSUME DInv, DocsSame, NEW c
    PROVE  StepsGrow(c) /\ MapsGrow
  BY DEF DInv, RowsOfDocs, DocsSame, StepsGrow, MapsGrow

LEMMA DocsQuiet ==
    ASSUME DInv, DocsSame, DOMAIN call' = DOMAIN call,
           \A d \in DOMAIN call : Stays(d, call'[d]) \/ Stops(d, call'[d]) \/ Passes(d, call'[d])
    PROVE  DInv'
  <1>1. CASE DOMAIN call = {}
    BY <1>1 DEF DInv, OneStepPerKey, RowsOfDocs, CallsOfDocs, KeysApart, NodesOfDocs, DocsSame
  <1>2. CASE DOMAIN call # {}
    <2>1. PICK c \in DOMAIN call : TRUE
      BY <1>2
    <2>2. DocsMove(c)
      BY SameGrows DEF DocsMove, DocsSame
    <2> QED BY <2>2, DocsFollow
  <1> QED BY <1>1, <1>2

LEMMA SameStays ==
    ASSUME DInv, NEW c \in DOMAIN call
    PROVE  Stays(c, call[c])
  BY DEF DInv, CallsOfDocs, Stays, Op, Req

LEMMA EndStops ==
    ASSUME IInv, NEW c \in DOMAIN call, NEW a, a \notin {"ok", "error"}
    PROVE  Stops(c, End(c, a))
  BY DEF IInv, CallsInv, CallOK, CallFields, End, Stops, Req

LEMMA EndPasses ==
    ASSUME IInv, DInv, NEW c \in DOMAIN call, NEW a, Op(c) \notin {"addStep", "addNode"}
    PROVE  Passes(c, End(c, a))
  BY EndKeeps DEF DInv, CallsOfDocs, Passes, DocPath, StepPcs, Op, Req

LEMMA GotoPasses ==
    ASSUME IInv, DInv, NEW c \in DOMAIN call, NEW p, Op(c) \notin {"addStep", "addNode"},
           DocPath(Op(c), p)
    PROVE  Passes(c, Goto(c, p))
  BY GoesTo DEF DInv, CallsOfDocs, Passes, Op, Req

\* One call moves, on rows that stay the same.
LEMMA OneQuiet ==
    ASSUME DInv, DocsSame, NEW c, NEW s, Set(c, s),
           c \in DOMAIN call => Stays(c, s) \/ Stops(c, s) \/ Passes(c, s)
    PROVE  DInv'
  <1>1. DOMAIN call' = DOMAIN call
    BY DEF Set
  <1>2. \A d \in DOMAIN call : call'[d] = call[d] \/ (d = c /\ call'[d] = s)
    BY DEF Set
  <1>3. \A d \in DOMAIN call : Stays(d, call'[d]) \/ Stops(d, call'[d]) \/ Passes(d, call'[d])
    BY <1>2, SameStays
  <1> QED BY <1>1, <1>3, DocsQuiet

LEMMA OnlyQuiet ==
    ASSUME NEW c, NEW s, OnlyCall(c, s)
    PROVE  Set(c, s) /\ DocsSame
  BY DEF OnlyCall, StorageUnchangedBut, docVars, Set, DocsSame

LEMMA NoneQuiet ==
    ASSUME DInv, call' = call, DocsSame
    PROVE  DInv'
  BY SameStays, DocsQuiet

-----------------------------------------------------------------------------
(* The server around the calls *)

LEMMA StartDocs ==
    ASSUME IInv, DInv, NEW h \in DOMAIN start, StartStep(h)
    PROVE  DInv'
  <1>1. CASE Statement(h) \/ Inspect(h) \/ Normalise(h) \/ RecordVersion(h) \/ Validate(h)
    <2>1. StorageUnchangedBut(call)
      BY <1>1 DEF Statement, Inspect, Normalise, RecordVersion, Validate
    <2> QED BY <2>1, NoneQuiet DEF StorageUnchangedBut, docVars, DocsSame
  <1>2. CASE Succeeds(h) \/ Fails(h)
    <2>1. \/ StorageUnchangedBut(call)
          \/ OnlyCall(h, call[h])
          \/ OnlyCall(h, End(h, "unavailable"))
          \/ IsRepair(h) /\ \E a : OnlyCall(h, End(h, a))
      BY <1>2 DEF Succeeds, Fails, EndOfMain, EndOfRepair, EndOfRequest
    <2>2. CASE StorageUnchangedBut(call)
      BY <2>2, NoneQuiet DEF StorageUnchangedBut, docVars, DocsSame
    <2>3. CASE OnlyCall(h, call[h])
      <3> DEFINE rec == call[h]
      <3>1. OnlyCall(h, rec) /\ (h \in DOMAIN call => Stays(h, rec))
        BY <2>3, SameStays
      <3> HIDE DEF rec
      <3> QED BY <3>1, OnlyQuiet, OneQuiet
    <2>4. CASE OnlyCall(h, End(h, "unavailable"))
      BY <2>4, EndStops, OnlyQuiet, OneQuiet
    <2>5. CASE IsRepair(h) /\ \E a : OnlyCall(h, End(h, a))
      <3>1. PICK a : OnlyCall(h, End(h, a))
        BY <2>5
      <3>2. h \in DOMAIN call /\ Op(h) \notin {"addStep", "addNode"}
        BY <2>5 DEF IsRepair
      <3> QED BY <3>1, <3>2, EndPasses, OnlyQuiet, OneQuiet
    <2> QED BY <2>1, <2>2, <2>3, <2>4, <2>5
  <1> QED BY <1>1, <1>2 DEF StartStep

LEMMA CrashDocs ==
    ASSUME IInv, DInv, NEW p \in Processes, Crash(p)
    PROVE  DInv'
  <1>1. PICK lost : call' = [c \in DOMAIN call |-> IF c \in lost THEN End(c, "dropped") ELSE call[c]]
    BY DEF Crash, StorageUnchangedBut
  <1>2. DocsSame
    BY DEF Crash, StorageUnchangedBut, docVars, DocsSame
  <1>3. \A c \in DOMAIN call : Stays(c, call'[c]) \/ Stops(c, call'[c])
    <2> TAKE c \in DOMAIN call
    <2>1. call'[c] = call[c] \/ call'[c] = End(c, "dropped")
      BY <1>1
    <2>2. Stays(c, call[c]) /\ Stops(c, End(c, "dropped"))
      BY SameStays, EndStops
    <2> QED BY <2>1, <2>2
  <1>4. DOMAIN call' = DOMAIN call
    BY <1>1
  <1> QED BY <1>2, <1>3, <1>4, DocsQuiet

LEMMA HandleDocs ==
    ASSUME IInv, DInv, NEW c \in DOMAIN call, Handle(c)
    PROVE  DInv'
  <1> DEFINE op == OpFor(c)
             owner == OwnerFor(c)
             s == [call[c] EXCEPT !.req.op = op, !.req.owner = owner]
  <1>1. \/ OnlyCall(c, s)
        \/ /\ OnlyCall(c, End(c, "error"))
           /\ OutOfScope(c) \/ op = "delete"
    BY DEF Handle
  <1>2. /\ CallFields \subseteq DOMAIN call[c] /\ ReqFields \subseteq DOMAIN call[c].req
        /\ DocFields \subseteq DOMAIN call[c].req /\ DocPath(Op(c), call[c].pc)
        /\ Op(c) = call[c].req.op
    BY DEF IInv, DInv, CallsInv, CallOK, CallsOfDocs, Op, Req
  <1>3. \/ op = Op(c)
        \/ Op(c) = "update" /\ op = "updateOwned"
        \/ Op(c) = "delete" /\ op = "deleteOwned"
    BY DEF OpFor
  <1>4. OutOfScope(c) \/ op = "delete" => Op(c) \notin {"addStep", "addNode"}
    BY <1>3 DEF OutOfScope
  <1> HIDE DEF op, owner
  <1>5. /\ DocFields \subseteq DOMAIN s.req /\ s.req.op = op /\ s.req.key = call[c].req.key
        /\ s.req.name = call[c].req.name /\ s.req.node = call[c].req.node
        /\ s.pc = call[c].pc /\ s.id = call[c].id /\ s.stream = call[c].stream
        /\ s.answer = call[c].answer
    BY <1>2 DEF CallFields, ReqFields, DocFields
  <1> HIDE DEF s
  <1>6. CASE OnlyCall(c, s)
    <2>1. CASE op = Op(c)
      <3>1. Stays(c, s)
        BY <1>5, <2>1 DEF Stays, Req
      <3> QED BY <1>6, <3>1, OnlyQuiet, OneQuiet
    <2>2. CASE op # Op(c)
      <3>1. Passes(c, s)
        BY <1>2, <1>3, <1>5, <2>2 DEF Passes, DocPath, Removing, Edits
      <3> QED BY <1>6, <3>1, OnlyQuiet, OneQuiet
    <2> QED BY <2>1, <2>2
  <1>7. CASE OnlyCall(c, End(c, "error")) /\ (OutOfScope(c) \/ op = "delete")
    BY <1>4, <1>7, EndPasses, OnlyQuiet, OneQuiet
  <1> QED BY <1>1, <1>6, <1>7

LEMMA RefusedDocs ==
    ASSUME IInv, DInv, NEW c \in DOMAIN call, IndexRefuses(c)
    PROVE  DInv'
  <1>1. call[c].pc \in {"insert", "create", "update", "publish"}
    BY DEF IndexRefuses, WritesVector
  <1>2. Op(c) \notin {"addStep", "addNode"} /\ DocPath(Op(c), "recheck") /\ DocPath(Op(c), "thrown")
    BY <1>1 DEF DInv, CallsOfDocs, DocPath, StepPath, StepPcs, NodePath
  <1>3. \E s : OnlyCall(c, s) /\ Passes(c, s)
    <2>1. \/ OnlyCall(c, Goto(c, "recheck"))
          \/ OnlyCall(c, Goto(c, "thrown"))
          \/ OnlyCall(c, End(c, "error"))
      BY DEF IndexRefuses
    <2> QED BY <1>2, <2>1, GotoPasses, EndPasses
  <1> QED BY <1>3, OnlyQuiet, OneQuiet

-----------------------------------------------------------------------------
(* Calls in the storage that are not about steps or maps *)

\* The request stays, and the call goes to no pc of a step or a map.
Aside(c, s) == s.req = Req(c) /\ s.pc \notin StepPcs \cup {"edit", "dropMap"}

LEMMA AsidePasses ==
    ASSUME DInv, NEW c \in DOMAIN call, NEW s, Aside(c, s), Op(c) \notin {"addStep", "addNode"}
    PROVE  Passes(c, s)
  BY DEF DInv, CallsOfDocs, Aside, Passes, DocPath, Op, Req

LEMMA NotFollowed ==
    ASSUME DInv, NEW c \in DOMAIN call, MemoryStep(c) \/ StreamStep(c)
    PROVE  Op(c) \notin {"addStep", "addNode"}
  <1>1. CASE Op(c) \in {"addStep", "addNode"}
    <2>1. call[c].pc \in StepPath \cup NodePath
      BY <1>1 DEF DInv, CallsOfDocs, DocPath
    <2>2. ~MemoryStep(c)
      BY <1>1, <2>1 DEF StepPath, StepPcs, NodePath, Starts, At, Op, MemoryStep,
           StartAdd, SearchDuplicates, InsertMemory, Readback, StartGet, GetMemory, WriteUpdate,
           GetUpdated, DeleteOwned, StartDelete, StartDeleteAll, SeeMemory, WriteDelete,
           AllDeleted, StartSweep, SweepOne, CountSwept, SweepFails, SweepEnds, StartIndexed,
           CreateIndexed, GetIndexed
    <2>3. ~StreamStep(c)
      BY <1>1, <2>1 DEF StepPath, StepPcs, NodePath, Starts, At, Op, StreamStep,
           CreateStream, SetStatus, StartAddTo, SeeCounter, StartDeleteStream, ListMembers,
           DropStream, StartCompress, StartSummarize, LoadStream, SelectSources, Generate,
           CheckPublished, Publish, Confirm
    <2> QED BY <2>2, <2>3
  <1> QED BY <1>1

LEMMA RecordFields ==
    ASSUME IInv, NEW c \in DOMAIN call
    PROVE  CallFields \subseteq DOMAIN call[c]
  BY DEF IInv, CallsInv, CallOK

LEMMA MemoryAside ==
    ASSUME IInv, NEW c \in DOMAIN call, MemoryStep(c)
    PROVE  Aside(c, call'[c])
  <1>0. CallFields \subseteq DOMAIN call[c]
    BY RecordFields
  <1>1. CASE StartAdd(c) \/ SearchDuplicates(c) \/ InsertMemory(c) \/ Readback(c)
    <2>1. CASE StartAdd(c)
      BY <1>0, <2>1 DEF StartAdd, CallFields, Set, Goto, End, Aside, StepPcs, Req
    <2>2. CASE SearchDuplicates(c)
      BY <1>0, <2>2 DEF SearchDuplicates, CallFields, Set, Goto, End, Aside, StepPcs, Req
    <2>3. CASE InsertMemory(c)
      BY <1>0, <2>3 DEF InsertMemory, Stored, CallFields, Set, Goto, End, Aside, StepPcs, Req
    <2>4. CASE Readback(c)
      BY <1>0, <2>4 DEF Readback, Stored, CallFields, Set, Goto, End, Aside, StepPcs, Req
    <2> QED BY <1>1, <2>1, <2>2, <2>3, <2>4
  <1>2. CASE StartGet(c) \/ GetMemory(c) \/ WriteUpdate(c) \/ GetUpdated(c) \/ DeleteOwned(c)
    <2>1. CASE StartGet(c)
      BY <1>0, <2>1 DEF StartGet, Stored, CallFields, Set, Goto, End, Aside, StepPcs, Req
    <2>2. CASE GetMemory(c)
      BY <1>0, <2>2 DEF GetMemory, Stored, CallFields, Set, Goto, End, Aside, StepPcs, Req
    <2>3. CASE WriteUpdate(c)
      BY <1>0, <2>3 DEF WriteUpdate, Stored, CallFields, Set, Goto, End, Aside, StepPcs, Req
    <2>4. CASE GetUpdated(c)
      BY <1>0, <2>4 DEF GetUpdated, Stored, CallFields, Set, Goto, End, Aside, StepPcs, Req
    <2>5. CASE DeleteOwned(c)
      BY <1>0, <2>5 DEF DeleteOwned, Stored, CallFields, Set, Goto, End, Aside, StepPcs, Req
    <2> QED BY <1>2, <2>1, <2>2, <2>3, <2>4, <2>5
  <1>3. CASE StartDelete(c) \/ StartDeleteAll(c) \/ SeeMemory(c) \/ WriteDelete(c) \/ AllDeleted(c)
    <2>1. CASE StartDelete(c)
      BY <1>0, <2>1 DEF StartDelete, CallFields, Set, Goto, End, Aside, StepPcs, Req
    <2>2. CASE StartDeleteAll(c)
      BY <1>0, <2>2 DEF StartDeleteAll, CallFields, Set, Goto, End, Aside, StepPcs, Req
    <2>3. CASE SeeMemory(c)
      BY <1>0, <2>3 DEF SeeMemory, CallFields, Set, Goto, End, Aside, StepPcs, Req
    <2>4. CASE WriteDelete(c)
      BY <1>0, <2>4 DEF WriteDelete, CallFields, Set, Goto, End, Aside, StepPcs, Req
    <2>5. CASE AllDeleted(c)
      BY <1>0, <2>5 DEF AllDeleted, CallFields, Set, Goto, End, Aside, StepPcs, Req
    <2> QED BY <1>3, <2>1, <2>2, <2>3, <2>4, <2>5
  <1>4. CASE StartSweep(c) \/ SweepOne(c) \/ CountSwept(c) \/ SweepEnds(c)
    <2>1. CASE StartSweep(c)
      BY <1>0, <2>1 DEF StartSweep, CallFields, Set, Goto, Aside, StepPcs, Req
    <2>2. CASE SweepOne(c)
      BY <1>0, <2>2 DEF SweepOne, CallFields, Set, Goto, End, Aside, StepPcs, Req
    <2>3. CASE CountSwept(c)
      BY <1>0, <2>3 DEF CountSwept, CallFields, Set, Goto, Aside, StepPcs, Req
    <2>4. CASE SweepEnds(c)
      BY <1>0, <2>4 DEF SweepEnds, CallFields, Set, Goto, End, Aside, StepPcs, Req
    <2> QED BY <1>4, <2>1, <2>2, <2>3, <2>4
  <1>5. CASE SweepFails(c)
    BY <1>0, <1>5 DEF SweepFails, At, CallFields, Set, Aside, StepPcs, Req
  <1>6. CASE StartIndexed(c) \/ CreateIndexed(c) \/ GetIndexed(c)
    <2>1. CASE StartIndexed(c)
      BY <1>0, <2>1 DEF StartIndexed, CallFields, Set, Goto, End, Aside, StepPcs, Req
    <2>2. CASE CreateIndexed(c)
      BY <1>0, <2>2 DEF CreateIndexed, CallFields, Set, Goto, End, Aside, StepPcs, Req
    <2>3. CASE GetIndexed(c)
      BY <1>0, <2>3 DEF GetIndexed, CallFields, Set, Goto, End, Aside, StepPcs, Req
    <2> QED BY <1>6, <2>1, <2>2, <2>3
  <1> QED BY <1>1, <1>2, <1>3, <1>4, <1>5, <1>6 DEF MemoryStep

LEMMA StreamAside ==
    ASSUME IInv, NEW c \in DOMAIN call, StreamStep(c)
    PROVE  Aside(c, call'[c])
  <1>0. CallFields \subseteq DOMAIN call[c]
    BY RecordFields
  <1>1. CASE CreateStream(c) \/ SetStatus(c) \/ StartAddTo(c) \/ SeeCounter(c)
    <2>1. CASE CreateStream(c)
      BY <1>0, <2>1 DEF CreateStream, CallFields, Set, Goto, End, Aside, StepPcs, Req
    <2>2. CASE SetStatus(c)
      BY <1>0, <2>2 DEF SetStatus, CallFields, Set, Goto, End, Aside, StepPcs, Req
    <2>3. CASE StartAddTo(c)
      BY <1>0, <2>3 DEF StartAddTo, CallFields, Set, Goto, End, Aside, StepPcs, Req
    <2>4. CASE SeeCounter(c)
      BY <1>0, <2>4 DEF SeeCounter, Summarizing, CallFields, Set, Goto, End, Aside, StepPcs, Req
    <2> QED BY <1>1, <2>1, <2>2, <2>3, <2>4
  <1>2. CASE StartDeleteStream(c) \/ ListMembers(c) \/ DropStream(c)
               \/ StartCompress(c) \/ StartSummarize(c)
    <2>1. CASE StartDeleteStream(c)
      BY <1>0, <2>1 DEF StartDeleteStream, CallFields, Set, Goto, End, Aside, StepPcs, Req
    <2>2. CASE ListMembers(c)
      BY <1>0, <2>2 DEF ListMembers, CallFields, Set, Goto, End, Aside, StepPcs, Req
    <2>3. CASE DropStream(c)
      BY <1>0, <2>3 DEF DropStream, CallFields, Set, Goto, End, Aside, StepPcs, Req
    <2>4. CASE StartCompress(c)
      BY <1>0, <2>4 DEF StartCompress, CallFields, Set, Goto, Aside, StepPcs, Req
    <2>5. CASE StartSummarize(c)
      BY <1>0, <2>5 DEF StartSummarize, Summarizing, CallFields, Set, Goto, End, Aside, StepPcs, Req
    <2> QED BY <1>2, <2>1, <2>2, <2>3, <2>4, <2>5
  <1>3. CASE LoadStream(c) \/ SelectSources(c) \/ Generate(c)
    <2>1. CASE LoadStream(c)
      BY <1>0, <2>1 DEF LoadStream, Derived, CallFields, Set, Goto, End, Aside, StepPcs, Req
    <2>2. CASE SelectSources(c)
      BY <1>0, <2>2 DEF SelectSources, Derived, CallFields, Set, Goto, End, Aside, StepPcs, Req
    <2>3. CASE Generate(c)
      BY <1>0, <2>3 DEF Generate, Derived, CallFields, Set, Goto, End, Aside, StepPcs, Req
    <2> QED BY <1>3, <2>1, <2>2, <2>3
  <1>4. CASE CheckPublished(c) \/ Publish(c) \/ Confirm(c)
    <2>1. CASE CheckPublished(c)
      BY <1>0, <2>1 DEF CheckPublished, Derived, CallFields, Set, Goto, End, Aside, StepPcs, Req
    <2>2. CASE Publish(c)
      <3>1. Set(c, Goto(c, "thrown")) \/ Set(c, Goto(c, "confirm"))
        BY <2>2 DEF Publish
      <3> QED BY <1>0, <3>1 DEF CallFields, Set, Goto, Aside, StepPcs, Req
    <2>3. CASE Confirm(c)
      <3>1. \E a : Set(c, End(c, a))
        BY <2>3 DEF Confirm, Derived
      <3> QED BY <1>0, <3>1 DEF CallFields, Set, End, Aside, StepPcs, Req
    <2> QED BY <1>4, <2>1, <2>2, <2>3
  <1> QED BY <1>1, <1>2, <1>3, <1>4 DEF StreamStep

-----------------------------------------------------------------------------
(* Maps *)

\* One call moves, with the rows.
LEMMA OneMoves ==
    ASSUME DInv, NEW c \in DOMAIN call, NEW s, Set(c, s), StepsGrow(c), MapsGrow,
           \/ Proceeds(c, s)
           \/ DOMAIN step' = DOMAIN step /\ Passes(c, s)
    PROVE  DInv'
  <1>1. DOMAIN call' = DOMAIN call /\ call'[c] = s
        /\ \A d \in DOMAIN call \ {c} : call'[d] = call[d]
    BY SetsOne
  <1>2. \A d \in DOMAIN call \ {c} : Stays(d, call'[d])
    BY <1>1, SameStays
  <1>3. DocsMove(c)
    BY <1>1, <1>2 DEF DocsMove
  <1> QED BY <1>3, DocsFollow

LEMMA StepsSame ==
    ASSUME DInv, step' = step, NEW c
    PROVE  StepsGrow(c)
  BY DEF DInv, RowsOfDocs, StepsGrow

LEMMA MapsSame ==
    ASSUME DInv, mindmap' = mindmap
    PROVE  MapsGrow
  BY DEF DInv, RowsOfDocs, MapsGrow

LEMMA CreateMapDocs ==
    ASSUME IInv, DInv, NEW c \in DOMAIN call, CreateMap(c)
    PROVE  DInv'
  <1> DEFINE key == Req(c).key
             new == NewMap(Req(c).name, Req(c).tree)
  <1>1. Op(c) = "createMap" /\ step' = step /\ \E a : Set(c, End(c, a))
    BY DEF CreateMap, Starts
  <1>2. mindmap' = mindmap \/ mindmap' = With(mindmap, key, new)
    BY DEF CreateMap
  <1>3. MapFields \subseteq DOMAIN new
    BY DEF NewMap, MapFields
  <1>4. MapsGrow
    <2> HIDE DEF key, new
    <2> QED BY <1>2, <1>3 DEF MapsGrow, With, DInv, RowsOfDocs
  <1> QED BY <1>1, <1>4, StepsSame, EndPasses, OneMoves

LEMMA ReadMapDocs ==
    ASSUME IInv, DInv, NEW c \in DOMAIN call, ReadMap(c)
    PROVE  DInv'
  <1> DEFINE name == Req(c).name
             id == MapId(name)
             g == Goto(c, "edit")
             s == [g EXCEPT !.id = id]
  <1>1. /\ Op(c) \in Edits /\ DocsSame
        /\ Set(c, End(c, "error")) \/ (Set(c, s) /\ MapNamed(name) # {})
    BY DEF ReadMap, Starts, Edits, DocsRead, DocsSame
  <1>2. MapNamed(name) # {} => id \in DOMAIN mindmap /\ mindmap[id].name = name
    BY DEF MapId, MapNamed
  <1>3. g.req = call[c].req /\ g.pc = "edit" /\ CallFields \subseteq DOMAIN g
    BY GoesTo
  <1>4. StepsGrow(c) /\ MapsGrow
    BY <1>1, SameGrows
  <1>5. CASE Set(c, End(c, "error"))
    <2>1. /\ End(c, "error").req = call[c].req /\ End(c, "error").pc = "done"
          /\ End(c, "error").answer = "error"
      BY RecordFields DEF End, CallFields
    <2>2. Proceeds(c, End(c, "error"))
      BY <1>1, <2>1 DEF Proceeds, DocPath, StepPcs, NodePath, NodeCall, Edits, Req
    <2> QED BY <1>4, <1>5, <2>2, OneMoves
  <1>6. CASE Set(c, s) /\ MapNamed(name) # {}
    <2>0. call[c].pc = "start" /\ Op(c) = call[c].req.op
      BY DEF ReadMap, Starts, At, Op
    <2>1. g.answer = call[c].answer
      BY RecordFields DEF Goto, CallFields
    <2> HIDE DEF g, id
    <2>2. s.req = call[c].req /\ s.pc = "edit" /\ s.id = id /\ s.answer = call[c].answer
      BY <1>3, <2>1 DEF CallFields
    <2> HIDE DEF s
    <2>3. NothingRemoved /\ Op(c) = "addNode" => call[c].answer = None
      BY <2>0 DEF DInv, NodesOfDocs, NodeCall
    <2>4. Proceeds(c, s)
      BY <1>1, <1>2, <1>6, <2>2, <2>3 DEF Proceeds, DocPath, StepPcs, NodePath, NodeCall, Edits, Req,
           DocsSame, None
    <2> QED BY <1>4, <1>6, <2>4, OneMoves
  <1> QED BY <1>1, <1>5, <1>6

LEMMA EditMapDocs ==
    ASSUME IInv, DInv, NEW c \in DOMAIN call, EditMap(c)
    PROVE  DInv'
  <1> DEFINE m == call[c].id
             nodes == Rewritten(c).nodes
             edges == Rewritten(c).edges
  <1>1. call[c].pc = "edit" /\ Op(c) \in Edits /\ step' = step
    BY DEF EditMap, At, DInv, CallsOfDocs, DocPath
  <1>2. /\ End(c, "error").req = call[c].req /\ End(c, "error").pc = "done"
        /\ End(c, "error").answer = "error"
        /\ End(c, "ok").req = call[c].req /\ End(c, "ok").pc = "done"
    BY RecordFields DEF End, CallFields
  <1>3. CASE m \notin DOMAIN mindmap
    <2>1. Set(c, End(c, "error")) /\ mindmap' = mindmap
      BY <1>3 DEF EditMap
    <2>2. Proceeds(c, End(c, "error"))
      BY <1>1, <1>2 DEF Proceeds, DocPath, StepPcs, NodePath, NodeCall, Edits, Req
    <2> QED BY <1>1, <2>1, <2>2, StepsSame, MapsSame, OneMoves
  <1>4. CASE m \in DOMAIN mindmap
    <2>1. /\ Set(c, End(c, "ok"))
          /\ mindmap' = [mindmap EXCEPT ![m].nodes = nodes, ![m].edges = edges]
      BY <1>4 DEF EditMap
    <2>2. MapFields \subseteq DOMAIN mindmap[m]
      BY <1>4 DEF DInv, RowsOfDocs
    <2>3. NothingRemoved =>
            /\ mindmap[m].nodes \subseteq nodes
            /\ Op(c) = "addNode" => \E n \in nodes : n.by = c
      <3> SUFFICES ASSUME NothingRemoved
                   PROVE  /\ mindmap[m].nodes \subseteq nodes
                          /\ Op(c) = "addNode" => \E n \in nodes : n.by = c
        OBVIOUS
      <3>1. Op(c) \in {"addNode", "addEdge"} /\ Rewritten(c) = Edited(mindmap[m], c)
        BY <1>1 DEF NothingRemoved, Removing, Edits, Rewritten
      <3>2. CASE Op(c) = "addNode"
        <4>1. nodes = mindmap[m].nodes \cup {Node(Req(c).node, Req(c).parent, c)}
          BY <2>2, <3>1, <3>2 DEF Edited, WithNode, MapFields
        <4>2. Node(Req(c).node, Req(c).parent, c).by = c
          BY DEF Node
        <4> QED BY <4>1, <4>2
      <3>3. CASE Op(c) = "addEdge"
        BY <2>2, <3>1, <3>3 DEF Edited, WithEdge, MapFields
      <3> QED BY <3>1, <3>2, <3>3
    <2> HIDE DEF m, nodes, edges
    <2>4. /\ DOMAIN mindmap' = DOMAIN mindmap
          /\ \A k \in DOMAIN mindmap \ {m} : mindmap'[k] = mindmap[k]
          /\ MapFields \subseteq DOMAIN mindmap'[m]
          /\ mindmap'[m].name = mindmap[m].name /\ mindmap'[m].nodes = nodes
      BY <1>4, <2>1, <2>2 DEF MapFields
    <2>5. MapsGrow
      BY <1>4, <2>3, <2>4 DEF MapsGrow, DInv, RowsOfDocs
    <2>6. NothingRemoved /\ Op(c) = "addNode" => Holds(mindmap', Req(c).name, c)
      <3>1. NothingRemoved /\ Op(c) = "addNode" => mindmap[m].name = Req(c).name
        BY <1>1 DEF DInv, NodesOfDocs, NodeCall, m, Req
      <3> QED BY <1>4, <2>3, <2>4, <3>1 DEF Holds
    <2>7. Proceeds(c, End(c, "ok"))
      BY <1>1, <1>2, <2>6 DEF Proceeds, DocPath, StepPcs, NodePath, NodeCall, Edits, Req
    <2> QED BY <1>1, <2>1, <2>5, <2>7, StepsSame, OneMoves
  <1> QED BY <1>3, <1>4

LEMMA DropMapDocs ==
    ASSUME IInv, DInv, NEW c \in DOMAIN call, FindMap(c) \/ DropMap(c) \/ UnlinkMaps(c)
    PROVE  DInv'
  <1>1. CASE FindMap(c)
    <2> DEFINE id == MapId(Req(c).name)
               g == Goto(c, "dropMap")
    <2>1. /\ Op(c) = "deleteMap" /\ DocsSame
          /\ Set(c, End(c, "ok")) \/ Set(c, [g EXCEPT !.id = id])
      BY <1>1 DEF FindMap, Starts, DocsRead, DocsSame
    <2>2. g.req = call[c].req /\ g.pc = "dropMap" /\ CallFields \subseteq DOMAIN g
      BY GoesTo
    <2> HIDE DEF g, id
    <2>3. Passes(c, [g EXCEPT !.id = id])
      BY <2>1, <2>2 DEF Passes, DInv, CallsOfDocs, DocPath, StepPcs, CallFields, Op, Req
    <2>4. Passes(c, End(c, "ok"))
      BY <2>1, EndPasses
    <2>5. \E s : Set(c, s) /\ Passes(c, s)
      BY <2>1, <2>3, <2>4
    <2> QED BY <2>1, <2>5, OneQuiet
  <1>2. CASE DropMap(c)
    <2>1. Op(c) = "deleteMap"
      BY <1>2 DEF DropMap, At, DInv, CallsOfDocs, DocPath
    <2>2. /\ Set(c, End(c, "ok")) /\ step' = step
          /\ mindmap' = Restrict(mindmap, DOMAIN mindmap \ {call[c].id})
      BY <1>2 DEF DropMap
    <2>3. ~NothingRemoved
      BY <2>1 DEF NothingRemoved, Removing
    <2>4. MapsGrow
      BY <2>2, <2>3 DEF MapsGrow, Restrict, DInv, RowsOfDocs
    <2> QED BY <2>1, <2>2, <2>4, StepsSame, EndPasses, OneMoves
  <1>3. CASE UnlinkMaps(c)
    <2>1. call[c].pc = "unlink" /\ step' = step /\ Set(c, Goto(c, "drop"))
      BY <1>3 DEF UnlinkMaps, At
    <2>2. mindmap' = [m \in DOMAIN mindmap |->
                        IF mindmap[m].stream = call[c].stream
                        THEN [mindmap[m] EXCEPT !.stream = None] ELSE mindmap[m]]
      BY <1>3 DEF UnlinkMaps
    <2>3. Op(c) \notin {"addStep", "addNode"} /\ DocPath(Op(c), "drop")
      BY <2>1 DEF DInv, CallsOfDocs, DocPath, StepPath, StepPcs, NodePath
    <2>4. MapsGrow
      BY <2>2 DEF MapsGrow, DInv, RowsOfDocs, MapFields
    <2> QED BY <2>1, <2>3, <2>4, StepsSame, GotoPasses, OneMoves
  <1> QED BY <1>1, <1>2, <1>3

-----------------------------------------------------------------------------
(* Steps *)

LEMMA EndRecord ==
    ASSUME IInv, NEW c \in DOMAIN call, NEW a
    PROVE  /\ CallFields \subseteq DOMAIN End(c, a) /\ End(c, a).req = call[c].req
           /\ End(c, a).pc = "done" /\ End(c, a).answer = a
           /\ End(c, a).stream = call[c].stream
  BY RecordFields DEF End, CallFields

LEMMA GotoRecord ==
    ASSUME IInv, NEW c \in DOMAIN call, NEW p
    PROVE  /\ CallFields \subseteq DOMAIN Goto(c, p) /\ Goto(c, p).req = call[c].req
           /\ Goto(c, p).pc = p /\ Goto(c, p).answer = call[c].answer
           /\ Goto(c, p).stream = call[c].stream
  BY RecordFields DEF Goto, CallFields

LEMMA FindDocs ==
    ASSUME IInv, DInv, NEW c \in DOMAIN call, FindStreamOfStep(c) \/ FindStep(c)
    PROVE  DInv'
  <1>1. Op(c) = "addStep" /\ call[c].req.op = "addStep" /\ DocsSame
    BY DEF FindStreamOfStep, FindStep, Starts, At, DInv, CallsOfDocs, DocPath, StepPcs, Op,
         DocsRead, DocsSame
  <1>2. StepCall(call[c], step)
    BY <1>1 DEF DInv, CallsOfDocs
  <1>3. StepsGrow(c) /\ MapsGrow
    BY <1>1, SameGrows
  <1>4. CASE FindStreamOfStep(c)
    <2> DEFINE g == Goto(c, "findStep")
    <2>1. /\ call[c].pc = "start"
          /\ Set(c, End(c, "error")) \/ \E id : Set(c, [g EXCEPT !.stream = id])
      BY <1>4 DEF FindStreamOfStep, Starts, At
    <2>2. /\ g.req = call[c].req /\ g.pc = "findStep" /\ g.answer = call[c].answer
          /\ CallFields \subseteq DOMAIN g
      BY GotoRecord
    <2> HIDE DEF g
    <2>3. \A id : Proceeds(c, [g EXCEPT !.stream = id])
      BY <1>1, <1>2, <2>1, <2>2 DEF Proceeds, DocPath, StepPcs, StepPath, StepCall, CallFields, DocsSame,
           None, Req
    <2>4. Proceeds(c, End(c, "error"))
      BY <1>1, <1>2, <2>1, EndRecord DEF Proceeds, DocPath, StepPcs, StepPath, StepCall, DocsSame, Req
    <2>5. \E s : Set(c, s) /\ Proceeds(c, s)
      BY <2>1, <2>3, <2>4
    <2> QED BY <1>3, <2>5, OneMoves
  <1>5. CASE FindStep(c)
    <2>1. call[c].pc = "findStep"
      BY <1>5 DEF FindStep, At
    <2>2. CASE Set(c, Goto(c, "createStep"))
      <3>1. Proceeds(c, Goto(c, "createStep"))
        BY <1>1, <1>2, <2>1, GotoRecord DEF Proceeds, DocPath, StepPcs, StepPath, StepCall, DocsSame,
             None, Req
      <3> QED BY <1>3, <2>2, <3>1, OneMoves
    <2>3. ASSUME NEW s \in StepsOf(Req(c).node), Set(c, [End(c, "ok") EXCEPT !.id = s])
          PROVE  DInv'
      <3> DEFINE e == End(c, "ok")
      <3>1. /\ e.req = call[c].req /\ e.pc = "done" /\ e.answer = "ok" /\ CallFields \subseteq DOMAIN e
            /\ Set(c, [e EXCEPT !.id = s])
        BY <2>3, EndRecord
      <3>2. KeyedBy(step, call[c].req.node) = {s}
        BY <2>3 DEF StepsOf, KeyedBy, DInv, OneStepPerKey, Req
      <3> HIDE DEF e
      <3>3. Proceeds(c, [e EXCEPT !.id = s])
        BY <1>1, <3>1, <3>2 DEF Proceeds, DocPath, StepPcs, StepPath, StepCall, CallFields, DocsSame, Req
      <3> QED BY <1>3, <3>1, <3>3, OneMoves
    <2> QED BY <1>5, <2>2, <2>3 DEF FindStep
  <1> QED BY <1>4, <1>5

LEMMA CreateStepDocs ==
    ASSUME IInv, DInv, NEW c \in DOMAIN call, CreateStep(c)
    PROVE  DInv'
  <1> DEFINE key == Req(c).key
             node == Req(c).node
             new == NewStep(node, call[c].stream)
             e == End(c, "ok")
             g == Goto(c, "refetch")
  <1>1. /\ call[c].pc = "createStep" /\ Op(c) = "addStep" /\ call[c].req.op = "addStep"
        /\ mindmap' = mindmap /\ call[c].req.key = key /\ call[c].req.node = node
    BY DEF CreateStep, At, DInv, CallsOfDocs, DocPath, StepPcs, Op, Req
  <1>2. StepCall(call[c], step)
    BY <1>1 DEF DInv, CallsOfDocs
  <1>3. CASE StepsOf(node) = {}
    <2>1. step' = With(step, key, new) /\ Set(c, [e EXCEPT !.id = key])
      BY <1>3 DEF CreateStep
    <2>2. /\ e.req = call[c].req /\ e.pc = "done" /\ e.answer = "ok" /\ CallFields \subseteq DOMAIN e
      BY EndRecord
    <2>3. key \notin DOMAIN step
      BY <1>1, <1>2 DEF StepCall
    <2>4. StepFields \subseteq DOMAIN new /\ new.key = node
      BY DEF NewStep, StepFields
    <2>5. \A s \in DOMAIN step : step[s].key # node
      BY <1>3 DEF StepsOf
    <2>6. Req(c).key = key
      OBVIOUS
    <2> HIDE DEF key, node, new, e
    <2>7. /\ DOMAIN step' = DOMAIN step \cup {key} /\ step'[key] = new
          /\ \A s \in DOMAIN step : step'[s] = step[s]
      BY <2>1, <2>3 DEF With
    <2>8. StepsGrow(c)
      BY <1>1, <2>4, <2>5, <2>6, <2>7 DEF StepsGrow, DInv, RowsOfDocs
    <2>9. KeyedBy(step', node) = {key}
      BY <2>4, <2>5, <2>7 DEF KeyedBy
    <2>10. Proceeds(c, [e EXCEPT !.id = key])
      BY <1>1, <2>2, <2>9 DEF Proceeds, DocPath, StepPcs, StepPath, StepCall, CallFields, Req
    <2> QED BY <1>1, <2>1, <2>8, <2>10, MapsSame, OneMoves
  <1>4. CASE StepsOf(node) # {}
    <2>1. step' = step /\ Set(c, g)
      BY <1>4 DEF CreateStep, OnViolation
    <2>2. g.req = call[c].req /\ g.pc = "refetch" /\ g.answer = call[c].answer
      BY GotoRecord
    <2>3. KeyedBy(step, node) # {}
      BY <1>4 DEF StepsOf, KeyedBy
    <2> HIDE DEF g, node
    <2>4. Proceeds(c, g)
      BY <1>1, <1>2, <2>1, <2>2, <2>3 DEF Proceeds, DocPath, StepPcs, StepPath, StepCall, None, Req
    <2> QED BY <1>1, <2>1, <2>4, StepsSame, MapsSame, OneMoves
  <1> QED BY <1>3, <1>4

LEMMA RefetchDocs ==
    ASSUME IInv, DInv, NEW c \in DOMAIN call, RefetchStep(c)
    PROVE  DInv'
  <1> DEFINE node == Req(c).node
             found == StepsOf(node)
             id == CHOOSE s \in found : TRUE
             e == End(c, "ok")
  <1>1. /\ call[c].pc = "refetch" /\ Op(c) = "addStep" /\ call[c].req.op = "addStep" /\ DocsSame
        /\ call[c].req.node = node
    BY DEF RefetchStep, At, DInv, CallsOfDocs, DocPath, StepPcs, Op, Req, DocsRead, DocsSame
  <1>2. found # {} /\ found = KeyedBy(step, node)
    BY <1>1 DEF DInv, CallsOfDocs, StepCall, StepsOf, KeyedBy
  <1>3. Set(c, [e EXCEPT !.id = id])
    BY <1>2 DEF RefetchStep
  <1>4. id \in found
    BY <1>2
  <1> HIDE DEF found, id
  <1>5. KeyedBy(step, node) = {id}
    BY <1>2, <1>4 DEF KeyedBy, DInv, OneStepPerKey
  <1>6. e.req = call[c].req /\ e.pc = "done" /\ e.answer = "ok" /\ CallFields \subseteq DOMAIN e
    BY EndRecord
  <1> HIDE DEF e, node
  <1>7. Proceeds(c, [e EXCEPT !.id = id])
    BY <1>1, <1>5, <1>6 DEF Proceeds, DocPath, StepPcs, StepPath, StepCall, CallFields, DocsSame, Req
  <1> QED BY <1>1, <1>3, <1>7, SameGrows, OneMoves

LEMMA SetStepDocs ==
    ASSUME IInv, DInv, NEW c \in DOMAIN call, CompleteStep(c) \/ SetStep(c)
    PROVE  DInv'
  <1>1. CASE CompleteStep(c)
    <2>1. /\ Op(c) = "completeStep" /\ DocsSame
          /\ \/ \E a : Set(c, End(c, a))
             \/ Set(c, Goto(c, "setStep"))
      BY <1>1 DEF CompleteStep, Starts, DocsRead, DocsSame
    <2>2. DocPath(Op(c), "setStep")
      BY <2>1 DEF DocPath, StepPcs
    <2>3. \E s : Set(c, s) /\ Passes(c, s)
      BY <2>1, <2>2, EndPasses, GotoPasses
    <2> QED BY <2>1, <2>3, OneQuiet
  <1>2. CASE SetStep(c)
    <2>1. Op(c) \notin {"addStep", "addNode"}
      BY <1>2 DEF SetStep, Starts, At, DInv, CallsOfDocs, DocPath, StepPath, StepPcs, NodePath
    <2>2. mindmap' = mindmap /\ \E a : Set(c, End(c, a))
      BY <1>2 DEF SetStep
    <2>3. /\ DOMAIN step' = DOMAIN step
          /\ \A s \in DOMAIN step : /\ StepFields \subseteq DOMAIN step'[s]
                                    /\ step'[s].key = step[s].key
      BY <1>2 DEF SetStep, DInv, RowsOfDocs, StepFields
    <2>4. StepsGrow(c)
      BY <2>3 DEF StepsGrow
    <2> QED BY <2>1, <2>2, <2>3, <2>4, MapsSame, EndPasses, OneMoves
  <1> QED BY <1>1, <1>2

LEMMA EntityDocs ==
    ASSUME IInv, DInv, NEW c \in DOMAIN call,
           \/ CreateEntity(c) \/ CreateRelation(c) \/ DeleteRelation(c) \/ DeleteEntity(c)
           \/ ReadEntity(c) \/ UpdateEntity(c)
    PROVE  DInv'
  <1>1. DocsSame
    BY DEF CreateEntity, CreateRelation, DeleteRelation, DeleteEntity, ReadEntity, UpdateEntity,
         DocsRead, DocsSame
  <1>2. Op(c) \notin {"addStep", "addNode"}
    BY DEF CreateEntity, CreateRelation, DeleteRelation, DeleteEntity, ReadEntity, UpdateEntity,
         Starts, At, DInv, CallsOfDocs, DocPath, StepPath, StepPcs, NodePath
  <1>3. \/ \E a : Set(c, End(c, a))
        \/ Set(c, Goto(c, "writeEntity"))
    BY DEF CreateEntity, CreateRelation, DeleteRelation, DeleteEntity, ReadEntity, UpdateEntity
  <1>4. DocPath(Op(c), "writeEntity")
    BY <1>2 DEF DocPath, StepPcs
  <1>5. \E s : Set(c, s) /\ Passes(c, s)
    BY <1>2, <1>3, <1>4, EndPasses, GotoPasses
  <1> QED BY <1>1, <1>5, OneQuiet

-----------------------------------------------------------------------------
(* All steps *)

LEMMA ServeDocs ==
    ASSUME IInv, DInv, NEW c \in DOMAIN call, CallStep(c)
    PROVE  DInv'
  <1>1. CASE (MemoryStep(c) \/ StreamStep(c)) /\ UNCHANGED docVars
    <2>1. PICK s : Set(c, s)
      BY SetsSome
    <2>2. Aside(c, s)
      BY <1>1, <2>1, SetsOne, MemoryAside, StreamAside
    <2>3. Passes(c, s)
      BY <1>1, <2>2, NotFollowed, AsidePasses
    <2>4. DocsSame
      BY <1>1 DEF docVars, DocsSame
    <2> QED BY <2>1, <2>3, <2>4, OneQuiet
  <1>2. CASE Abandon(c) /\ UNCHANGED docVars
    <2>1. Set(c, End(c, "dropped")) /\ DocsSame
      BY <1>2 DEF Abandon, docVars, DocsSame
    <2>2. Stops(c, End(c, "dropped"))
      BY EndStops
    <2> QED BY <2>1, <2>2, OneQuiet
  <1>3. CASE DocumentStep(c)
    BY <1>3, CreateMapDocs, ReadMapDocs, EditMapDocs, DropMapDocs, FindDocs, CreateStepDocs,
       RefetchDocs, SetStepDocs, EntityDocs DEF DocumentStep
  <1> QED BY <1>1, <1>2, <1>3 DEF CallStep

LEMMA DocsStep ==
    ASSUME IInv, DInv, [Next]_vars
    PROVE  DInv'
  <1>1. ASSUME NEW c \in DOMAIN call,
               \/ Serve(c) \/ IndexRefuses(c) \/ Authenticate(c) \/ RequestStep(c)
               \/ Disconnect(c) \/ BeginSweep(c) \/ StartRepair(c)
        PROVE  DInv'
    <2>1. CASE Serve(c)
      BY <2>1, ServeDocs DEF Serve
    <2>2. CASE IndexRefuses(c)
      BY <2>2, RefusedDocs
    <2>3. CASE Authenticate(c)
      <3> DEFINE rec == call[c]
      <3>1. OnlyCall(c, rec) \/ OnlyCall(c, End(c, "refused"))
        BY <2>3 DEF Authenticate
      <3>2. Stays(c, rec) /\ Stops(c, End(c, "refused"))
        BY SameStays, EndStops
      <3> HIDE DEF rec
      <3> QED BY <3>1, <3>2, OnlyQuiet, OneQuiet
    <2>4. CASE Initialise(c) \/ Resolve(c) \/ BeginSweep(c) \/ StartRepair(c)
      BY <2>4, NoneQuiet DEF Initialise, Resolve, BeginSweep, StartRepair, StorageUnchangedBut,
           docVars, DocsSame
    <2>5. CASE Handle(c)
      BY <2>5, HandleDocs
    <2>6. CASE Disconnect(c)
      BY <2>6, EndStops, OnlyQuiet, OneQuiet DEF Disconnect
    <2> QED BY <1>1, <2>1, <2>2, <2>3, <2>4, <2>5, <2>6 DEF RequestStep
  <1>2. ASSUME NEW h \in DOMAIN start, StartStep(h) PROVE DInv'
    BY <1>2, StartDocs
  <1>3. ASSUME NEW p \in Processes, Boot(p) \/ Crash(p) PROVE DInv'
    <2>1. CASE Boot(p)
      BY <2>1, NoneQuiet DEF Boot, StorageUnchangedBut, docVars, DocsSame
    <2> QED BY <1>3, <2>1, CrashDocs
  <1>4. CASE (Tick /\ UNCHANGED <<derivations, docVars, serverVars>>) \/ UNCHANGED vars
    BY <1>4, NoneQuiet DEF Tick, vars, storageVars, storeVars, docVars, DocsSame
  <1> QED BY <1>1, <1>2, <1>3, <1>4 DEF Next

LEMMA DocsStart == Init => DInv
  <1> SUFFICES ASSUME Init PROVE DInv
    OBVIOUS
  <1>1. PICK w \in Workloads :
          /\ call = [c \in DOMAIN w.calls |-> NewCall(w.calls[c])]
          /\ mindmap = w.mindmap /\ step = << >>
    BY DEF Init, InitStorage, InitStore
  <1>2. DOMAIN call = DOMAIN w.calls /\ DOMAIN step = {}
        /\ \A c \in DOMAIN call : /\ call[c].req = w.calls[c] /\ call[c].pc = "start"
                                  /\ call[c].stream = None /\ call[c].answer = None
    BY <1>1 DEF NewCall
  <1>3. OneStepPerKey /\ RowsOfDocs
    BY <1>1, <1>2, DocumentAssumption DEF OneStepPerKey, RowsOfDocs, MapFields
  <1>4. CallsOfDocs
    <2> SUFFICES ASSUME NEW c \in DOMAIN call
                 PROVE  /\ DocFields \subseteq DOMAIN Req(c)
                        /\ DocPath(Op(c), call[c].pc)
                        /\ Op(c) = "addStep" => StepCall(call[c], step)
      BY DEF CallsOfDocs
    <2>1. DocFields \subseteq DOMAIN Req(c)
      <3>1. {"op", "key"} \subseteq DOMAIN w.calls[c]
        BY <1>1, <1>2, StoreAssumption
      <3>2. {"name", "node"} \subseteq DOMAIN w.calls[c]
        BY <1>1, <1>2, DocumentAssumption
      <3> QED BY <1>2, <3>1, <3>2 DEF DocFields, Req
    <2> QED BY <1>2, <2>1 DEF DocPath, StepPcs, StepPath, NodePath, StepCall, None
  <1>5. KeysApart
    <2> SUFFICES ASSUME NEW c \in DOMAIN call, NEW d \in DOMAIN call, c # d,
                        w.calls[c].op = "addStep", w.calls[d].op = "addStep"
                 PROVE  w.calls[c].key # w.calls[d].key
      BY <1>2 DEF KeysApart, Op, Req
    <2>1. Draws(w.calls[c]) \cap Draws(w.calls[d]) = {}
      BY <1>1, <1>2, StoreAssumption DEF Fresh
    <2>2. w.calls[c].key \in Draws(w.calls[c]) /\ w.calls[d].key \in Draws(w.calls[d])
      BY DEF Draws
    <2> QED BY <2>1, <2>2
  <1>6. NodesOfDocs
    BY <1>2 DEF NodesOfDocs, NodeCall, None
  <1> QED BY <1>3, <1>4, <1>5, <1>6 DEF DInv

-----------------------------------------------------------------------------
(* The theorems on steps and nodes *)

\* The invariant the theorems below rest on: where a call that adds a step or a
\* node stands, what it may rely on of the rows there are now.
THEOREM DocumentsInductive == Spec => [](IInv /\ DInv)
  <1>1. Init => IInv /\ DInv
    BY Start, DocsStart
  <1>2. IInv /\ DInv /\ [Next]_vars => IInv' /\ DInv'
    BY Step, DocsStep
  <1> QED BY <1>1, <1>2, PTL DEF Spec

\* However many calls add a step under one idempotency key, and whichever of them
\* is first, all that answer name one step, and it is the only one of the key: the
\* look for a step and its creation are two queries, and the unique index is what
\* holds them together.
THEOREM StepsAgree == Spec => []AddsAgree
  <1>1. IInv /\ DInv => AddsAgree
    BY DEF DInv, OneStepPerKey, CallsOfDocs, StepCall, AddsAgree, StepsOf, KeyedBy, Req
  <1> QED BY <1>1, DocumentsInductive, PTL

\* As long as nothing is removed from a map, a node whose addition was answered is
\* there: the map was read before, and another call may have written it since.
THEOREM NodesStay == Spec => []AckedNodesKept
  <1>1. IInv /\ DInv => AckedNodesKept
    BY DEF DInv, NodesOfDocs, NothingRemoved, NodeCall, Holds, AckedNodesKept, MapNamed, Req
  <1> QED BY <1>1, DocumentsInductive, PTL

-----------------------------------------------------------------------------
(* Sums *)

Counts(f) == IsFiniteSet(DOMAIN f) /\ \A x \in DOMAIN f : f[x] \in Nat

LEMMA UnitsFinite ==
    ASSUME NEW f, Counts(f)
    PROVE  IsFiniteSet(Units(f)) /\ SumOf(f) \in Nat
  <1> DEFINE of(x) == {x} \X (1..f[x])
             all == {of(x) : x \in DOMAIN f}
             g == [x \in DOMAIN f |-> of(x)]
  <1>1. \A x \in DOMAIN f : IsFiniteSet(of(x))
    <2> TAKE x \in DOMAIN f
    <2>1. f[x] \in Int /\ 1 \in Int
      BY DEF Counts
    <2>2. IsFiniteSet(1..f[x]) /\ IsFiniteSet({x})
      BY <2>1, FS_Interval, FS_Singleton
    <2> QED BY <2>2, FS_Product
  <1>2. \A T \in all : IsFiniteSet(T)
    <2> HIDE DEF of
    <2> QED BY <1>1
  <1>3. g \in Surjection(DOMAIN f, all)
    <2> HIDE DEF of
    <2> QED BY DEF Surjection
  <1>4. IsFiniteSet(all)
    <2> HIDE DEF g, all
    <2> QED BY <1>3, FS_Surjection DEF Counts
  <1>5. IsFiniteSet(UNION all)
    <2> HIDE DEF all
    <2> QED BY <1>2, <1>4, FS_UNION
  <1>6. IsFiniteSet(Units(f))
    BY <1>5 DEF Units
  <1> QED BY <1>6, FS_CardinalityType DEF SumOf

LEMMA SumSplit ==
    ASSUME NEW f, NEW g, NEW h, Counts(f), Counts(g), Counts(h),
           DOMAIN f = DOMAIN g \cup DOMAIN h, DOMAIN g \cap DOMAIN h = {},
           \A x \in DOMAIN g : g[x] = f[x], \A x \in DOMAIN h : h[x] = f[x]
    PROVE  SumOf(f) = SumOf(g) + SumOf(h)
  <1>1. Units(f) = Units(g) \cup Units(h)
    BY DEF Units
  <1>2. Units(g) \cap Units(h) = {}
    BY DEF Units
  <1>3. IsFiniteSet(Units(g)) /\ IsFiniteSet(Units(h))
    BY UnitsFinite
  <1>4. Cardinality(Units(f)) = Cardinality(Units(g)) + Cardinality(Units(h)) - Cardinality({})
    BY <1>1, <1>2, <1>3, FS_Union
  <1>5. SumOf(g) \in Nat /\ SumOf(h) \in Nat
    BY UnitsFinite
  <1> QED BY <1>4, <1>5, FS_EmptySet DEF SumOf

LEMMA TokensNat ==
    ASSUME NEW text \in SUBSET DOMAIN Sentence
    PROVE  Tokens(text) \in Nat
  <1> DEFINE f == [s \in text |-> Sentence[s].tokens]
  <1>1. IsFiniteSet(text) /\ \A s \in text : Sentence[s].tokens \in Nat
    BY SentenceAssumption, FS_Subset
  <1>2. Counts(f)
    BY <1>1 DEF Counts
  <1> HIDE DEF f
  <1>3. SumOf(f) \in Nat
    BY <1>2, UnitsFinite
  <1> QED BY <1>3 DEF Tokens, f

Texts(rows, ids) == IsFiniteSet(ids) /\ \A i \in ids : rows[i].text \subseteq DOMAIN Sentence

LEMMA TextsCount ==
    ASSUME NEW rows, NEW ids, Texts(rows, ids)
    PROVE  Counts([i \in ids |-> Tokens(rows[i].text)])
  BY TokensNat DEF Texts, Counts

LEMMA TotalNat ==
    ASSUME NEW rows, NEW ids, Texts(rows, ids)
    PROVE  Total(rows, ids) \in Nat
  <1> DEFINE f == [i \in ids |-> Tokens(rows[i].text)]
  <1>1. Counts(f)
    BY TextsCount
  <1> HIDE DEF f
  <1>2. SumOf(f) \in Nat
    BY <1>1, UnitsFinite
  <1> QED BY <1>2 DEF Total, f

LEMMA TotalSplit ==
    ASSUME NEW rows, NEW a, NEW b, Texts(rows, a), Texts(rows, b), a \cap b = {}
    PROVE  Total(rows, a \cup b) = Total(rows, a) + Total(rows, b)
  <1> DEFINE t(i) == Tokens(rows[i].text)
             f == [i \in a \cup b |-> t(i)]
             g == [i \in a |-> t(i)]
             h == [i \in b |-> t(i)]
  <1>1. Texts(rows, a \cup b)
    BY FS_Union DEF Texts
  <1>2. Counts(f) /\ Counts(g) /\ Counts(h)
    BY <1>1, TextsCount
  <1>3. /\ DOMAIN f = DOMAIN g \cup DOMAIN h /\ DOMAIN g \cap DOMAIN h = {}
        /\ \A x \in DOMAIN g : g[x] = f[x]
        /\ \A x \in DOMAIN h : h[x] = f[x]
    <2> HIDE DEF t
    <2> QED OBVIOUS
  <1>4. SumOf(f) = SumOf(g) + SumOf(h)
    <2> HIDE DEF f, g, h
    <2> QED BY <1>2, <1>3, SumSplit
  <1> QED BY <1>4 DEF Total

LEMMA TotalSame ==
    ASSUME NEW rows, NEW more, NEW ids, \A i \in ids : more[i].text = rows[i].text
    PROVE  Total(more, ids) = Total(rows, ids)
  <1>1. [i \in ids |-> Tokens(more[i].text)] = [i \in ids |-> Tokens(rows[i].text)]
    OBVIOUS
  <1> QED BY <1>1 DEF Total

LEMMA TotalOne ==
    ASSUME NEW rows, NEW i, rows[i].text \subseteq DOMAIN Sentence
    PROVE  Total(rows, {i}) = Tokens(rows[i].text)
  <1> DEFINE n == Tokens(rows[i].text)
             f == [j \in {i} |-> Tokens(rows[j].text)]
  <1>1. n \in Nat
    BY TokensNat
  <1>2. Units(f) = {i} \X (1..n)
    BY DEF Units
  <1> HIDE DEF n, f
  <1>3. IsFiniteSet(1..n) /\ Cardinality(1..n) = n
    BY <1>1, FS_Interval
  <1>4. IsFiniteSet({i}) /\ Cardinality({i}) = 1
    BY FS_Singleton
  <1>5. Cardinality({i} \X (1..n)) = Cardinality({i}) * Cardinality(1..n)
    BY <1>3, <1>4, FS_Product
  <1>6. Cardinality({i} \X (1..n)) = n
    BY <1>1, <1>3, <1>4, <1>5
  <1>7. SumOf(f) = n
    BY <1>2, <1>6 DEF SumOf
  <1> QED BY <1>7 DEF Total, f, n

LEMMA TotalNone == ASSUME NEW rows PROVE Total(rows, {}) = 0
  <1>1. Units([i \in {} |-> Tokens(rows[i].text)]) = {}
    BY DEF Units
  <1> QED BY <1>1, FS_EmptySet DEF Total, SumOf

-----------------------------------------------------------------------------
(* The types, and what counters rest on *)

TypedFields == {"text", "version", "active", "owner", "stream", "until"}

RowTyped(row) ==
    /\ TypedFields \subseteq DOMAIN row /\ WellTyped(row)
    /\ row.version \in Nat \ {0} /\ row.active \in BOOLEAN

\* Where a call holds sources, where it is to place a row, where it erases and where
\* it looks at the counter.
Holding == {"generate", "published", "publish"}
Placing == {"search", "insert"}
Erasing == {"next", "delete", "deleteOwned", "sweep", "marker", "list", "drop", "unlink"}
Looking == {"stored", "load"}

CallTyped(r) ==
    /\ {"text", "until", "status", "scope"} \subseteq DOMAIN r.req
    /\ WellTyped(r.req) /\ r.req.status \in StepStatuses
    /\ IsFiniteSet(DOMAIN r.seen) /\ \A i \in DOMAIN r.seen : RowTyped(r.seen[i])
    /\ r.pc \in Holding => DOMAIN r.seen # {}
    /\ \A k \in r.claims : k.text \in DOMAIN Sentence

RowsTyped == IsFiniteSet(DOMAIN memory) /\ \A i \in DOMAIN memory : RowTyped(memory[i])

StreamFields == {"name", "owner", "status", "tokens"}

StreamsTyped ==
    /\ \A s \in DOMAIN stream : /\ StreamFields \subseteq DOMAIN stream[s]
                                /\ stream[s].status \in {"active", "paused", "archived"}
                                /\ stream[s].tokens \in Nat
    /\ \A s, t \in DOMAIN stream :
         stream[s].name = stream[t].name /\ stream[s].owner = stream[t].owner => s = t

CallsTyped == \A c \in DOMAIN call : CallTyped(call[c])

HistoryTyped == \A h \in history : h.type \in {"created", "updated", "deleted", "summarized"}

ClockTyped == clock \in 0..MaxNow /\ left \in Nat

DocsTyped ==
    /\ \A m, n \in DOMAIN mindmap : mindmap[m].name = mindmap[n].name => m = n
    /\ \A s \in DOMAIN step : "status" \in DOMAIN step[s] /\ step[s].status \in StepStatuses
    /\ DOMAIN graph = DOMAIN call

TInv ==
    /\ RowsTyped /\ StreamsTyped /\ CallsTyped /\ HistoryTyped /\ ClockTyped /\ DocsTyped
    /\ DOMAIN dims = DOMAIN memory

NothingDeleted == \A c \in DOMAIN call : Op(c) \notin Deleting

\* A call knows the stream its rows are in, and its sources are still there.
CallCounted(r, rows, streams) ==
    /\ r.stream \in DOMAIN streams \cup {None}
    /\ r.req.op \in {"add", "index", "compress"} => r.stream = None
    /\ r.req.op = "addTo" /\ r.pc \in Placing =>
          /\ r.stream \in DOMAIN streams /\ streams[r.stream].name = r.req.name
          /\ Matches(streams[r.stream].owner, r.req.scope)
    /\ r.req.op = "createStream" => r.req.key # None
    /\ r.pc \notin Erasing
    /\ r.pc \in Looking => r.req.op # "compress"
    /\ r.pc \in Holding =>
          \A i \in DOMAIN r.seen : i \in DOMAIN rows /\ rows[i].stream = r.stream

CallsCounted == \A c \in DOMAIN call : CallCounted(call[c], memory, stream)

RowsPlaced ==
    /\ None \notin DOMAIN stream
    /\ \A i \in DOMAIN memory : memory[i].stream \in DOMAIN stream \cup {None}

CInv == NothingDeleted => RowsPlaced /\ CallsCounted /\ CounterExact

-----------------------------------------------------------------------------
(* How the calls go on *)

\* s holds what the record of c holds.
Retains(c, s) ==
    /\ s.req = Req(c) /\ s.seen = call[c].seen /\ s.claims = call[c].claims
    /\ s.stream = call[c].stream
    /\ s.pc \in Holding => call[c].pc \in Holding
    /\ s.pc \in Placing => call[c].pc \in Placing \/ Op(c) # "addTo"
    /\ s.pc \in Erasing => call[c].pc \in Erasing \/ Op(c) \in Deleting
    /\ s.pc \in Looking => call[c].pc \in Looking \/ Op(c) # "compress"

\* s holds something new.
Anew(c, s) ==
    /\ s.req.op \in Deleting <=> Op(c) \in Deleting
    /\ s.req.op = "addTo" <=> Op(c) = "addTo"
    /\ s.req.name = Req(c).name /\ s.req.scope = Req(c).scope
    /\ CallTyped(s) /\ (NothingDeleted => CallCounted(s, memory', stream'))

CallsGo ==
    /\ DOMAIN call' = DOMAIN call
    /\ \A c \in DOMAIN call : call'[c] = call[c] \/ Retains(c, call'[c]) \/ Anew(c, call'[c])

\* A stream keeps what it is asked for by.
SameStream(s) == stream'[s].name = stream[s].name /\ stream'[s].owner = stream[s].owner

\* Without deletions, rows stay in their streams and streams stay.
StoreGrows ==
    NothingDeleted =>
        /\ \A i \in DOMAIN memory : i \in DOMAIN memory' /\ memory'[i].stream = memory[i].stream
        /\ \A s \in DOMAIN stream : s \in DOMAIN stream' /\ SameStream(s)

LEMMA DeletionsKept ==
    ASSUME CallsGo
    PROVE  NothingDeleted' <=> NothingDeleted
  <1>1. \A c \in DOMAIN call : call'[c].req.op \in Deleting <=> Op(c) \in Deleting
    BY DEF CallsGo, Retains, Anew, Op, Req
  <1> QED BY <1>1 DEF CallsGo, NothingDeleted, Op, Req

LEMMA CallsFollow ==
    ASSUME CallsTyped, CallsGo
    PROVE  CallsTyped'
  <1> SUFFICES ASSUME NEW c \in DOMAIN call PROVE CallTyped(call'[c])
    BY DEF CallsTyped, CallsGo
  <1>1. CallTyped(call[c])
    BY DEF CallsTyped
  <1>2. CASE Retains(c, call'[c])
    BY <1>1, <1>2 DEF CallTyped, Retains, Req
  <1> QED BY <1>1, <1>2 DEF CallsGo, Anew

LEMMA CountsFollow ==
    ASSUME CInv, CallsGo, StoreGrows, NothingDeleted
    PROVE  CallsCounted'
  <1> SUFFICES ASSUME NEW c \in DOMAIN call PROVE CallCounted(call'[c], memory', stream')
    BY DEF CallsCounted, CallsGo
  <1>1. CallCounted(call[c], memory, stream) /\ Op(c) \notin Deleting
    BY DEF CInv, CallsCounted, NothingDeleted
  <1>2. CallCounted(call[c], memory', stream')
    BY <1>1 DEF CallCounted, StoreGrows, SameStream
  <1>3. CASE Retains(c, call'[c])
    BY <1>1, <1>2, <1>3 DEF CallCounted, Retains, Op, Req
  <1> QED BY <1>2, <1>3 DEF CallsGo, Anew

\* One call goes on.
LEMMA OneGoes ==
    ASSUME NEW c, NEW s, Set(c, s), c \in DOMAIN call => Retains(c, s) \/ Anew(c, s) \/ s = call[c]
    PROVE  CallsGo
  <1>1. DOMAIN call' = DOMAIN call
    BY DEF Set
  <1>2. \A d \in DOMAIN call : call'[d] = call[d] \/ (d = c /\ call'[d] = s)
    BY DEF Set
  <1> QED BY <1>1, <1>2 DEF CallsGo

LEMMA NoneGoes ==
    ASSUME call' = call
    PROVE  CallsGo
  BY DEF CallsGo

LEMMA EndRetains ==
    ASSUME IInv, NEW c \in DOMAIN call, NEW a
    PROVE  Retains(c, End(c, a))
  BY RecordFields DEF End, CallFields, Retains, Holding, Placing, Erasing, Looking, Req

LEMMA GotoRetains ==
    ASSUME IInv, NEW c \in DOMAIN call, NEW p,
           p \in Holding => call[c].pc \in Holding,
           p \in Placing => call[c].pc \in Placing \/ Op(c) # "addTo",
           p \in Erasing => call[c].pc \in Erasing \/ Op(c) \in Deleting,
           p \in Looking => call[c].pc \in Looking \/ Op(c) # "compress"
    PROVE  Retains(c, Goto(c, p))
  BY RecordFields DEF Goto, CallFields, Retains, Req

-----------------------------------------------------------------------------
(* Calls that hold what they held *)

LEMMA FieldRetains ==
    ASSUME NEW c, NEW g, Retains(c, g), CallFields \subseteq DOMAIN g, NEW x
    PROVE  Retains(c, [g EXCEPT !.id = x])
  BY DEF Retains, CallFields

LEMMA AddGoes ==
    ASSUME IInv, NEW c \in DOMAIN call,
           \/ StartAdd(c) \/ SearchDuplicates(c) \/ InsertMemory(c) \/ Readback(c)
           \/ StartIndexed(c) \/ CreateIndexed(c) \/ GetIndexed(c)
    PROVE  Retains(c, call'[c])
  <1>0. CallFields \subseteq DOMAIN call[c]
    BY RecordFields
  <1>2. CASE SearchDuplicates(c)
    <2> DEFINE g == Goto(c, "get")
    <2>1. (\E i : Set(c, [g EXCEPT !.id = i])) \/ Set(c, Goto(c, "insert"))
      BY <1>2 DEF SearchDuplicates
    <2>2. call[c].pc = "search"
      BY <1>2 DEF SearchDuplicates, At
    <2>3. /\ Retains(c, g) /\ CallFields \subseteq DOMAIN g
          /\ Retains(c, Goto(c, "insert"))
      BY <2>2, GotoRetains, GotoRecord DEF Holding, Placing, Erasing, Looking
    <2> HIDE DEF g
    <2>4. \A i : Retains(c, [g EXCEPT !.id = i])
      BY <2>3, FieldRetains
    <2> QED BY <2>1, <2>3, <2>4, SetsOne
  <1> USE DEF CallFields, Set, Goto, End, Retains, Req, At, Holding, Placing, Erasing, Looking
  <1>1. CASE StartAdd(c)
    BY <1>0, <1>1 DEF StartAdd, Starts
  <1>3. CASE InsertMemory(c)
    BY <1>0, <1>3 DEF InsertMemory
  <1>4. CASE Readback(c)
    BY <1>0, <1>4 DEF Readback, Stored
  <1>5. CASE StartIndexed(c)
    BY <1>0, <1>5 DEF StartIndexed
  <1>6. CASE CreateIndexed(c)
    BY <1>0, <1>6 DEF CreateIndexed
  <1>7. CASE GetIndexed(c)
    BY <1>0, <1>7 DEF GetIndexed
  <1> QED BY <1>1, <1>2, <1>3, <1>4, <1>5, <1>6, <1>7

LEMMA EraseGoes ==
    ASSUME IInv, NEW c \in DOMAIN call,
           \/ StartGet(c) \/ WriteUpdate(c) \/ GetUpdated(c) \/ DeleteOwned(c)
           \/ StartDelete(c) \/ StartDeleteAll(c) \/ WriteDelete(c) \/ AllDeleted(c)
           \/ StartSweep(c) \/ SweepOne(c) \/ CountSwept(c) \/ SweepFails(c) \/ SweepEnds(c)
    PROVE  Retains(c, call'[c])
  <1>0. CallFields \subseteq DOMAIN call[c]
    BY RecordFields
  <1>2. CASE WriteUpdate(c)
    <2>1. Set(c, Goto(c, "updated")) \/ Set(c, End(c, "error"))
      BY <1>2 DEF WriteUpdate
    <2>2. Retains(c, Goto(c, "updated"))
      BY GotoRetains DEF Holding, Placing, Erasing, Looking
    <2> QED BY <2>1, <2>2, EndRetains, SetsOne
  <1>4. CASE DeleteOwned(c)
    <2>1. \E a : Set(c, End(c, a))
      BY <1>4 DEF DeleteOwned
    <2> QED BY <2>1, EndRetains, SetsOne
  <1>10. CASE SweepOne(c)
    <2>1. PICK i \in call[c].todo : Set(c, [Goto(c, "marker") EXCEPT !.id = i])
      BY <1>10 DEF SweepOne
    <2> DEFINE g == Goto(c, "marker")
    <2>2. Retains(c, g) /\ CallFields \subseteq DOMAIN g
      BY <1>10, GotoRetains, GotoRecord DEF SweepOne, At, Holding, Placing, Erasing, Looking
    <2> HIDE DEF g
    <2>3. Retains(c, [g EXCEPT !.id = i])
      BY <2>2, FieldRetains
    <2> QED BY <2>1, <2>3, SetsOne DEF g
  <1> USE DEF CallFields, Set, Goto, End, Retains, Req, At, Starts, Deleting,
          Holding, Placing, Erasing, Looking
  <1>1. CASE StartGet(c)
    BY <1>0, <1>1 DEF StartGet
  <1>3. CASE GetUpdated(c)
    BY <1>0, <1>3 DEF GetUpdated, Stored
  <1>5. CASE StartDelete(c)
    BY <1>0, <1>5 DEF StartDelete
  <1>6. CASE StartDeleteAll(c)
    BY <1>0, <1>6 DEF StartDeleteAll
  <1>7. CASE WriteDelete(c)
    BY <1>0, <1>7 DEF WriteDelete
  <1>8. CASE AllDeleted(c)
    BY <1>0, <1>8 DEF AllDeleted
  <1>9. CASE StartSweep(c)
    BY <1>0, <1>9 DEF StartSweep
  <1>11. CASE CountSwept(c)
    BY <1>0, <1>11 DEF CountSwept
  <1>12. CASE SweepFails(c)
    BY <1>0, <1>12 DEF SweepFails
  <1>13. CASE SweepEnds(c)
    BY <1>0, <1>13 DEF SweepEnds
  <1> QED BY <1>1, <1>2, <1>3, <1>4, <1>5, <1>6, <1>7, <1>8, <1>9, <1>10, <1>11, <1>12, <1>13

LEMMA SummarizingRetains ==
    ASSUME IInv, NEW c \in DOMAIN call, call[c].pc = "stored" \/ Op(c) # "compress", NEW x
    PROVE  Retains(c, Summarizing(c, x))
  <1> DEFINE g == Goto(c, "load")
  <1>1. Retains(c, g) /\ CallFields \subseteq DOMAIN g
    BY GotoRetains, GotoRecord DEF Holding, Placing, Erasing, Looking
  <1> HIDE DEF g
  <1>2. Retains(c, [g EXCEPT !.scope = x])
    BY <1>1 DEF Retains, CallFields
  <1> QED BY <1>2 DEF g, Summarizing

LEMMA StreamGoes ==
    ASSUME IInv, NEW c \in DOMAIN call,
           \/ CreateStream(c) \/ SetStatus(c) \/ SeeCounter(c) \/ ListMembers(c)
           \/ DropStream(c) \/ StartCompress(c) \/ StartSummarize(c)
           \/ CheckPublished(c) \/ Publish(c) \/ Confirm(c)
    PROVE  Retains(c, call'[c])
  <1>0. CallFields \subseteq DOMAIN call[c]
    BY RecordFields
  <1>1. CASE CreateStream(c)
    <2>1. Set(c, End(c, "ok")) \/ Set(c, End(c, "error"))
      BY <1>1 DEF CreateStream
    <2> QED BY <2>1, EndRetains, SetsOne
  <1>2. CASE SetStatus(c)
    <2>1. \E a : Set(c, End(c, a))
      BY <1>2 DEF SetStatus
    <2> QED BY <2>1, EndRetains, SetsOne
  <1>9. CASE Confirm(c)
    <2>1. \E a : Set(c, End(c, a))
      BY <1>9 DEF Confirm, Derived
    <2> QED BY <2>1, EndRetains, SetsOne
  <1>3. CASE SeeCounter(c) \/ StartSummarize(c)
    <2>1. call[c].pc = "stored" \/ Op(c) # "compress"
      BY <1>3 DEF SeeCounter, StartSummarize, At, Starts
    <2>2. (\E a : Set(c, End(c, a))) \/ (\E x : Set(c, Summarizing(c, x)))
      BY <1>3 DEF SeeCounter, StartSummarize
    <2> QED BY <2>1, <2>2, EndRetains, SummarizingRetains, SetsOne
  <1> USE DEF CallFields, Set, Goto, End, Retains, Req, At, Starts, Deleting,
          Holding, Placing, Erasing, Looking
  <1>4. CASE ListMembers(c)
    BY <1>0, <1>4 DEF ListMembers
  <1>5. CASE DropStream(c)
    BY <1>0, <1>5 DEF DropStream
  <1>6. CASE StartCompress(c)
    BY <1>0, <1>6 DEF StartCompress
  <1>7. CASE CheckPublished(c)
    BY <1>0, <1>7 DEF CheckPublished, Derived
  <1>8. CASE Publish(c)
    <2>1. Set(c, Goto(c, "thrown")) \/ Set(c, Goto(c, "confirm"))
      BY <1>8 DEF Publish
    <2> QED BY <1>0, <2>1
  <1> QED BY <1>1, <1>2, <1>3, <1>4, <1>5, <1>6, <1>7, <1>8, <1>9

LEMMA MapGoes ==
    ASSUME IInv, NEW c \in DOMAIN call,
           \/ CreateMap(c) \/ ReadMap(c) \/ EditMap(c) \/ FindMap(c) \/ DropMap(c) \/ UnlinkMaps(c)
    PROVE  Retains(c, call'[c])
  <1>1. \/ \E a : Set(c, End(c, a))
        \/ \E p \in {"edit", "dropMap"} : \E x : Set(c, [Goto(c, p) EXCEPT !.id = x])
        \/ call[c].pc = "unlink" /\ Set(c, Goto(c, "drop"))
    BY DEF CreateMap, ReadMap, EditMap, FindMap, DropMap, UnlinkMaps, At
  <1>2. CASE \E a : Set(c, End(c, a))
    BY <1>2, EndRetains, SetsOne
  <1>3. CASE \E p \in {"edit", "dropMap"} : \E x : Set(c, [Goto(c, p) EXCEPT !.id = x])
    <2>1. PICK p \in {"edit", "dropMap"} : \E x : Set(c, [Goto(c, p) EXCEPT !.id = x])
      BY <1>3
    <2>2. PICK x : Set(c, [Goto(c, p) EXCEPT !.id = x])
      BY <2>1
    <2>3. Retains(c, Goto(c, p)) /\ CallFields \subseteq DOMAIN Goto(c, p)
      BY GotoRetains, GotoRecord DEF Holding, Placing, Erasing, Looking
    <2> DEFINE g == Goto(c, p)
    <2> HIDE DEF g
    <2>4. Retains(c, [g EXCEPT !.id = x])
      BY <2>3, FieldRetains DEF g
    <2> QED BY <2>2, <2>4, SetsOne DEF g
  <1>4. CASE call[c].pc = "unlink" /\ Set(c, Goto(c, "drop"))
    <2>1. Retains(c, Goto(c, "drop"))
      BY <1>4, GotoRetains DEF Holding, Placing, Erasing, Looking
    <2> QED BY <1>4, <2>1, SetsOne
  <1> QED BY <1>1, <1>2, <1>3, <1>4

LEMMA StepGoes ==
    ASSUME IInv, NEW c \in DOMAIN call,
           \/ FindStep(c) \/ CreateStep(c) \/ RefetchStep(c) \/ CompleteStep(c) \/ SetStep(c)
           \/ CreateEntity(c) \/ CreateRelation(c) \/ DeleteRelation(c) \/ DeleteEntity(c)
           \/ ReadEntity(c) \/ UpdateEntity(c)
    PROVE  Retains(c, call'[c])
  <1> DEFINE pcs == {"createStep", "refetch", "setStep", "writeEntity"}
  <1>1. \/ \E a : Set(c, End(c, a))
        \/ \E x : Set(c, [End(c, "ok") EXCEPT !.id = x])
        \/ \E p \in pcs : Set(c, Goto(c, p))
    <2>1. CASE FindStep(c) \/ CreateStep(c)
      BY <2>1 DEF FindStep, CreateStep, OnViolation
    <2>2. CASE RefetchStep(c) \/ CompleteStep(c) \/ SetStep(c)
      BY <2>2 DEF RefetchStep, CompleteStep, SetStep
    <2>3. CASE CreateEntity(c) \/ CreateRelation(c) \/ DeleteRelation(c) \/ DeleteEntity(c)
      BY <2>3 DEF CreateEntity, CreateRelation, DeleteRelation, DeleteEntity
    <2>4. CASE ReadEntity(c) \/ UpdateEntity(c)
      BY <2>4 DEF ReadEntity, UpdateEntity
    <2> QED BY <2>1, <2>2, <2>3, <2>4
  <1>2. CASE \E a : Set(c, End(c, a))
    BY <1>2, EndRetains, SetsOne
  <1>3. CASE \E x : Set(c, [End(c, "ok") EXCEPT !.id = x])
    <2> DEFINE e == End(c, "ok")
    <2>1. Retains(c, e) /\ CallFields \subseteq DOMAIN e
      BY EndRetains, EndRecord
    <2> HIDE DEF e
    <2>2. \A x : Retains(c, [e EXCEPT !.id = x])
      BY <2>1, FieldRetains
    <2> QED BY <1>3, <2>2, SetsOne DEF e
  <1>4. CASE \E p \in pcs : Set(c, Goto(c, p))
    <2>1. \A p \in pcs : Retains(c, Goto(c, p))
      BY GotoRetains DEF Holding, Placing, Erasing, Looking
    <2> QED BY <1>4, <2>1, SetsOne
  <1> QED BY <1>1, <1>2, <1>3, <1>4

-----------------------------------------------------------------------------
(* Calls that take something new in their hands *)

\* A call learns its stream.
Learned(c, p, id) == [Goto(c, p) EXCEPT !.stream = id]

LEMMA StreamAnew ==
    ASSUME CallsTyped, CInv, NEW c \in DOMAIN call, memory' = memory, stream' = stream, NEW s,
           s.req = call[c].req, s.seen = call[c].seen, s.claims = call[c].claims,
           s.pc \notin Holding \cup Erasing, s.stream \in DOMAIN stream,
           Op(c) \notin {"add", "index", "compress"},
           s.pc \in Placing => s.stream \in Asked(c)
    PROVE  Anew(c, s)
  <1>1. CallTyped(call[c]) /\ (NothingDeleted => CallCounted(call[c], memory, stream))
    BY DEF CallsTyped, CInv, CallsCounted
  <1>2. CallTyped(s)
    BY <1>1 DEF CallTyped
  <1>3. NothingDeleted => CallCounted(s, memory, stream)
    BY <1>1 DEF CallCounted, Asked, Named, Op, Req
  <1> QED BY <1>2, <1>3 DEF Anew, Op, Req

LEMMA LearnsStream ==
    ASSUME IInv, TInv, CInv, NEW c \in DOMAIN call, memory' = memory, stream' = stream,
           NEW p, p \notin Holding \cup Erasing, NEW id \in DOMAIN stream,
           p \in Placing => id \in Asked(c), Op(c) \notin {"add", "index", "compress"}
    PROVE  Anew(c, Learned(c, p, id))
  <1> DEFINE g == Goto(c, p)
             s == Learned(c, p, id)
  <1>1. /\ CallFields \subseteq DOMAIN g /\ g.req = call[c].req /\ g.pc = p
        /\ g.seen = call[c].seen /\ g.claims = call[c].claims
    BY RecordFields DEF Goto, CallFields
  <1> HIDE DEF g
  <1>2. s = [g EXCEPT !.stream = id]
    BY DEF Learned, g
  <1> HIDE DEF s
  <1>3. /\ s.req = call[c].req /\ s.pc = p /\ s.stream = id
        /\ s.seen = call[c].seen /\ s.claims = call[c].claims
    BY <1>1, <1>2 DEF CallFields
  <1>4. Anew(c, s)
    BY <1>3, StreamAnew DEF TInv
  <1> QED BY <1>4 DEF s

\* The rows of a call that deletes, or that is in no stream, are not counted.
LEMMA LearnsAnyway ==
    ASSUME IInv, TInv, NEW c \in DOMAIN call, NEW p, p \notin Holding, NEW id, ~NothingDeleted
    PROVE  Anew(c, Learned(c, p, id))
  <1> DEFINE g == Goto(c, p)
             s == Learned(c, p, id)
  <1>1. /\ CallFields \subseteq DOMAIN g /\ g.req = call[c].req /\ g.pc = p
        /\ g.seen = call[c].seen /\ g.claims = call[c].claims
    BY RecordFields DEF Goto, CallFields
  <1> HIDE DEF g
  <1>2. s = [g EXCEPT !.stream = id]
    BY DEF Learned, g
  <1> HIDE DEF s
  <1>3. /\ s.req = call[c].req /\ s.pc = p /\ s.seen = call[c].seen /\ s.claims = call[c].claims
    BY <1>1, <1>2 DEF CallFields
  <1>4. CallTyped(call[c])
    BY DEF TInv, CallsTyped
  <1>5. Anew(c, s)
    BY <1>3, <1>4 DEF Anew, CallTyped, Op, Req
  <1> QED BY <1>5 DEF s

LEMMA LearnGoes ==
    ASSUME IInv, TInv, CInv, NEW c \in DOMAIN call,
           StartAddTo(c) \/ LoadStream(c) \/ FindStreamOfStep(c) \/ StartDeleteStream(c)
    PROVE  CallsGo
  <1>1. memory' = memory /\ stream' = stream
    BY DEF StartAddTo, LoadStream, FindStreamOfStep, StartDeleteStream, StreamRead, ReadOnly,
         DocsRead, StoreUnchanged
  <1>2. \A a : Set(c, End(c, a)) => CallsGo
    BY EndRetains, OneGoes
  <1>3. \A p, id : Set(c, Learned(c, p, id)) /\ Anew(c, Learned(c, p, id)) => CallsGo
    BY OneGoes
  <1>4. Asked(c) \subseteq DOMAIN stream
    BY DEF Asked, Named
  <1>5. CASE StartAddTo(c)
    <2>1. /\ Op(c) = "addTo"
          /\ Set(c, End(c, "error")) \/ \E s \in Asked(c) : Set(c, Learned(c, "search", s))
      BY <1>5 DEF StartAddTo, Starts, Learned
    <2>2. \A s \in Asked(c) : Anew(c, Learned(c, "search", s))
      BY <1>1, <1>4, <2>1, LearnsStream DEF Holding, Erasing
    <2> QED BY <1>2, <1>3, <2>1, <2>2
  <1>6. CASE LoadStream(c)
    <2>1. /\ call[c].pc = "load"
          /\ \/ \E a : Set(c, End(c, a))
             \/ \E s \in DOMAIN stream : Set(c, Learned(c, "select", s))
      BY <1>6 DEF LoadStream, Derived, At, Learned, Named
    <2>2. Op(c) \in Derives
      BY <2>1 DEF IInv, CallsInv, CallOK, PathOK, Op, Req
    <2>3. CASE Op(c) = "compress"
      <3>1. ~NothingDeleted
        BY <2>1, <2>3 DEF CInv, CallsCounted, CallCounted, Looking, Op, Req
      <3>2. \A s \in DOMAIN stream : Anew(c, Learned(c, "select", s))
        BY <3>1, LearnsAnyway DEF Holding
      <3> QED BY <1>2, <1>3, <2>1, <3>2
    <2>4. CASE Op(c) # "compress"
      <3>1. \A s \in DOMAIN stream : Anew(c, Learned(c, "select", s))
        BY <1>1, <2>2, <2>4, LearnsStream DEF Holding, Erasing, Placing, Derives
      <3> QED BY <1>2, <1>3, <2>1, <3>1
    <2> QED BY <2>3, <2>4
  <1>7. CASE FindStreamOfStep(c)
    <2>1. /\ Op(c) = "addStep"
          /\ Set(c, End(c, "error")) \/ \E s \in Asked(c) : Set(c, Learned(c, "findStep", s))
      BY <1>7 DEF FindStreamOfStep, Starts, Learned
    <2>2. \A s \in Asked(c) : Anew(c, Learned(c, "findStep", s))
      BY <1>1, <1>4, <2>1, LearnsStream DEF Holding, Erasing
    <2> QED BY <1>2, <1>3, <2>1, <2>2
  <1>8. CASE StartDeleteStream(c)
    <2>1. /\ Op(c) = "deleteStream"
          /\ Set(c, End(c, "error")) \/ \E s : Set(c, Learned(c, "list", s))
      BY <1>8 DEF StartDeleteStream, Starts, Learned
    <2>2. ~NothingDeleted
      BY <2>1 DEF NothingDeleted, Deleting
    <2>3. \A s : Anew(c, Learned(c, "list", s))
      BY <2>2, LearnsAnyway DEF Holding
    <2> QED BY <1>2, <1>3, <2>1, <2>3
  <1> QED BY <1>5, <1>6, <1>7, <1>8

\* A call reads rows.
LEMMA RowsAnew ==
    ASSUME TInv, CInv, NEW c \in DOMAIN call, memory' = memory, stream' = stream, NEW s,
           NEW ids \in SUBSET DOMAIN memory, s.req = call[c].req, s.seen = Restrict(memory, ids),
           s.claims = call[c].claims, s.stream = call[c].stream,
           s.pc \notin Placing \cup Looking, s.pc \in Erasing => ~NothingDeleted,
           s.pc \in Holding =>
               ids # {} /\ \A i \in ids : memory[i].stream = call[c].stream
    PROVE  Anew(c, s)
  <1>1. CallTyped(call[c]) /\ (NothingDeleted => CallCounted(call[c], memory, stream))
    BY DEF TInv, CallsTyped, CInv, CallsCounted
  <1>2. DOMAIN s.seen = ids /\ \A i \in ids : s.seen[i] = memory[i]
    BY DEF Restrict
  <1>3. IsFiniteSet(ids) /\ \A i \in ids : RowTyped(memory[i])
    BY FS_Subset DEF TInv, RowsTyped
  <1>4. CallTyped(s)
    BY <1>1, <1>2, <1>3 DEF CallTyped
  <1>5. NothingDeleted => CallCounted(s, memory, stream)
    BY <1>1, <1>2 DEF CallCounted
  <1> QED BY <1>4, <1>5 DEF Anew, Op, Req

LEMMA SourcesOfStream ==
    ASSUME TInv, NEW c \in DOMAIN call, NEW h \in Sources(c)
    PROVE  h # {} /\ \A i \in h : i \in DOMAIN memory /\ memory[i].stream = call[c].stream
  <1> DEFINE live == {i \in DOMAIN memory : /\ Live(i) /\ memory[i].stream = call[c].stream
                                            /\ Matches(memory[i].owner, call[c].scope)}
             n == Cardinality(live)
  <1>1. IsFiniteSet(live) /\ n \in Nat
    BY FS_Subset, FS_CardinalityType DEF TInv, RowsTyped
  <1>2. h \subseteq live
    BY DEF Sources, kSubset
  <1>3. CASE Op(c) = "compress"
    BY <1>2, <1>3 DEF Sources
  <1>4. CASE Op(c) # "compress"
    <2>1. n >= MinMembers /\ Cardinality(h) = n \div 2
      BY <1>1, <1>4, MembersAssumption DEF Sources, kSubset
    <2> HIDE DEF n
    <2>2. n \div 2 >= 1
      BY <1>1, <2>1, MembersAssumption
    <2>3. Cardinality(h) # 0
      BY <1>1, <2>1, <2>2
    <2> QED BY <1>2, <2>3, FS_EmptySet
  <1> QED BY <1>2, <1>3, <1>4

LEMMA ReadsGo ==
    ASSUME IInv, TInv, CInv, NEW c \in DOMAIN call, GetMemory(c) \/ SeeMemory(c) \/ SelectSources(c)
    PROVE  CallsGo
  <1>1. memory' = memory /\ stream' = stream
    BY DEF GetMemory, SeeMemory, SelectSources, StreamRead, ReadOnly
  <1>2. \A a : Set(c, End(c, a)) => CallsGo
    BY EndRetains, OneGoes
  <1>3. \A p : /\ CallFields \subseteq DOMAIN Goto(c, p) /\ Goto(c, p).req = call[c].req
              /\ Goto(c, p).pc = p /\ Goto(c, p).stream = call[c].stream
              /\ Goto(c, p).claims = call[c].claims
    BY RecordFields DEF Goto, CallFields
  <1>4. CASE GetMemory(c)
    <2> DEFINE id == call[c].id
               p == IF Op(c) = "deleteOwned" THEN "deleteOwned" ELSE "update"
               g == Goto(c, p)
               m == Restrict(memory, {id})
               at == IF IsOwned(c) THEN g.cutoff ELSE clock
               s == [g EXCEPT !.cutoff = at, !.seen = m]
    <2>1. Set(c, End(c, "error")) \/ (Set(c, s) /\ id \in DOMAIN memory)
      BY <1>4 DEF GetMemory, Unexpired
    <2>2. p = "update" \/ (p = "deleteOwned" /\ Op(c) \in Deleting)
      BY DEF Deleting
    <2>3. /\ CallFields \subseteq DOMAIN g /\ g.req = call[c].req
          /\ g.pc = p /\ g.stream = call[c].stream /\ g.claims = call[c].claims
      BY <1>3
    <2> HIDE DEF g, m, at
    <2>4. /\ s.req = call[c].req /\ s.pc = p /\ s.seen = m
          /\ s.stream = call[c].stream /\ s.claims = call[c].claims
      BY <2>3 DEF CallFields
    <2> HIDE DEF s, p
    <2>5. /\ s.pc \notin Placing \cup Looking \cup Holding
          /\ s.pc \in Erasing => ~NothingDeleted
      BY <2>2, <2>4 DEF Placing, Looking, Holding, Erasing, NothingDeleted
    <2>6. id \in DOMAIN memory => Anew(c, s)
      BY <1>1, <2>4, <2>5, RowsAnew DEF m
    <2> QED BY <1>2, <2>1, <2>6, OneGoes
  <1>5. CASE SeeMemory(c)
    <2>1. PICK i \in call[c].todo :
            Set(c, [Goto(c, "delete") EXCEPT
                       !.id = i, !.todo = @ \ {i}, !.cutoff = clock,
                       !.seen = Restrict(memory, DOMAIN memory \cap {i})])
      BY <1>5 DEF SeeMemory
    <2> DEFINE ids == DOMAIN memory \cap {i}
               m == Restrict(memory, ids)
               g == Goto(c, "delete")
               s == [g EXCEPT !.id = i, !.todo = @ \ {i}, !.cutoff = clock, !.seen = m]
    <2>2. Set(c, s) /\ call[c].pc = "next"
      BY <1>5, <2>1 DEF SeeMemory, At
    <2>3. /\ CallFields \subseteq DOMAIN g /\ g.req = call[c].req
          /\ g.pc = "delete" /\ g.stream = call[c].stream /\ g.claims = call[c].claims
      BY <1>3
    <2> HIDE DEF g, m
    <2>4. /\ s.req = call[c].req /\ s.pc = "delete" /\ s.seen = m
          /\ s.stream = call[c].stream /\ s.claims = call[c].claims
      BY <2>3 DEF CallFields
    <2> HIDE DEF s
    <2>5. ~NothingDeleted
      BY <2>2 DEF CInv, CallsCounted, CallCounted, Erasing
    <2>6. Anew(c, s)
      BY <1>1, <2>4, <2>5, RowsAnew DEF m, Placing, Looking, Holding
    <2> QED BY <2>2, <2>6, OneGoes
  <1>6. CASE SelectSources(c)
    <2>1. CASE Sources(c) = {}
      BY <1>2, <1>6, <2>1 DEF SelectSources, Derived
    <2>2. CASE \E h \in Sources(c) :
                  Set(c, [Goto(c, "generate") EXCEPT !.seen = Restrict(memory, h)])
      <3>1. PICK h \in Sources(c) : Set(c, [Goto(c, "generate") EXCEPT !.seen = Restrict(memory, h)])
        BY <2>2
      <3> DEFINE m == Restrict(memory, h)
                 g == Goto(c, "generate")
                 s == [g EXCEPT !.seen = m]
      <3>2. Set(c, s)
        BY <3>1
      <3>3. /\ CallFields \subseteq DOMAIN g /\ g.req = call[c].req
            /\ g.pc = "generate" /\ g.stream = call[c].stream /\ g.claims = call[c].claims
        BY <1>3
      <3> HIDE DEF g, m
      <3>4. /\ s.req = call[c].req /\ s.pc = "generate" /\ s.seen = m
            /\ s.stream = call[c].stream /\ s.claims = call[c].claims
        BY <3>3 DEF CallFields
      <3> HIDE DEF s
      <3>5. h # {} /\ h \subseteq DOMAIN memory /\ \A i \in h : memory[i].stream = call[c].stream
        BY SourcesOfStream
      <3>6. Anew(c, s)
        BY <1>1, <3>4, <3>5, RowsAnew DEF m, Placing, Looking, Erasing
      <3> QED BY <3>2, <3>6, OneGoes
    <2> QED BY <1>6, <2>1, <2>2 DEF SelectSources
  <1> QED BY <1>4, <1>5, <1>6

\* What the gate lets through is made of sentences.
LEMMA GateTexts ==
    ASSUME NEW src, NEW cands, NEW kept \in Gate(src, cands), NEW k \in kept,
           \A d \in cands : "text" \in DOMAIN d /\ d.text \in DOMAIN Sentence
    PROVE  k.text \in DOMAIN Sentence
  <1> DEFINE valid == {Requalified(d) : d \in {x \in cands : Valid(src, x)}}
             claims == {Claim(src, d) : d \in valid}
  <1>1. kept \in Budgeted(claims)
    BY DEF Gate
  <1>2. k \in claims
    BY <1>1 DEF Budgeted
  <1>3. PICK v \in valid : k = Claim(src, v)
    BY <1>2
  <1>4. PICK d \in cands : Valid(src, d) /\ v = Requalified(d)
    BY <1>3
  <1> HIDE DEF valid, claims
  <1>5. v.text = d.text
    BY <1>4 DEF Requalified
  <1>6. k.text = v.text
    BY <1>3 DEF Claim
  <1> QED BY <1>5, <1>6

LEMMA AcceptedTexts ==
    ASSUME TInv, NEW c \in DOMAIN call, NEW kept \in Accepted(c), NEW k \in kept
    PROVE  k.text \in DOMAIN Sentence
  <1> DEFINE src == call[c].seen
  <1>1. PICK cands \in IF Req(c).provider THEN Proposed(src) ELSE {Extracted(src)} :
            kept \in Gate(src, cands)
    <2>1. Cardinality(Owners(c)) = 1
      BY DEF Accepted
    <2> QED BY <2>1 DEF Accepted
  <1>2. \A i \in DOMAIN src : src[i].text \subseteq DOMAIN Sentence
    BY DEF TInv, CallsTyped, CallTyped, RowTyped, WellTyped
  <1>3. \A d \in Extracted(src) : "text" \in DOMAIN d /\ d.text \in DOMAIN Sentence
    BY <1>2 DEF Extracted, Candidate
  <1>4. \A x \in Proposed(src) : \A d \in x : "text" \in DOMAIN d /\ d.text \in DOMAIN Sentence
    BY DEF Proposed, Candidate
  <1>5. \A d \in cands : "text" \in DOMAIN d /\ d.text \in DOMAIN Sentence
    BY <1>1, <1>3, <1>4
  <1> QED BY <1>1, <1>5, GateTexts

LEMMA GenerateGoes ==
    ASSUME IInv, TInv, CInv, NEW c \in DOMAIN call, Generate(c)
    PROVE  CallsGo
  <1>1. memory' = memory /\ stream' = stream /\ call[c].pc = "generate"
    BY DEF Generate, StreamRead, ReadOnly, At
  <1>2. CASE Set(c, Derived(c, "deferred"))
    BY <1>2, EndRetains, OneGoes DEF Derived
  <1>3. CASE \E k \in Accepted(c) : Set(c, [Goto(c, "published") EXCEPT !.claims = k])
    <2>1. PICK k \in Accepted(c) : Set(c, [Goto(c, "published") EXCEPT !.claims = k])
      BY <1>3
    <2> DEFINE g == Goto(c, "published")
               s == [g EXCEPT !.claims = k]
    <2>2. Set(c, s)
      BY <2>1
    <2>3. /\ CallFields \subseteq DOMAIN g /\ g.req = call[c].req
          /\ g.pc = "published" /\ g.stream = call[c].stream /\ g.seen = call[c].seen
      BY RecordFields DEF Goto, CallFields
    <2> HIDE DEF g
    <2>4. /\ s.req = call[c].req /\ s.pc = "published" /\ s.claims = k
          /\ s.stream = call[c].stream /\ s.seen = call[c].seen
      BY <2>3 DEF CallFields
    <2> HIDE DEF s
    <2>5. CallTyped(call[c]) /\ (NothingDeleted => CallCounted(call[c], memory, stream))
      BY DEF TInv, CallsTyped, CInv, CallsCounted
    <2>6. CallTyped(s)
      BY <1>1, <2>4, <2>5, AcceptedTexts DEF CallTyped, Holding
    <2>7. NothingDeleted => CallCounted(s, memory, stream)
      BY <1>1, <2>4, <2>5 DEF CallCounted, Holding, Placing, Erasing, Looking
    <2>8. Anew(c, s)
      BY <1>1, <2>4, <2>6, <2>7 DEF Anew, Op, Req
    <2> QED BY <2>2, <2>8, OneGoes
  <1> QED BY <1>2, <1>3 DEF Generate

-----------------------------------------------------------------------------
(* All steps of calls *)

LEMMA HandleGoes ==
    ASSUME IInv, DInv, TInv, CInv, NEW c \in DOMAIN call, Handle(c)
    PROVE  CallsGo
  <1> DEFINE op == OpFor(c)
             owner == OwnerFor(c)
             r == call[c]
             s == [r EXCEPT !.req.op = op, !.req.owner = owner]
  <1>1. OnlyCall(c, End(c, "error")) \/ OnlyCall(c, s)
    BY DEF Handle
  <1>2. \/ op = Op(c)
        \/ Op(c) = "update" /\ op = "updateOwned"
        \/ Op(c) = "delete" /\ op = "deleteOwned"
    BY DEF OpFor
  <1>3. memory' = memory /\ stream' = stream /\ \A x : OnlyCall(c, x) => Set(c, x)
    BY <1>1 DEF OnlyCall, StorageUnchangedBut, Set
  <1>4. /\ CallFields \subseteq DOMAIN r /\ ReqFields \subseteq DOMAIN r.req
        /\ Op(c) = r.req.op /\ Req(c) = r.req
        /\ {"name", "text", "until", "status", "scope"} \subseteq DOMAIN r.req
        /\ CallTyped(r) /\ (NothingDeleted => CallCounted(r, memory, stream))
    BY DEF IInv, CallsInv, CallOK, DInv, CallsOfDocs, DocFields, TInv, CallsTyped, CallTyped,
         CInv, CallsCounted, Op, Req
  <1> HIDE DEF op, owner, r
  <1>5. /\ DOMAIN s.req = DOMAIN r.req /\ s.req.op = op /\ s.req.key = r.req.key
        /\ s.req.name = r.req.name /\ s.req.text = r.req.text /\ s.req.until = r.req.until
        /\ s.req.status = r.req.status /\ s.req.scope = r.req.scope
        /\ s.pc = r.pc /\ s.stream = r.stream /\ s.seen = r.seen /\ s.claims = r.claims
    BY <1>4 DEF CallFields, ReqFields
  <1> HIDE DEF s
  <1>6. CallTyped(s)
    BY <1>4, <1>5 DEF CallTyped, WellTyped
  <1>7. NothingDeleted => CallCounted(s, memory, stream)
    BY <1>2, <1>4, <1>5 DEF CallCounted
  <1>8. Anew(c, s)
    BY <1>2, <1>3, <1>4, <1>5, <1>6, <1>7 DEF Anew, Deleting
  <1> QED BY <1>1, <1>3, <1>8, EndRetains, OneGoes

LEMMA ServeGoes ==
    ASSUME IInv, TInv, CInv, NEW c \in DOMAIN call, CallStep(c)
    PROVE  CallsGo
  <1>1. PICK s : Set(c, s)
    BY SetsSome
  <1>2. call'[c] = s
    BY <1>1, SetsOne
  <1>3. Retains(c, call'[c]) => CallsGo
    BY <1>1, <1>2, OneGoes
  <1>4. CASE MemoryStep(c)
    <2>1. CASE \/ StartAdd(c) \/ SearchDuplicates(c) \/ InsertMemory(c) \/ Readback(c)
               \/ StartIndexed(c) \/ CreateIndexed(c) \/ GetIndexed(c)
      BY <1>3, <2>1, AddGoes
    <2>2. CASE \/ StartGet(c) \/ WriteUpdate(c) \/ GetUpdated(c) \/ DeleteOwned(c)
               \/ StartDelete(c) \/ StartDeleteAll(c) \/ WriteDelete(c) \/ AllDeleted(c)
               \/ StartSweep(c) \/ SweepOne(c) \/ CountSwept(c) \/ SweepFails(c) \/ SweepEnds(c)
      BY <1>3, <2>2, EraseGoes
    <2>3. CASE GetMemory(c) \/ SeeMemory(c)
      BY <2>3, ReadsGo
    <2> QED BY <1>4, <2>1, <2>2, <2>3 DEF MemoryStep
  <1>5. CASE Abandon(c)
    BY <1>5, EndRetains, OneGoes DEF Abandon
  <1>6. CASE StreamStep(c)
    <2>1. CASE \/ CreateStream(c) \/ SetStatus(c) \/ SeeCounter(c) \/ ListMembers(c)
               \/ DropStream(c) \/ StartCompress(c) \/ StartSummarize(c)
               \/ CheckPublished(c) \/ Publish(c) \/ Confirm(c)
      BY <1>3, <2>1, StreamGoes
    <2>2. CASE StartAddTo(c) \/ LoadStream(c) \/ StartDeleteStream(c)
      BY <2>2, LearnGoes
    <2>3. CASE SelectSources(c)
      BY <2>3, ReadsGo
    <2>4. CASE Generate(c)
      BY <2>4, GenerateGoes
    <2> QED BY <1>6, <2>1, <2>2, <2>3, <2>4 DEF StreamStep
  <1>7. CASE DocumentStep(c)
    <2>1. CASE CreateMap(c) \/ ReadMap(c) \/ EditMap(c) \/ FindMap(c) \/ DropMap(c) \/ UnlinkMaps(c)
      BY <1>3, <2>1, MapGoes
    <2>2. CASE \/ FindStep(c) \/ CreateStep(c) \/ RefetchStep(c) \/ CompleteStep(c) \/ SetStep(c)
               \/ CreateEntity(c) \/ CreateRelation(c) \/ DeleteRelation(c) \/ DeleteEntity(c)
               \/ ReadEntity(c) \/ UpdateEntity(c)
      BY <1>3, <2>2, StepGoes
    <2>3. CASE FindStreamOfStep(c)
      BY <2>3, LearnGoes
    <2> QED BY <1>7, <2>1, <2>2, <2>3 DEF DocumentStep
  <1> QED BY <1>4, <1>5, <1>6, <1>7 DEF CallStep

\* The tables of the storage, the clock and what may still fail.
TablesSame == UNCHANGED <<memory, history, stream, clock, left, docVars>>

LEMMA OnlyGoes ==
    ASSUME NEW c, NEW s, OnlyCall(c, s), c \in DOMAIN call => Retains(c, s) \/ s = call[c]
    PROVE  CallsGo /\ TablesSame
  <1>1. Set(c, s) /\ TablesSame
    BY DEF OnlyCall, StorageUnchangedBut, Set, TablesSame
  <1> QED BY <1>1, OneGoes

LEMMA StaysPut ==
    ASSUME StorageUnchangedBut(call)
    PROVE  CallsGo /\ TablesSame
  BY NoneGoes DEF StorageUnchangedBut, TablesSame

LEMMA StartGoes ==
    ASSUME IInv, NEW h \in DOMAIN start, StartStep(h)
    PROVE  CallsGo /\ TablesSame
  <1>1. CASE Statement(h) \/ Inspect(h) \/ Normalise(h) \/ RecordVersion(h) \/ Validate(h)
    BY <1>1, StaysPut DEF Statement, Inspect, Normalise, RecordVersion, Validate
  <1>2. CASE Succeeds(h) \/ Fails(h)
    <2>1. \/ StorageUnchangedBut(call)
          \/ OnlyCall(h, call[h])
          \/ \E a : OnlyCall(h, End(h, a))
      BY <1>2 DEF Succeeds, Fails, EndOfMain, EndOfRepair, EndOfRequest
    <2> QED BY <2>1, StaysPut, EndRetains, OnlyGoes
  <1> QED BY <1>1, <1>2 DEF StartStep

LEMMA CrashGoes ==
    ASSUME IInv, NEW p \in Processes, Crash(p)
    PROVE  CallsGo /\ TablesSame
  <1>1. PICK lost : call' = [c \in DOMAIN call |-> IF c \in lost THEN End(c, "dropped") ELSE call[c]]
    BY DEF Crash, StorageUnchangedBut
  <1>2. TablesSame
    BY DEF Crash, StorageUnchangedBut, TablesSame
  <1>3. \A c \in DOMAIN call : call'[c] = call[c] \/ Retains(c, call'[c])
    BY <1>1, EndRetains
  <1>4. DOMAIN call' = DOMAIN call
    BY <1>1
  <1> QED BY <1>2, <1>3, <1>4 DEF CallsGo

LEMMA RefusedGoes ==
    ASSUME IInv, NEW c \in DOMAIN call, IndexRefuses(c)
    PROVE  CallsGo /\ TablesSame
  <1>1. \/ OnlyCall(c, Goto(c, "recheck"))
        \/ OnlyCall(c, Goto(c, "thrown"))
        \/ OnlyCall(c, End(c, "error"))
    BY DEF IndexRefuses
  <1>2. Retains(c, Goto(c, "recheck")) /\ Retains(c, Goto(c, "thrown"))
    BY GotoRetains DEF Holding, Placing, Erasing, Looking
  <1> QED BY <1>1, <1>2, EndRetains, OnlyGoes

\* A step is one of a call in the storage, the clock's, or it touches calls only.
LEMMA AllGo ==
    ASSUME IInv, DInv, TInv, CInv, [Next]_vars
    PROVE  /\ CallsGo
           /\ \/ \E c \in DOMAIN call : CallStep(c) /\ dims' = Dims(c)
              \/ Tick /\ UNCHANGED <<derivations, docVars, dims>>
              \/ TablesSame /\ dims' = dims
  <1>1. ASSUME NEW c \in DOMAIN call,
               \/ Serve(c) \/ IndexRefuses(c) \/ Authenticate(c) \/ RequestStep(c)
               \/ Disconnect(c) \/ BeginSweep(c) \/ StartRepair(c)
        PROVE  CallsGo /\ ((CallStep(c) /\ dims' = Dims(c)) \/ (TablesSame /\ dims' = dims))
    <2>1. CASE Serve(c)
      BY <2>1, ServeGoes DEF Serve
    <2>2. CASE IndexRefuses(c)
      BY <2>2, RefusedGoes DEF IndexRefuses, serverVars
    <2>3. CASE Authenticate(c)
      <3>1. (OnlyCall(c, call[c]) \/ OnlyCall(c, End(c, "refused"))) /\ dims' = dims
        BY <2>3 DEF Authenticate
      <3> QED BY <3>1, EndRetains, OnlyGoes
    <2>4. CASE Initialise(c) \/ Resolve(c) \/ BeginSweep(c) \/ StartRepair(c)
      BY <2>4, StaysPut DEF Initialise, Resolve, BeginSweep, StartRepair
    <2>5. CASE Handle(c)
      <3>1. TablesSame /\ dims' = dims
        BY <2>5, Zenon DEF Handle, OnlyCall, StorageUnchangedBut, TablesSame
      <3> QED BY <2>5, <3>1, HandleGoes
    <2>6. CASE Disconnect(c)
      BY <2>6, EndRetains, OnlyGoes DEF Disconnect
    <2> QED BY <1>1, <2>1, <2>2, <2>3, <2>4, <2>5, <2>6 DEF RequestStep
  <1>2. ASSUME NEW h \in DOMAIN start, StartStep(h) PROVE CallsGo /\ TablesSame /\ dims' = dims
    <2>1. dims' = dims
      BY <1>2 DEF StartStep, Statement, Inspect, Normalise, RecordVersion, Validate, Succeeds, Fails
    <2> QED BY <1>2, <2>1, StartGoes
  <1>3. ASSUME NEW p \in Processes, Boot(p) \/ Crash(p) PROVE CallsGo /\ TablesSame /\ dims' = dims
    BY <1>3, StaysPut, CrashGoes DEF Boot, Crash
  <1>4. CASE Tick /\ UNCHANGED <<derivations, docVars, serverVars>>
    BY <1>4, NoneGoes DEF Tick, serverVars
  <1>5. CASE UNCHANGED vars
    BY <1>5, NoneGoes DEF vars, storageVars, storeVars, serverVars, TablesSame
  <1> QED BY <1>1, <1>2, <1>3, <1>4, <1>5 DEF Next

-----------------------------------------------------------------------------
(* What steps do to the tables *)

Summed(s) == {i \in Members(s) : memory[i].active}

Untouched(s) == \A h \in history : h.type = "updated" => h.id \notin Members(s)

\* A counter, and the sum it is at least or, if its stream is counted alone, just.
Covers(n, sum, alone) == n >= sum /\ (alone => n = sum)

Counters ==
    \A s \in DOMAIN stream :
        Untouched(s) => Covers(stream[s].tokens, Total(memory, Summed(s)), CountedAlone(s))

\* The same after a step, by what was asked for before it.
CountersAfter ==
    \A s \in DOMAIN stream' :
        Untouched(s)' => Covers(stream'[s].tokens, Total(memory', Summed(s)'),
                                s \in DOMAIN stream => CountedAlone(s))

\* The types and the counters after a step.
TablesKeep ==
    /\ RowsTyped' /\ StreamsTyped' /\ HistoryTyped' /\ StoreGrows
    /\ NothingDeleted => RowsPlaced' /\ CountersAfter

LEMMA CountersNow ==
    ASSUME CInv, NothingDeleted
    PROVE  Counters /\ RowsPlaced /\ CallsCounted
  BY DEF CInv, NothingDeleted, CounterExact, Counters, Covers, Untouched, Summed

\* What is asked for with others of the name was so before, too.
LEMMA AloneBefore ==
    ASSUME CallsGo, StoreGrows, NothingDeleted, NEW s \in DOMAIN stream, CountedAlone(s)'
    PROVE  CountedAlone(s)
  <1> SUFFICES ASSUME NEW c \in DOMAIN call, Op(c) = "addTo", s \in Asked(c), NEW t \in Asked(c)
               PROVE  t = s
    BY DEF CountedAlone
  <1>1. /\ c \in DOMAIN call' /\ Op(c)' = "addTo"
        /\ Req(c)'.name = Req(c).name /\ Req(c)'.scope = Req(c).scope
    BY DEF CallsGo, Retains, Anew, Op, Req
  <1>2. \A r \in Asked(c) : r \in Asked(c)'
    BY <1>1 DEF Asked, Named, Matches, StoreGrows, SameStream
  <1> QED BY <1>1, <1>2 DEF CountedAlone

LEMMA SummedTexts ==
    ASSUME RowsTyped, NEW ids \in SUBSET DOMAIN memory
    PROVE  Texts(memory, ids)
  BY FS_Subset DEF RowsTyped, RowTyped, WellTyped, Texts

LEMMA SameTables ==
    ASSUME TInv, CInv, memory' = memory, stream' = stream, history' = history
    PROVE  TablesKeep
  <1>1. RowsTyped' /\ StreamsTyped' /\ HistoryTyped'
    BY DEF TInv, RowsTyped, StreamsTyped, HistoryTyped
  <1>2. StoreGrows
    BY DEF StoreGrows, SameStream
  <1>3. RowsPlaced => RowsPlaced'
    BY DEF RowsPlaced
  <1>4. Counters => CountersAfter
    BY DEF Counters, CountersAfter, Covers, Untouched, Summed, Members
  <1> QED BY <1>1, <1>2, <1>3, <1>4, CountersNow DEF TablesKeep

\* The tokens of a row that comes are counted where it is, and elsewhere only if
\* the add asked for more streams than one.
CountedWith(row) ==
    /\ row.stream \in DOMAIN stream \cup {None}
    /\ \A s \in DOMAIN stream :
         /\ SameStream(s)
         /\ s # row.stream => Covers(stream'[s].tokens, stream[s].tokens, CountedAlone(s))
         /\ s = row.stream => stream'[s].tokens = stream[s].tokens + Tokens(row.text)

LEMMA RowAdded ==
    ASSUME TInv, CInv, NEW i, NEW row, NEW new, i \notin DOMAIN memory, RowTyped(row), row.active,
           memory' = With(memory, i, row), history' = history \cup {new}, new.type = "created",
           StreamsTyped', DOMAIN stream' = DOMAIN stream,
           NothingDeleted => CountedWith(row)
    PROVE  TablesKeep
  <1>1. /\ DOMAIN memory' = DOMAIN memory \cup {i} /\ memory'[i] = row
        /\ \A j \in DOMAIN memory : memory'[j] = memory[j]
    <2>1. memory' = With(memory, i, row) /\ i \notin DOMAIN memory
      OBVIOUS
    <2> QED BY <2>1 DEF With
  <1>2. RowsTyped'
    BY <1>1, FS_AddElement DEF TInv, RowsTyped
  <1>3. HistoryTyped'
    BY DEF TInv, HistoryTyped
  <1>4. StoreGrows
    BY <1>1 DEF StoreGrows, CountedWith
  <1>5. ASSUME NothingDeleted PROVE RowsPlaced'
    BY <1>1, <1>5, CountersNow DEF RowsPlaced, CountedWith
  <1>6. ASSUME NothingDeleted, NEW s \in DOMAIN stream, Untouched(s)'
        PROVE  Covers(stream'[s].tokens, Total(memory', Summed(s)'), CountedAlone(s))
    <2>1. Members(s)' = Members(s) \cup (IF row.stream = s THEN {i} ELSE {})
      BY <1>1 DEF Members
    <2>2. Untouched(s)
      BY <1>6, <2>1 DEF Untouched
    <2>3. Covers(stream[s].tokens, Total(memory, Summed(s)), CountedAlone(s))
      BY <1>6, <2>2, CountersNow DEF Counters
    <2>4. Summed(s)' = Summed(s) \cup (IF row.stream = s THEN {i} ELSE {})
      BY <1>1, <2>1 DEF Summed, Members
    <2>5. Summed(s) \subseteq DOMAIN memory
      BY DEF Summed, Members
    <2>6. Total(memory', Summed(s)) = Total(memory, Summed(s))
      BY <1>1, <2>5, TotalSame
    <2>9. /\ Total(memory, Summed(s)) \in Nat
          /\ stream[s].tokens \in Nat /\ stream'[s].tokens \in Nat
      BY <1>6, <2>5, SummedTexts, TotalNat DEF TInv, StreamsTyped
    <2>7. CASE row.stream # s
      <3>1. Summed(s)' = Summed(s)
        BY <2>4, <2>7
      <3>2. Covers(stream'[s].tokens, stream[s].tokens, CountedAlone(s))
        BY <1>6, <2>7 DEF CountedWith
      <3> QED BY <2>3, <2>6, <2>9, <3>1, <3>2 DEF Covers
    <2>8. CASE row.stream = s
      <3>1. Summed(s)' = Summed(s) \cup {i}
        BY <2>4, <2>8
      <3>2. Total(memory', {i}) = Tokens(row.text)
        BY <1>1, TotalOne DEF RowTyped, WellTyped
      <3>3. Texts(memory', Summed(s)) /\ Texts(memory', {i})
        BY <1>1, <1>2, <2>5, FS_Subset, FS_Singleton DEF RowsTyped, RowTyped, WellTyped, Texts
      <3>4. Summed(s) \cap {i} = {}
        BY <2>5
      <3> DEFINE old == Summed(s)
      <3> HIDE DEF old
      <3>5. Total(memory', old \cup {i}) = Total(memory', old) + Total(memory', {i})
        BY <3>3, <3>4, TotalSplit DEF old
      <3>6. stream'[s].tokens = stream[s].tokens + Tokens(row.text)
        BY <1>6, <2>8 DEF CountedWith
      <3>7. Tokens(row.text) \in Nat
        BY TokensNat DEF RowTyped, WellTyped
      <3> QED BY <2>3, <2>6, <2>9, <3>1, <3>2, <3>5, <3>6, <3>7 DEF old, Covers
    <2> QED BY <2>7, <2>8
  <1>7. NothingDeleted => CountersAfter
    BY <1>6 DEF CountersAfter, Covers
  <1> QED BY <1>2, <1>3, <1>4, <1>5, <1>7 DEF TablesKeep

LEMMA NewMemoryTyped ==
    ASSUME NEW c \in DOMAIN call, CallTyped(call[c])
    PROVE  /\ RowTyped(NewMemory(c)) /\ NewMemory(c).active
           /\ NewMemory(c).stream = call[c].stream /\ NewMemory(c).text = Req(c).text
  BY DEF NewMemory, NewRow, RowTyped, WellTyped, TypedFields, CallTyped, Req

\* The first history row of a row.
LEMMA CreatedRow ==
    ASSUME NEW i, NEW text, NEW key
    PROVE  HistoryRow(i, 1, "created", text, key).type = "created"
  BY DEF HistoryRow

LEMMA CountedStreams ==
    ASSUME TInv, NEW c \in DOMAIN call, stream' = Counted(c)
    PROVE  /\ StreamsTyped' /\ DOMAIN stream' = DOMAIN stream
           /\ \A s \in DOMAIN stream :
                /\ SameStream(s)
                /\ s \in Asked(c) => stream'[s].tokens = stream[s].tokens + Tokens(Req(c).text)
                /\ s \notin Asked(c) => stream'[s].tokens = stream[s].tokens
  <1> DEFINE n == Tokens(Req(c).text)
             asked == Asked(c)
  <1>1. n \in Nat
    BY TokensNat DEF TInv, CallsTyped, CallTyped, WellTyped, Req
  <1>2. StreamsTyped
    BY DEF TInv
  <1> HIDE DEF n, asked
  <1>3. DOMAIN stream' = DOMAIN stream
    BY DEF Counted
  <1>4. \A s \in DOMAIN stream : stream[s].tokens \in Nat /\ StreamFields \subseteq DOMAIN stream[s]
    BY <1>2 DEF StreamsTyped
  <1>5. \A s \in DOMAIN stream :
          stream'[s] = IF s \in asked
                       THEN [stream[s] EXCEPT !.tokens = stream[s].tokens + n] ELSE stream[s]
    BY DEF Counted, n, asked, Asked
  <1>6. \A s \in DOMAIN stream :
          /\ StreamFields \subseteq DOMAIN stream'[s]
          /\ stream'[s].name = stream[s].name /\ stream'[s].owner = stream[s].owner
          /\ stream'[s].status = stream[s].status
          /\ s \in asked => stream'[s].tokens = stream[s].tokens + n
          /\ s \notin asked => stream'[s].tokens = stream[s].tokens
    BY <1>4, <1>5 DEF StreamFields
  <1>7. \A s \in DOMAIN stream : stream'[s].tokens \in Nat
    BY <1>1, <1>4, <1>6
  <1>8. StreamsTyped'
    BY <1>2, <1>3, <1>6, <1>7 DEF StreamsTyped
  <1> QED BY <1>3, <1>6, <1>8 DEF n, asked, SameStream

LEMMA InsertCounts ==
    ASSUME IInv, TInv, CInv, NEW c \in DOMAIN call, InsertMemory(c)
    PROVE  TablesKeep
  <1> DEFINE i == Req(c).key
             row == NewMemory(c)
             new == HistoryRow(i, 1, "created", Req(c).text, c)
  <1>1. call[c].pc = "insert" /\ Op(c) \in Adds
    BY DEF IInv, CallsInv, CallOK, PathOK, InsertMemory, At, Op, Req
  <1>2. Due(call[c], i)
    BY <1>1 DEF Due, DueKey, Op, Req
  <1>3. i \notin DOMAIN memory
    BY <1>2 DEF IInv, FreshInv
  <1>4. CallTyped(call[c])
    BY DEF TInv, CallsTyped
  <1>5. /\ RowTyped(row) /\ row.active /\ row.stream = call[c].stream /\ row.text = Req(c).text
        /\ new.type = "created"
    BY <1>4, NewMemoryTyped, CreatedRow
  <1>6. /\ memory' = With(memory, i, row) /\ history' = history \cup {new}
        /\ stream' = IF Op(c) = "addTo" THEN Counted(c) ELSE stream
    BY DEF InsertMemory, Insert, Log
  <1> HIDE DEF row, new, i
  <1>7. NothingDeleted => CallCounted(call[c], memory, stream) /\ RowsPlaced
    BY DEF CInv, CallsCounted
  <1>8. CASE Op(c) = "addTo"
    <2>1. stream' = Counted(c)
      BY <1>6, <1>8
    <2>2. NothingDeleted => row.stream \in Asked(c)
      BY <1>1, <1>5, <1>7, <1>8 DEF CallCounted, Placing, Asked, Named, Op, Req
    <2>3. \A s \in Asked(c) : CountedAlone(s) => \A t \in Asked(c) : t = s
      BY <1>8 DEF CountedAlone
    <2>4. /\ StreamsTyped' /\ DOMAIN stream' = DOMAIN stream
          /\ \A s \in DOMAIN stream :
                /\ SameStream(s)
                /\ s \in Asked(c) => stream'[s].tokens = stream[s].tokens + Tokens(Req(c).text)
                /\ s \notin Asked(c) => stream'[s].tokens = stream[s].tokens
      BY <2>1, CountedStreams
    <2>6. Tokens(Req(c).text) \in Nat /\ \A s \in DOMAIN stream : stream[s].tokens \in Nat
      BY <1>4, TokensNat DEF CallTyped, WellTyped, Req, TInv, StreamsTyped
    <2>7. ASSUME NothingDeleted, NEW s \in DOMAIN stream, s # row.stream
          PROVE  Covers(stream'[s].tokens, stream[s].tokens, CountedAlone(s))
      <3>1. CASE s \notin Asked(c)
        BY <2>4, <2>6, <3>1 DEF Covers
      <3>2. CASE s \in Asked(c)
        BY <2>2, <2>3, <2>4, <2>6, <2>7, <3>2 DEF Covers
      <3> QED BY <3>1, <3>2
    <2>8. row.stream \in Asked(c) => row.stream \in DOMAIN stream
      BY DEF Asked, Named
    <2>5. NothingDeleted => CountedWith(row)
      BY <1>5, <2>2, <2>4, <2>7, <2>8 DEF CountedWith
    <2> QED BY <1>3, <1>5, <1>6, <2>4, <2>5, RowAdded
  <1>9. CASE Op(c) # "addTo"
    <2>1. stream' = stream /\ Op(c) = "add"
      BY <1>1, <1>6, <1>9 DEF Adds
    <2>2. NothingDeleted => row.stream = None /\ None \notin DOMAIN stream
      BY <1>5, <1>7, <2>1 DEF CallCounted, RowsPlaced, Op, Req
    <2>3. NothingDeleted => CountedWith(row)
      BY <2>1, <2>2 DEF CountedWith, Covers, SameStream, TInv, StreamsTyped
    <2>4. StreamsTyped'
      BY <2>1 DEF TInv, StreamsTyped
    <2> QED BY <1>3, <1>5, <1>6, <2>1, <2>3, <2>4, RowAdded
  <1> QED BY <1>8, <1>9

LEMMA IndexCounts ==
    ASSUME IInv, TInv, CInv, NEW c \in DOMAIN call, CreateIndexed(c)
    PROVE  TablesKeep
  <1> DEFINE i == Req(c).key
             row == NewMemory(c)
             new == HistoryRow(i, 1, "created", Req(c).text, i)
  <1>1. call[c].pc = "create" /\ Op(c) = "index" /\ stream' = stream
    BY DEF IInv, CallsInv, CallOK, PathOK, CreateIndexed, At, Op, Req
  <1>2. CASE ~KeyFree(c)
    BY <1>1, <1>2, SameTables DEF CreateIndexed
  <1>3. CASE KeyFree(c)
    <2>1. i \notin DOMAIN memory
      BY <1>3 DEF KeyFree
    <2>2. CallTyped(call[c])
      BY DEF TInv, CallsTyped
    <2>3. /\ RowTyped(row) /\ row.active /\ row.stream = call[c].stream /\ row.text = Req(c).text
          /\ new.type = "created"
      BY <2>2, NewMemoryTyped, CreatedRow
    <2>4. memory' = With(memory, i, row) /\ history' = history \cup {new}
      BY <1>3 DEF CreateIndexed, Insert, Log
    <2> HIDE DEF row, new, i
    <2>5. NothingDeleted => CallCounted(call[c], memory, stream) /\ RowsPlaced
      BY DEF CInv, CallsCounted
    <2>6. NothingDeleted => row.stream = None /\ None \notin DOMAIN stream
      BY <1>1, <2>3, <2>5 DEF CallCounted, RowsPlaced, Op, Req
    <2>7. NothingDeleted => CountedWith(row)
      BY <1>1, <2>6 DEF CountedWith, Covers, SameStream, TInv, StreamsTyped
    <2>8. StreamsTyped'
      BY <1>1 DEF TInv, StreamsTyped
    <2> QED BY <1>1, <2>1, <2>3, <2>4, <2>7, <2>8, RowAdded
  <1> QED BY <1>2, <1>3

LEMMA UpdateCounts ==
    ASSUME IInv, TInv, CInv, NEW c \in DOMAIN call, WriteUpdate(c)
    PROVE  TablesKeep
  <1> DEFINE id == call[c].id
             text == Req(c).text
             v == memory[id].version + 1
             new == HistoryRow(id, v, "updated", text, c)
  <1>1. CASE ~StillThere(c)
    BY <1>1, SameTables DEF WriteUpdate
  <1>2. CASE StillThere(c)
    <2>1. id \in DOMAIN memory /\ stream' = stream
      BY <1>2 DEF StillThere, WriteUpdate
    <2>2. /\ memory' = [memory EXCEPT ![id].text = text, ![id].version = v]
          /\ history' = history \cup {new} /\ new.id = id /\ new.type = "updated"
      BY <1>2 DEF WriteUpdate, NextVersion, Log, HistoryRow
    <2>3. text \subseteq DOMAIN Sentence
      BY DEF TInv, CallsTyped, CallTyped, WellTyped, Req
    <2>4. RowTyped(memory[id])
      BY <2>1 DEF TInv, RowsTyped
    <2> HIDE DEF new, text, id
    <2>5. /\ DOMAIN memory' = DOMAIN memory
          /\ \A i \in DOMAIN memory : i # id => memory'[i] = memory[i]
          /\ memory'[id] = [memory[id] EXCEPT !.text = text, !.version = v]
      BY <2>1, <2>2
    <2>6. RowTyped(memory'[id]) /\ memory'[id].stream = memory[id].stream
      BY <2>3, <2>4, <2>5 DEF RowTyped, WellTyped, TypedFields
    <2>7. RowsTyped'
      BY <2>5, <2>6 DEF TInv, RowsTyped
    <2>8. StreamsTyped' /\ HistoryTyped'
      BY <2>1, <2>2 DEF TInv, StreamsTyped, HistoryTyped
    <2>9. \A i \in DOMAIN memory : memory'[i].stream = memory[i].stream
      BY <2>5, <2>6
    <2>10. StoreGrows
      BY <2>1, <2>5, <2>9 DEF StoreGrows, SameStream
    <2>11. RowsPlaced => RowsPlaced'
      BY <2>1, <2>5, <2>9 DEF RowsPlaced
    <2>12. ASSUME Counters, NEW s \in DOMAIN stream, Untouched(s)'
           PROVE  Covers(stream[s].tokens, Total(memory', Summed(s)'), CountedAlone(s))
      <3>1. Members(s)' = Members(s)
        BY <2>5, <2>9 DEF Members
      <3>2. Untouched(s) /\ id \notin Members(s)
        BY <2>2, <2>12, <3>1 DEF Untouched
      <3>3. \A i \in Members(s) : memory'[i] = memory[i]
        BY <2>5, <3>2 DEF Members
      <3>4. Summed(s)' = Summed(s) /\ \A i \in Summed(s) : memory'[i].text = memory[i].text
        BY <3>1, <3>3 DEF Summed
      <3>5. Total(memory', Summed(s)) = Total(memory, Summed(s))
        BY <3>4, TotalSame
      <3> QED BY <2>12, <3>2, <3>4, <3>5 DEF Counters
    <2>13. Counters => CountersAfter
      BY <2>1, <2>12 DEF CountersAfter, Covers
    <2> QED BY <2>7, <2>8, <2>10, <2>11, <2>13, CountersNow DEF TablesKeep
  <1> QED BY <1>1, <1>2

\* Where something is deleted only the types are at stake.
LEMMA RowsRemoved ==
    ASSUME TInv, ~NothingDeleted, NEW ids \in SUBSET DOMAIN memory, memory' = Restrict(memory, ids),
           StreamsTyped',
           history' = history \/ \E h : history' = history \cup {h} /\ h.type = "deleted"
    PROVE  TablesKeep
  <1>1. DOMAIN memory' = ids /\ \A i \in ids : memory'[i] = memory[i]
    BY DEF Restrict
  <1>2. RowsTyped'
    BY <1>1, FS_Subset DEF TInv, RowsTyped
  <1>3. HistoryTyped'
    BY DEF TInv, HistoryTyped
  <1> QED BY <1>2, <1>3 DEF TablesKeep, StoreGrows

LEMMA EraseCounts ==
    ASSUME IInv, TInv, CInv, NEW c \in DOMAIN call, DeleteOwned(c) \/ WriteDelete(c) \/ SweepOne(c)
    PROVE  TablesKeep
  <1>1. call[c].pc \in Erasing /\ stream' = stream
    BY DEF DeleteOwned, WriteDelete, SweepOne, At, Erasing
  <1>2. ~NothingDeleted
    BY <1>1 DEF CInv, CallsCounted, CallCounted
  <1>3. StreamsTyped'
    BY <1>1 DEF TInv, StreamsTyped
  <1>4. \A i, v, text, at : Deletion(i, v, text, c, at).type = "deleted"
    BY DeletionRow
  <1>5. \A i : (DOMAIN memory \ {i}) \in SUBSET DOMAIN memory
    OBVIOUS
  <1>6. CASE DeleteOwned(c)
    <2>1. \/ memory' = memory /\ history' = history
          \/ /\ memory' = Restrict(memory, DOMAIN memory \ {call[c].id})
             /\ history' = history \cup {Deletion(call[c].id, NextVersion(c),
                                                  memory[call[c].id].text, c, call[c].cutoff)}
      BY <1>6 DEF DeleteOwned, Log, Remove
    <2> QED BY <1>1, <1>2, <1>3, <1>4, <1>5, <2>1, SameTables, RowsRemoved
  <1>7. CASE WriteDelete(c)
    <2> DEFINE id == call[c].id
               old == call[c].seen[id]
               new == Deletion(id, old.version + 1, old.text, c, call[c].cutoff)
    <2>1. /\ memory' = Restrict(memory, DOMAIN memory \ {id})
          /\ history' = history \/ history' = history \cup {new}
      BY <1>7 DEF WriteDelete, Log, Remove
    <2>2. new.type = "deleted"
      BY <1>4
    <2> HIDE DEF new, id
    <2> QED BY <1>2, <1>3, <1>5, <2>1, <2>2, RowsRemoved
  <1>8. CASE SweepOne(c)
    <2>1. PICK i \in call[c].todo :
            IF StillExpired(c, i)
            THEN /\ Remove(i)
                 /\ Log(Deletion(i, memory[i].version + 1, memory[i].text, c, call[c].cutoff))
            ELSE UNCHANGED <<memory, history>>
      BY <1>8 DEF SweepOne
    <2> DEFINE new == Deletion(i, memory[i].version + 1, memory[i].text, c, call[c].cutoff)
    <2>2. \/ memory' = memory /\ history' = history
          \/ memory' = Restrict(memory, DOMAIN memory \ {i}) /\ history' = history \cup {new}
      BY <2>1 DEF Log, Remove
    <2>3. new.type = "deleted"
      BY <1>4
    <2> HIDE DEF new
    <2> QED BY <1>1, <1>2, <1>3, <1>5, <2>2, <2>3, SameTables, RowsRemoved
  <1> QED BY <1>6, <1>7, <1>8

-----------------------------------------------------------------------------
(* Streams that come, change and go *)

LEMMA StreamCounts ==
    ASSUME IInv, TInv, CInv, NEW c \in DOMAIN call, CreateStream(c)
    PROVE  TablesKeep
  <1> DEFINE key == Req(c).key
             row == NewStream(Req(c).name, Req(c).owner, 0)
             new == ~IsTaken(Req(c).name, Req(c).owner) /\ stream' = With(stream, key, row)
  <1>1. memory' = memory /\ history' = history /\ Op(c) = "createStream"
    BY DEF CreateStream, RowsUnchanged, Starts
  <1>2. stream' = stream \/ new
    BY DEF CreateStream
  <1>3. CASE stream' = stream
    BY <1>1, <1>3, SameTables
  <1>4. CASE new
    <2>1. /\ StreamFields \subseteq DOMAIN row /\ row.status = "active" /\ row.tokens = 0
          /\ row.name = Req(c).name /\ row.owner = Req(c).owner
      BY DEF NewStream, StreamFields
    <2>2. NothingDeleted => key # None
      BY <1>1 DEF CInv, CallsCounted, CallCounted, Op, Req
    <2>3. \A s \in DOMAIN stream : ~(stream[s].name = Req(c).name /\ stream[s].owner = Req(c).owner)
      BY <1>4 DEF IsTaken
    <2> HIDE DEF key, row
    <2>4. /\ DOMAIN stream' = DOMAIN stream \cup {key}
          /\ \A s \in DOMAIN stream : stream'[s] = stream[s]
          /\ key \notin DOMAIN stream => stream'[key] = row
      BY <1>4 DEF With
    <2>5. StreamsTyped'
      BY <2>1, <2>3, <2>4 DEF TInv, StreamsTyped
    <2>6. RowsTyped' /\ HistoryTyped' /\ StoreGrows
      BY <1>1, <2>4 DEF TInv, RowsTyped, HistoryTyped, StoreGrows, SameStream
    <2>7. NothingDeleted /\ RowsPlaced => RowsPlaced'
      BY <1>1, <2>2, <2>4 DEF RowsPlaced
    <2>8. ASSUME NothingDeleted, Counters, RowsPlaced, NEW s \in DOMAIN stream', Untouched(s)'
          PROVE  Covers(stream'[s].tokens, Total(memory', Summed(s)'),
                        s \in DOMAIN stream => CountedAlone(s))
      <3>1. Summed(s)' = Summed(s) /\ Untouched(s)
        BY <1>1, <2>8 DEF Summed, Untouched, Members
      <3>2. CASE s \in DOMAIN stream
        BY <1>1, <2>4, <2>8, <3>1, <3>2 DEF Counters, Covers
      <3>3. CASE s \notin DOMAIN stream
        <4>1. s = key /\ s # None
          BY <2>2, <2>4, <2>8, <3>3
        <4>2. Summed(s) = {}
          BY <2>8, <3>3, <4>1 DEF RowsPlaced, Summed, Members
        <4> QED BY <2>1, <2>4, <3>1, <3>3, <4>1, <4>2, TotalNone DEF Covers
      <3> QED BY <3>2, <3>3
    <2>9. NothingDeleted /\ Counters /\ RowsPlaced => CountersAfter
      BY <2>8 DEF CountersAfter
    <2> QED BY <2>5, <2>6, <2>7, <2>9, CountersNow DEF TablesKeep
  <1> QED BY <1>2, <1>3, <1>4

LEMMA StatusCounts ==
    ASSUME IInv, TInv, CInv, NEW c \in DOMAIN call, SetStatus(c)
    PROVE  TablesKeep
  <1> DEFINE to == IF Op(c) = "pause" THEN "paused" ELSE "archived"
  <1>1. memory' = memory /\ history' = history
    BY DEF SetStatus, RowsUnchanged
  <1>2. /\ DOMAIN stream' = DOMAIN stream
        /\ \A s \in DOMAIN stream :
              stream'[s] = IF s \in Asked(c) THEN [stream[s] EXCEPT !.status = to] ELSE stream[s]
    BY DEF SetStatus
  <1>3. to \in {"paused", "archived"}
    OBVIOUS
  <1> HIDE DEF to
  <1>4. StreamsTyped
    BY DEF TInv
  <1>5. \A s \in DOMAIN stream :
          /\ StreamFields \subseteq DOMAIN stream'[s] /\ SameStream(s)
          /\ stream'[s].tokens = stream[s].tokens
          /\ stream'[s].status \in {"active", "paused", "archived"}
    BY <1>2, <1>3, <1>4 DEF StreamsTyped, StreamFields, SameStream
  <1>6. StreamsTyped'
    BY <1>2, <1>4, <1>5 DEF StreamsTyped, SameStream
  <1>7. RowsTyped' /\ HistoryTyped' /\ StoreGrows
    BY <1>1, <1>2, <1>5 DEF TInv, RowsTyped, HistoryTyped, StoreGrows
  <1>8. RowsPlaced => RowsPlaced'
    BY <1>1, <1>2 DEF RowsPlaced
  <1>9. Counters => CountersAfter
    BY <1>1, <1>2, <1>5 DEF Counters, CountersAfter, Covers, Untouched, Summed, Members
  <1> QED BY <1>6, <1>7, <1>8, <1>9, CountersNow DEF TablesKeep

LEMMA DropCounts ==
    ASSUME IInv, TInv, CInv, NEW c \in DOMAIN call, DropStream(c)
    PROVE  TablesKeep
  <1>1. /\ memory' = memory /\ history' = history /\ call[c].pc \in Erasing
        /\ stream' = Restrict(stream, DOMAIN stream \ {call[c].stream})
    BY DEF DropStream, RowsUnchanged, At, Erasing
  <1>2. ~NothingDeleted
    BY <1>1 DEF CInv, CallsCounted, CallCounted
  <1>3. \A s \in DOMAIN stream' : s \in DOMAIN stream /\ stream'[s] = stream[s]
    BY <1>1 DEF Restrict
  <1>4. StreamsTyped'
    BY <1>3 DEF TInv, StreamsTyped
  <1> QED BY <1>1, <1>2, <1>4 DEF TablesKeep, StoreGrows, TInv, RowsTyped, HistoryTyped

-----------------------------------------------------------------------------
(* The publication of a summary *)

LEMMA MinIs ==
    ASSUME NEW S \in SUBSET Nat, S # {}
    PROVE  Min(S) \in S
  <1> DEFINE less == {p \in Nat \X Nat : p[1] < p[2]}
  <1>1. IsWellFoundedOn(less, Nat)
    BY NatLessThanWellFounded, Zenon DEF OpToRel
  <1>2. \A x \in S, y \in S : <<y, x>> \notin less => x <= y
    OBVIOUS
  <1> HIDE DEF less
  <1>3. \E x \in S : \A y \in S : <<y, x>> \notin less
    BY <1>1, WFMin
  <1>4. \E x \in S : \A y \in S : x <= y
    BY <1>2, <1>3
  <1> QED BY <1>4 DEF Min

LEMMA SummaryTyped ==
    ASSUME TInv, NEW c \in DOMAIN call, call[c].pc = "publish"
    PROVE  /\ RowTyped(Summary(c)) /\ Summary(c).active
           /\ Summary(c).stream = call[c].stream
           /\ Summary(c).text = Rendered(call[c].claims)
           /\ Summary(c).text \subseteq DOMAIN Sentence
  <1> DEFINE seen == call[c].seen
             untils == {seen[i].until : i \in DOMAIN seen}
             text == Rendered(call[c].claims)
             least == Min(untils)
             row == Summary(c)
  <1>1. CallTyped(call[c])
    BY DEF TInv, CallsTyped
  <1>2. text \subseteq DOMAIN Sentence
    BY <1>1, SentenceAssumption DEF CallTyped, Rendered
  <1>3. DOMAIN seen # {} /\ \A i \in DOMAIN seen : seen[i].until \in 0..MaxNow
    BY <1>1 DEF CallTyped, Holding, RowTyped, WellTyped
  <1>4. untils # {} /\ untils \in SUBSET (0..MaxNow)
    BY <1>3
  <1> HIDE DEF untils
  <1>5. untils \in SUBSET Nat
    BY <1>4, MaxNowAssumption
  <1>6. least \in 0..MaxNow
    BY <1>4, <1>5, MinIs
  <1>7. /\ TypedFields \subseteq DOMAIN row
        /\ row.text = text /\ row.until = least /\ row.stream = call[c].stream
        /\ row.version = 1 /\ row.active = TRUE
    BY DEF Summary, NewRow, TypedFields, untils
  <1> HIDE DEF row, text, least
  <1>8. row.text \subseteq DOMAIN Sentence /\ row.until \in 0..MaxNow
    BY <1>2, <1>6, <1>7
  <1>9. row.version \in Nat \ {0} /\ row.active \in BOOLEAN
    <2>1. row.version \in Nat \ {0}
      BY <1>7
    <2>2. row.active \in BOOLEAN
      BY <1>7, Zenon
    <2> QED BY <2>1, <2>2
  <1>10. RowTyped(row)
    BY <1>7, <1>8, <1>9 DEF RowTyped, WellTyped
  <1> QED BY <1>2, <1>7, <1>10 DEF row, text

\* What the counter of the stream is after it.
LEMMA RecountIs ==
    ASSUME IInv, TInv, NEW c \in DOMAIN call, call[c].pc = "publish", ~SourceDrift(c), NEW n \in Nat
    PROVE  /\ Recount(c, n) \in Nat
           /\ \A rest \in Nat : \A alone \in BOOLEAN :
                  Covers(n, Total(memory, DOMAIN call[c].seen) + rest, alone)
                      => Covers(Recount(c, n), rest + Tokens(Summary(c).text), alone)
  <1> DEFINE ids == DOMAIN call[c].seen
             src == Total(memory, ids)
             new == Tokens(Summary(c).text)
  <1>1. \A i \in ids : i \in DOMAIN memory /\ memory[i].text = call[c].seen[i].text
    BY SourcesAsRead
  <1>2. ids \in SUBSET DOMAIN memory
    BY <1>1
  <1>3. RowsTyped
    BY DEF TInv
  <1>4. src \in Nat
    BY <1>2, <1>3, SummedTexts, TotalNat
  <1>5. SourceTokens(c) = src
    BY <1>1, TotalSame DEF SourceTokens
  <1>6. new \in Nat /\ new = Tokens(Rendered(call[c].claims))
    BY SummaryTyped, TokensNat
  <1> HIDE DEF src, new
  <1>7. Recount(c, n) = (IF n > src THEN n - src ELSE 0) + new
    BY <1>5, <1>6 DEF Recount, Minus
  <1> QED BY <1>4, <1>6, <1>7 DEF src, new, Covers

LEMMA ArchivedTyped ==
    ASSUME NEW r, RowTyped(r), NEW n, n = [r EXCEPT !.active = FALSE, !.version = @ + 1]
    PROVE  RowTyped(n) /\ n.active = FALSE /\ n.stream = r.stream /\ n.text = r.text
  BY DEF RowTyped, WellTyped, TypedFields

\* The rows after it.
LEMMA RowsAfter ==
    ASSUME IInv, NEW c \in DOMAIN call, Publish(c), ~SourceDrift(c)
    PROVE  /\ call[c].pc = "publish"
           /\ DOMAIN memory' = DOMAIN memory \cup {Req(c).digest}
           /\ Req(c).digest \notin DOMAIN memory
           /\ memory'[Req(c).digest] = Summary(c)
           /\ \A i \in DOMAIN call[c].seen :
                /\ i \in DOMAIN memory /\ memory[i].active
                /\ memory'[i] = [memory[i] EXCEPT !.active = FALSE, !.version = @ + 1]
           /\ \A i \in DOMAIN memory \ DOMAIN call[c].seen : memory'[i] = memory[i]
  <1> DEFINE d == Req(c).digest
             row == Summary(c)
             ids == DOMAIN call[c].seen
             old == Archived(c)
  <1>1. memory' = With(old, d, row) /\ call[c].pc = "publish"
    BY DEF Publish, At
  <1>2. d \notin DOMAIN memory
    BY <1>1, DigestIsFresh
  <1>3. \A i \in ids : i \in DOMAIN memory /\ memory[i].active
    BY DEF SourceDrift
  <1>4. /\ DOMAIN old = DOMAIN memory
        /\ \A i \in DOMAIN memory :
              old[i] = IF i \in ids THEN [memory[i] EXCEPT !.active = FALSE, !.version = @ + 1]
                       ELSE memory[i]
    BY DEF Archived
  <1> HIDE DEF d, row, old, ids
  <1>5. /\ DOMAIN memory' = DOMAIN memory \cup {d} /\ memory'[d] = row
        /\ \A i \in DOMAIN memory : memory'[i] = old[i]
    BY <1>1, <1>2, <1>4 DEF With
  <1> QED BY <1>1, <1>2, <1>3, <1>4, <1>5 DEF d, row, ids

LEMMA PublishCounts ==
    ASSUME IInv, TInv, CInv, NEW c \in DOMAIN call, Publish(c)
    PROVE  TablesKeep
  <1> DEFINE d == Req(c).digest
             row == Summary(c)
             ids == DOMAIN call[c].seen
             cl == call[c].stream
  <1>1. CASE SourceDrift(c)
    BY <1>1, SameTables DEF Publish
  <1>2. CASE ~SourceDrift(c)
    <2>1. /\ call[c].pc = "publish"
          /\ DOMAIN memory' = DOMAIN memory \cup {d} /\ d \notin DOMAIN memory
          /\ memory'[d] = row
          /\ \A i \in ids : /\ i \in DOMAIN memory /\ memory[i].active
                            /\ memory'[i] = [memory[i] EXCEPT !.active = FALSE, !.version = @ + 1]
          /\ \A i \in DOMAIN memory \ ids : memory'[i] = memory[i]
      BY <1>2, RowsAfter
    <2>2. RowTyped(row) /\ row.active /\ row.stream = cl /\ row.text \subseteq DOMAIN Sentence
      BY <2>1, SummaryTyped
    <2>3. RowsTyped /\ StreamsTyped /\ HistoryTyped
      BY DEF TInv
    <2>4. stream' = IF cl \in DOMAIN stream
                    THEN [stream EXCEPT ![cl].tokens = Recount(c, stream[cl].tokens)] ELSE stream
      BY <1>2 DEF Publish
    <2>5. \A h \in history' \ history : h.type \in {"summarized", "created"}
      BY <1>2 DEF Publish, HistoryRow
    <2> HIDE DEF d, row
    <2>6. \A i \in ids : /\ RowTyped(memory'[i]) /\ memory'[i].active = FALSE
                         /\ memory'[i].stream = memory[i].stream /\ memory'[i].text = memory[i].text
      <3>1. \A i \in ids : RowTyped(memory[i])
        BY <2>1, <2>3 DEF RowsTyped
      <3> TAKE i \in ids
      <3> DEFINE r == memory[i]
                 n == memory'[i]
      <3>2. RowTyped(r) /\ n = [r EXCEPT !.active = FALSE, !.version = @ + 1]
        BY <2>1, <3>1
      <3> HIDE DEF r, n
      <3>3. RowTyped(n) /\ n.active = FALSE /\ n.stream = r.stream /\ n.text = r.text
        BY <3>2, ArchivedTyped
      <3> QED BY <3>3 DEF r, n
    <2>7. RowsTyped'
      <3>1. IsFiniteSet(DOMAIN memory')
        BY <2>1, <2>3, FS_AddElement DEF RowsTyped
      <3>2. \A i \in DOMAIN memory' : RowTyped(memory'[i])
        BY <2>1, <2>2, <2>3, <2>6 DEF RowsTyped
      <3> QED BY <3>1, <3>2 DEF RowsTyped
    <2>8. HistoryTyped'
      BY <2>3, <2>5 DEF HistoryTyped
    <2>9. \A n \in Nat : Recount(c, n) \in Nat
      BY <1>2, <2>1, RecountIs
    <2>10. \A s \in DOMAIN stream : stream[s].tokens \in Nat
                                    /\ StreamFields \subseteq DOMAIN stream[s]
      BY <2>3 DEF StreamsTyped
    <2>11. /\ DOMAIN stream' = DOMAIN stream
           /\ \A s \in DOMAIN stream :
                 /\ StreamFields \subseteq DOMAIN stream'[s]
                 /\ SameStream(s) /\ stream'[s].status = stream[s].status
                 /\ stream'[s].tokens = IF s = cl THEN Recount(c, stream[s].tokens)
                                        ELSE stream[s].tokens
      BY <2>4, <2>10 DEF StreamFields, SameStream
    <2>12. StreamsTyped'
      BY <2>3, <2>9, <2>10, <2>11 DEF StreamsTyped, SameStream
    <2>13. \A i \in DOMAIN memory : i \in DOMAIN memory' /\ memory'[i].stream = memory[i].stream
      BY <2>1, <2>6
    <2>14. StoreGrows
      BY <2>11, <2>13 DEF StoreGrows
    <2>15. NothingDeleted => /\ cl \in DOMAIN stream \cup {None} /\ RowsPlaced /\ Counters
                             /\ \A i \in ids : memory[i].stream = cl
      BY <2>1, CountersNow DEF CallsCounted, CallCounted, Holding
    <2>16. NothingDeleted => RowsPlaced'
      BY <2>1, <2>2, <2>11, <2>13, <2>15 DEF RowsPlaced
    <2>17. ASSUME NothingDeleted, NEW s \in DOMAIN stream, Untouched(s)'
           PROVE  Covers(stream'[s].tokens, Total(memory', Summed(s)'), CountedAlone(s))
      <3>1. Members(s)' = Members(s) \cup (IF cl = s THEN {d} ELSE {})
        BY <2>1, <2>2, <2>13 DEF Members
      <3>2. history \subseteq history'
        BY <1>2 DEF Publish
      <3>3. Untouched(s)
        BY <2>17, <3>1, <3>2 DEF Untouched
      <3>4. Covers(stream[s].tokens, Total(memory, Summed(s)), CountedAlone(s))
        BY <2>15, <2>17, <3>3 DEF Counters
      <3>5. CASE s # cl
        <4>1. \A i \in Members(s) : memory'[i] = memory[i]
          BY <2>1, <2>15, <2>17, <3>5 DEF Members
        <4>2. Summed(s)' = Summed(s) /\ \A i \in Summed(s) : memory'[i].text = memory[i].text
          BY <3>1, <3>5, <4>1 DEF Summed
        <4>3. Total(memory', Summed(s)) = Total(memory, Summed(s))
          BY <4>2, TotalSame
        <4> QED BY <2>11, <3>4, <3>5, <4>2, <4>3
      <3>6. CASE s = cl
        <4> DEFINE all == Summed(s)
                   rest == all \ ids
        <4>1. ids \subseteq all /\ all \subseteq DOMAIN memory
          BY <2>1, <2>15, <2>17, <3>6 DEF Summed, Members
        <4>2. Summed(s)' = rest \cup {d}
          <5>1. Members(s)' = Members(s) \cup {d}
            BY <3>1, <3>6
          <5>2. Summed(s)' = {i \in Members(s)' : memory'[i].active}
            BY DEF Summed
          <5>3. memory'[d].active
            BY <2>1, <2>2
          <5>4. \A i \in ids : ~memory'[i].active
            BY <2>6
          <5>5. \A i \in Members(s) \ ids : memory'[i] = memory[i]
            BY <2>1 DEF Members
          <5>6. all = {i \in Members(s) : memory[i].active}
            BY DEF Summed
          <5>7. d \notin ids
            BY <2>1
          <5> HIDE DEF all
          <5> QED BY <5>1, <5>2, <5>3, <5>4, <5>5, <5>6, <5>7
        <4> HIDE DEF all
        <4>3. all = ids \cup rest /\ ids \cap rest = {}
          BY <4>1
        <4>4. rest \subseteq DOMAIN memory /\ ids \subseteq DOMAIN memory
          BY <4>1
        <4> HIDE DEF rest
        <4>5. Texts(memory, ids) /\ Texts(memory, rest)
          BY <2>3, <4>4, SummedTexts
        <4>6. Total(memory, all) = Total(memory, ids) + Total(memory, rest)
          BY <4>3, <4>5, TotalSplit
        <4>7. Total(memory, rest) \in Nat
          BY <4>5, TotalNat
        <4>8. Covers(Recount(c, stream[s].tokens), Total(memory, rest) + Tokens(row.text),
                     CountedAlone(s))
          <5> DEFINE n == stream[s].tokens
          <5>1. n \in Nat
            BY <2>10
          <5>2. Covers(n, Total(memory, ids) + Total(memory, rest), CountedAlone(s))
            BY <3>4, <4>6 DEF all
          <5>3. CountedAlone(s) \in BOOLEAN
            BY DEF CountedAlone
          <5> HIDE DEF n
          <5>4. \A k \in Nat : \A alone \in BOOLEAN : Covers(n, Total(memory, ids) + k, alone)
                   => Covers(Recount(c, n), k + Tokens(row.text), alone)
            BY <1>2, <2>1, <5>1, RecountIs DEF row
          <5> QED BY <4>7, <5>2, <5>3, <5>4 DEF n
        <4>9. \A i \in rest : memory'[i].text = memory[i].text
          BY <2>1, <4>3, <4>4
        <4>10. Total(memory', rest) = Total(memory, rest)
          BY <4>9, TotalSame
        <4>11. Total(memory', {d}) = Tokens(row.text)
          BY <2>1, <2>2, TotalOne
        <4>12. Texts(memory', rest) /\ Texts(memory', {d}) /\ rest \cap {d} = {}
          BY <2>1, <2>2, <4>4, <4>5, <4>9, FS_Singleton DEF Texts
        <4>13. Total(memory', rest \cup {d}) = Total(memory', rest) + Total(memory', {d})
          BY <4>12, TotalSplit
        <4> QED BY <2>11, <3>6, <4>2, <4>8, <4>10, <4>11, <4>13
      <3> QED BY <3>5, <3>6
    <2>18. NothingDeleted => CountersAfter
      BY <2>11, <2>17 DEF CountersAfter, Covers
    <2> QED BY <2>7, <2>8, <2>12, <2>14, <2>16, <2>18 DEF TablesKeep
  <1> QED BY <1>1, <1>2

-----------------------------------------------------------------------------
(* Every step *)

LEMMA CallCounts ==
    ASSUME IInv, TInv, CInv, NEW c \in DOMAIN call, CallStep(c)
    PROVE  TablesKeep
  <1>1. CASE InsertMemory(c)
    BY <1>1, InsertCounts
  <1>2. CASE CreateIndexed(c)
    BY <1>2, IndexCounts
  <1>3. CASE WriteUpdate(c)
    BY <1>3, UpdateCounts
  <1>4. CASE DeleteOwned(c) \/ WriteDelete(c) \/ SweepOne(c)
    BY <1>4, EraseCounts
  <1>5. CASE CreateStream(c)
    BY <1>5, StreamCounts
  <1>6. CASE SetStatus(c)
    BY <1>6, StatusCounts
  <1>7. CASE DropStream(c)
    BY <1>7, DropCounts
  <1>8. CASE Publish(c)
    BY <1>8, PublishCounts
  <1>9. CASE \/ StartAdd(c) \/ SearchDuplicates(c) \/ Readback(c) \/ StartGet(c) \/ GetMemory(c)
             \/ GetUpdated(c) \/ StartDelete(c) \/ StartDeleteAll(c) \/ SeeMemory(c) \/ AllDeleted(c)
             \/ StartSweep(c) \/ CountSwept(c) \/ SweepFails(c) \/ SweepEnds(c)
             \/ StartIndexed(c) \/ GetIndexed(c) \/ Abandon(c)
    <2>1. memory' = memory /\ stream' = stream /\ history' = history
      BY <1>9 DEF StartAdd, SearchDuplicates, Readback, StartGet, GetMemory, GetUpdated,
           StartDelete, StartDeleteAll, SeeMemory, AllDeleted, StartSweep, CountSwept, SweepFails,
           SweepEnds, StartIndexed, GetIndexed, Abandon, ReadOnly
    <2> QED BY <2>1, SameTables
  <1>10. CASE \/ StartAddTo(c) \/ SeeCounter(c) \/ StartDeleteStream(c) \/ ListMembers(c)
              \/ StartCompress(c) \/ StartSummarize(c) \/ LoadStream(c) \/ SelectSources(c) \/ Generate(c)
              \/ CheckPublished(c) \/ Confirm(c)
    <2>1. StreamRead
      BY <1>10 DEF StartAddTo, SeeCounter, StartDeleteStream, ListMembers, StartCompress,
           StartSummarize, LoadStream, SelectSources, Generate, CheckPublished, Confirm
    <2> QED BY <2>1, SameTables DEF StreamRead, ReadOnly
  <1>11. CASE DocumentStep(c)
    <2>1. memory' = memory /\ stream' = stream /\ history' = history
      BY <1>11 DEF DocumentStep, CreateMap, ReadMap, EditMap, FindMap, DropMap, UnlinkMaps,
           FindStreamOfStep, FindStep, CreateStep, RefetchStep, CompleteStep, SetStep,
           CreateEntity, CreateRelation, DeleteRelation, DeleteEntity, ReadEntity, UpdateEntity,
           DocsRead, StoreUnchanged
    <2> QED BY <2>1, SameTables
  <1>12. CASE MemoryStep(c)
    BY <1>1, <1>2, <1>3, <1>4, <1>9, <1>12 DEF MemoryStep
  <1>13. CASE StreamStep(c)
    BY <1>5, <1>6, <1>7, <1>8, <1>10, <1>13 DEF StreamStep
  <1> QED BY <1>9, <1>11, <1>12, <1>13 DEF CallStep

LEMMA ClockGoes ==
    ASSUME TInv, NEW c \in DOMAIN call, CallStep(c)
    PROVE  ClockTyped'
  <1>1. \/ UNCHANGED <<clock, left>>
        \/ clock' = clock /\ left > 0 /\ left' = left - 1
    <2>1. CASE MemoryStep(c) \/ Abandon(c)
      BY <2>1 DEF MemoryStep, StartAdd, SearchDuplicates, InsertMemory, Readback, StartGet,
         GetMemory, WriteUpdate, GetUpdated, DeleteOwned, StartDelete, StartDeleteAll, SeeMemory,
         WriteDelete, AllDeleted, StartSweep, SweepOne, CountSwept, SweepFails, SweepEnds,
         StartIndexed, CreateIndexed, GetIndexed, Abandon, ReadOnly
    <2>2. CASE StreamStep(c)
      BY <2>2 DEF StreamStep, CreateStream, SetStatus, StartAddTo, SeeCounter, StartDeleteStream,
         ListMembers, DropStream, StartCompress, StartSummarize, LoadStream, SelectSources, Generate,
         CheckPublished, Publish, Confirm, StreamRead, ReadOnly, RowsUnchanged
    <2>3. CASE DocumentStep(c)
      BY <2>3 DEF DocumentStep, CreateMap, ReadMap, EditMap, FindMap, DropMap, UnlinkMaps,
           FindStreamOfStep, FindStep, CreateStep, RefetchStep, CompleteStep, SetStep,
           CreateEntity, CreateRelation, DeleteRelation, DeleteEntity, ReadEntity, UpdateEntity,
           DocsRead, StoreUnchanged
    <2>4. (MemoryStep(c) \/ Abandon(c)) \/ StreamStep(c) \/ DocumentStep(c)
      BY DEF CallStep
    <2> QED BY <2>1, <2>2, <2>3, <2>4
  <1> QED BY <1>1 DEF TInv, ClockTyped

LEMMA DocsGo ==
    ASSUME TInv, NEW c \in DOMAIN call, CallStep(c), DOMAIN call' = DOMAIN call
    PROVE  DocsTyped'
  <1>1. DocsTyped
    BY DEF TInv
  <1>2. CASE UNCHANGED <<mindmap, step, graph>>
    BY <1>1, <1>2 DEF DocsTyped
  <1>3. CASE CreateMap(c)
    <2>1. step' = step /\ graph' = graph
      BY <1>3 DEF CreateMap
    <2>2. CASE /\ MapNamed(Req(c).name) = {}
               /\ mindmap' = With(mindmap, Req(c).key, NewMap(Req(c).name, Req(c).tree))
      <3> DEFINE row == NewMap(Req(c).name, Req(c).tree)
                 key == Req(c).key
      <3>1. row.name = Req(c).name
        BY DEF NewMap
      <3> HIDE DEF row, key
      <3>2. /\ DOMAIN mindmap' = DOMAIN mindmap \cup {key}
            /\ \A m \in DOMAIN mindmap : mindmap'[m] = mindmap[m]
            /\ key \notin DOMAIN mindmap => mindmap'[key] = row
        BY <2>2 DEF With, row, key
      <3>3. \A m \in DOMAIN mindmap : mindmap[m].name # Req(c).name
        BY <2>2 DEF MapNamed
      <3> QED BY <1>1, <2>1, <3>1, <3>2, <3>3 DEF DocsTyped
    <2>3. CASE mindmap' = mindmap
      BY <1>2, <2>1, <2>3
    <2> QED BY <1>3, <2>2, <2>3 DEF CreateMap
  <1>4. CASE EditMap(c) \/ DropMap(c) \/ UnlinkMaps(c)
    <2>1. step' = step /\ graph' = graph
      BY <1>4 DEF EditMap, DropMap, UnlinkMaps
    <2>2. CASE \E x, y : mindmap' = [mindmap EXCEPT ![call[c].id].nodes = x, ![call[c].id].edges = y]
      <3>1. \A m \in DOMAIN mindmap' : m \in DOMAIN mindmap /\ mindmap'[m].name = mindmap[m].name
        BY <2>2
      <3> QED BY <1>1, <2>1, <3>1 DEF DocsTyped
    <2>3. CASE mindmap' = mindmap
      BY <1>2, <2>1, <2>3
    <2>4. CASE DropMap(c)
      <3>1. \A m \in DOMAIN mindmap' : m \in DOMAIN mindmap /\ mindmap'[m] = mindmap[m]
        BY <2>4 DEF DropMap, Restrict
      <3> QED BY <1>1, <2>1, <3>1 DEF DocsTyped
    <2>5. CASE UnlinkMaps(c)
      <3>1. \A m \in DOMAIN mindmap' : m \in DOMAIN mindmap /\ mindmap'[m].name = mindmap[m].name
        BY <2>5 DEF UnlinkMaps
      <3> QED BY <1>1, <2>1, <3>1 DEF DocsTyped
    <2> QED BY <1>4, <2>2, <2>3, <2>4, <2>5 DEF EditMap
  <1>5. CASE CreateStep(c)
    <2>1. /\ mindmap' = mindmap /\ graph' = graph
          /\ step' = step \/ step' = With(step, Req(c).key, NewStep(Req(c).node, call[c].stream))
      BY <1>5 DEF CreateStep
    <2>2. /\ "status" \in DOMAIN NewStep(Req(c).node, call[c].stream)
          /\ NewStep(Req(c).node, call[c].stream).status \in StepStatuses
      BY DEF NewStep, StepStatuses
    <2>3. \A s \in DOMAIN step' : "status" \in DOMAIN step'[s] /\ step'[s].status \in StepStatuses
      BY <1>1, <2>1, <2>2 DEF With, DocsTyped
    <2> QED BY <1>1, <2>1, <2>3 DEF DocsTyped
  <1>6. CASE SetStep(c)
    <2>1. mindmap' = mindmap /\ graph' = graph
      BY <1>6 DEF SetStep
    <2>2. StatusOf(c) \in StepStatuses
      BY DEF StatusOf, StepStatuses, TInv, CallsTyped, CallTyped, Req
    <2>3. \A s \in DOMAIN step' : s \in DOMAIN step /\ (step'[s] = step[s] \/ step'[s] =
              [step[s] EXCEPT !.status = StatusOf(c), !.result = Req(c).text])
      BY <1>6 DEF SetStep
    <2>4. \A s \in DOMAIN step' : "status" \in DOMAIN step'[s] /\ step'[s].status \in StepStatuses
      BY <1>1, <2>2, <2>3 DEF DocsTyped
    <2> QED BY <1>1, <2>1, <2>4 DEF DocsTyped
  <1>7. CASE ReadMap(c) \/ ReadEntity(c)
    <2>1. mindmap' = mindmap /\ step' = step /\ DOMAIN graph' = DOMAIN graph
      BY <1>7 DEF ReadMap, ReadEntity, DocsRead, Keeps
    <2> QED BY <1>1, <2>1 DEF DocsTyped
  <1>8. CASE \/ FindMap(c) \/ FindStreamOfStep(c) \/ FindStep(c) \/ RefetchStep(c) \/ CompleteStep(c)
             \/ CreateEntity(c) \/ CreateRelation(c) \/ DeleteRelation(c) \/ DeleteEntity(c)
             \/ UpdateEntity(c)
    BY <1>2, <1>8 DEF FindMap, FindStreamOfStep, FindStep, RefetchStep, CompleteStep,
       CreateEntity, CreateRelation, DeleteRelation, DeleteEntity, UpdateEntity, DocsRead
  <1> QED BY <1>2, <1>3, <1>4, <1>5, <1>6, <1>7, <1>8 DEF CallStep, DocumentStep, docVars

LEMMA TypesAndCounts ==
    ASSUME TInv, CInv, CallsGo, TablesKeep, ClockTyped', DocsTyped', DOMAIN dims' = DOMAIN memory'
    PROVE  TInv' /\ CInv'
  <1>1. CallsTyped'
    BY CallsFollow DEF TInv
  <1>2. TInv'
    BY <1>1 DEF TInv, TablesKeep
  <1>3. ASSUME NothingDeleted' PROVE RowsPlaced' /\ CallsCounted' /\ CounterExact'
    <2>1. NothingDeleted
      BY <1>3, DeletionsKept
    <2>2. RowsPlaced' /\ CountersAfter /\ StoreGrows
      BY <2>1 DEF TablesKeep
    <2>3. CallsCounted'
      BY <2>1, <2>2, CountsFollow
    <2>4. \A s \in DOMAIN stream : CountedAlone(s)' => CountedAlone(s)
      BY <2>1, <2>2, AloneBefore
    <2>5. Counters'
      BY <2>2, <2>4 DEF Counters, CountersAfter, Covers
    <2>6. Counters' => CounterExact'
      BY DEF Counters, Covers, Untouched, Summed, Members, CounterExact
    <2> QED BY <2>2, <2>3, <2>5, <2>6
  <1> QED BY <1>2, <1>3 DEF CInv

\* The invariant the theorems below rest on is kept by every step.
LEMMA CountersStep ==
    ASSUME IInv, DInv, TInv, CInv, [Next]_vars
    PROVE  TInv' /\ CInv'
  <1>1. CallsGo
    BY AllGo
  <1>2. DOMAIN call' = DOMAIN call
    BY <1>1 DEF CallsGo
  <1>3. CASE \E c \in DOMAIN call : CallStep(c) /\ dims' = Dims(c)
    <2>1. PICK c \in DOMAIN call : CallStep(c) /\ dims' = Dims(c)
      BY <1>3
    <2>2. DOMAIN dims' = DOMAIN memory'
      BY <2>1 DEF Dims
    <2>3. TablesKeep
      BY <2>1, CallCounts
    <2>4. ClockTyped' /\ DocsTyped'
      BY <1>2, <2>1, ClockGoes, DocsGo
    <2> QED BY <1>1, <2>2, <2>3, <2>4, TypesAndCounts
  <1>4. CASE Tick /\ UNCHANGED <<derivations, docVars, dims>>
    <2>1. memory' = memory /\ stream' = stream /\ history' = history /\ dims' = dims
      BY <1>4 DEF Tick
    <2>2. ClockTyped'
      BY <1>4, MaxNowAssumption DEF Tick, TInv, ClockTyped
    <2>3. DocsTyped'
      BY <1>2, <1>4 DEF docVars, TInv, DocsTyped
    <2>4. DOMAIN dims' = DOMAIN memory'
      BY <2>1 DEF TInv
    <2>5. TablesKeep
      BY <2>1, SameTables
    <2> QED BY <1>1, <2>2, <2>3, <2>4, <2>5, TypesAndCounts
  <1>5. CASE TablesSame /\ dims' = dims
    <2>1. memory' = memory /\ stream' = stream /\ history' = history /\ dims' = dims
      BY <1>5 DEF TablesSame
    <2>2. ClockTyped' /\ DocsTyped'
      BY <1>2, <1>5 DEF TablesSame, docVars, TInv, DocsTyped, ClockTyped
    <2>3. DOMAIN dims' = DOMAIN memory'
      BY <2>1 DEF TInv
    <2>4. TablesKeep
      BY <2>1, SameTables
    <2> QED BY <1>1, <2>2, <2>3, <2>4, TypesAndCounts
  <1> QED BY <1>3, <1>4, <1>5, AllGo

LEMMA CountersStart == Init => TInv /\ CInv
  <1> SUFFICES ASSUME Init PROVE TInv /\ CInv
    OBVIOUS
  <1>1. PICK w \in Workloads :
          /\ memory = w.memory /\ stream = w.stream /\ clock = w.now /\ left = w.left
          /\ history = {HistoryRow(i, 1, "created", w.memory[i].text, i) : i \in DOMAIN w.memory}
          /\ call = [c \in DOMAIN w.calls |-> NewCall(w.calls[c])]
          /\ mindmap = w.mindmap /\ step = << >> /\ graph = [c \in DOMAIN w.calls |-> << >>]
          /\ dims = [m \in DOMAIN w.memory |-> w.db.hnsw]
    BY DEF Init, InitStorage, InitStore
  <1>2. RowsTyped
    BY <1>1, StoreAssumption DEF RowsTyped, RowTyped, TypedFields
  <1>3. \A s \in DOMAIN stream :
          /\ StreamFields \subseteq DOMAIN stream[s]
          /\ stream[s].status \in {"active", "paused", "archived"}
          /\ stream[s].tokens = Total(memory, {i \in DOMAIN memory :
                                    memory[i].active /\ memory[i].stream = s})
          /\ \A t \in DOMAIN stream :
               stream[s].name = stream[t].name /\ stream[s].owner = stream[t].owner => s = t
    <2>1. \A s \in DOMAIN w.stream :
            /\ StreamFields \subseteq DOMAIN w.stream[s]
            /\ w.stream[s].status \in {"active", "paused", "archived"}
            /\ w.stream[s].tokens = Total(w.memory, {i \in DOMAIN w.memory :
                                        w.memory[i].active /\ w.memory[i].stream = s})
            /\ \A t \in DOMAIN w.stream :
                 w.stream[s].name = w.stream[t].name /\ w.stream[s].owner = w.stream[t].owner => s = t
      BY StreamAssumption DEF StreamFields
    <2> QED BY <1>1, <2>1
  <1>4. RowsPlaced
    BY <1>1, StreamAssumption DEF RowsPlaced
  <1>5. StreamsTyped
    <2>1. \A s : {i \in DOMAIN memory : memory[i].active /\ memory[i].stream = s}
                   \in SUBSET DOMAIN memory
      OBVIOUS
    <2>2. \A ids \in SUBSET DOMAIN memory : Total(memory, ids) \in Nat
      BY <1>2, SummedTexts, TotalNat
    <2>3. \A s \in DOMAIN stream : stream[s].tokens \in Nat
      BY <1>3, <2>1, <2>2
    <2> QED BY <1>3, <2>3 DEF StreamsTyped
  <1>6. ASSUME NEW c \in DOMAIN call
        PROVE  /\ call[c].req = w.calls[c] /\ c \in DOMAIN w.calls /\ call[c].pc = "start"
               /\ call[c].seen = << >> /\ call[c].claims = {} /\ call[c].stream = None
    BY <1>1 DEF NewCall
  <1>7. CallsTyped
    <2> SUFFICES ASSUME NEW c \in DOMAIN call PROVE CallTyped(call[c])
      BY DEF CallsTyped
    <2>1. /\ {"text", "until"} \subseteq DOMAIN w.calls[c] /\ WellTyped(w.calls[c])
          /\ "status" \in DOMAIN w.calls[c] /\ w.calls[c].status \in StepStatuses
          /\ "scope" \in DOMAIN w.calls[c]
      BY <1>6, StoreAssumption, StreamAssumption, DocumentAssumption
    <2>2. DOMAIN << >> = {} /\ IsFiniteSet({})
      BY FS_EmptySet
    <2> QED BY <1>6, <2>1, <2>2 DEF CallTyped, Holding
  <1>8. HistoryTyped
    BY <1>1 DEF HistoryTyped, HistoryRow
  <1>9. ClockTyped
    BY <1>1, StoreAssumption DEF ClockTyped
  <1>10. DocsTyped
    <2>1. \A m, n \in DOMAIN mindmap : mindmap[m].name = mindmap[n].name => m = n
      BY <1>1, DocumentAssumption
    <2>2. DOMAIN step = {}
      BY <1>1
    <2> QED BY <1>1, <2>1, <2>2 DEF DocsTyped
  <1>11. CallsCounted
    <2> SUFFICES ASSUME NEW c \in DOMAIN call PROVE CallCounted(call[c], memory, stream)
      BY DEF CallsCounted
    <2>1. w.calls[c].op = "createStream" => w.calls[c].key # None
      BY <1>6, StreamAssumption
    <2> QED BY <1>6, <2>1 DEF CallCounted, Placing, Erasing, Looking, Holding
  <1>12. CounterExact
    <2>1. \A s : {i \in Members(s) : memory[i].active}
                   = {i \in DOMAIN memory : memory[i].active /\ memory[i].stream = s}
      BY DEF Members
    <2>2. \A s \in DOMAIN stream : stream[s].tokens \in Nat
      BY <1>5 DEF StreamsTyped
    <2> QED BY <1>3, <2>1, <2>2 DEF CounterExact
  <1> QED BY <1>1, <1>2, <1>4, <1>5, <1>7, <1>8, <1>9, <1>10, <1>11, <1>12 DEF TInv, CInv

-----------------------------------------------------------------------------
(* The theorems on counters and types *)

\* The invariant of the two theorems below: what a row, a stream and a call are made
\* of; where a call is, with what in its hands; and, as long as nothing is deleted,
\* that a stream stays the one whose rows a call counts.
THEOREM CountersInductive == Spec => [](TInv /\ CInv)
  <1>1. Init => TInv /\ CInv
    BY CountersStart
  <1>2. IInv /\ DInv /\ (TInv /\ CInv) /\ [Next]_vars => (TInv /\ CInv)'
    BY CountersStep
  <1> QED BY <1>1, <1>2, DocumentsInductive, PTL DEF Spec

\* As long as nothing is deleted and none of its memories is updated, the counter of a
\* stream is at least the sum of the tokens of its active memories, and just that if no
\* unscoped add meets another owner's stream of the name beside it: whichever adds,
\* summaries of one and the same half, lost answers and crashes come together, the
\* increment of an add and the correction of a summary miss nothing, and what they count
\* twice is only what an add for every owner's stream of a name counts.
THEOREM CountersAreExact == Spec => []CounterExact
  <1>1. TInv /\ CInv => CounterExact
    BY DEF CInv, NothingDeleted, CounterExact
  <1> QED BY <1>1, CountersInductive, PTL

\* Every table keeps its types and its unique names, a clock within its bounds, and
\* a runtime is served, or started, only by a process that is there.
THEOREM TypesAreKept == Spec => []TypeOK
  <1>1. ASSUME TInv, SInv PROVE TypeOK
    <2>1. StoreTypeOK
      BY <1>1 DEF TInv, RowsTyped, RowTyped, WellTyped, HistoryTyped, ClockTyped, StoreTypeOK
    <2>2. StreamTypeOK
      BY <1>1, <2>1 DEF TInv, StreamsTyped, StreamTypeOK
    <2>3. DocTypeOK
      BY <1>1, <2>2 DEF TInv, DocsTyped, DocTypeOK
    <2>4. \A p \in Processes : server[p].cell = "ready" => server[p].up = "up"
      BY <1>1 DEF SInv, HostsInv
    <2>5. \A h \in DOMAIN start : IsRepair(h) \/ server[start[h].at].cell = "starting"
      BY <1>1, NameAssumption DEF SInv, HostsInv, IsRepair, Op, Req
    <2> QED BY <1>1, <2>3, <2>4, <2>5 DEF TInv, TypeOK
  <1> QED BY <1>1, CountersInductive, StartsInductive, PTL
=============================================================================
