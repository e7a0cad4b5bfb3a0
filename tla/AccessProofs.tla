---------------------------- MODULE AccessProofs ----------------------------
(***************************************************************************)
(* A credential that is restricted to a user changes no memory of another  *)
(* one, for every workload: whatever other calls do to the rows between    *)
(* the steps of a restricted one, and whoever starts the storage.          *)
(***************************************************************************)
EXTENDS StorageProofs

ClientFields == {"stage", "at", "token", "user"}

\* A row of u, or one that was there and is no more.
Mine(i, u, hist, rows) == /\ \E h \in hist : h.id = i
                          /\ i \in DOMAIN rows => rows[i].owner = u

\* The pcs of the operations of src/api/memory.rs.
AddPath    == {"start", "search", "get", "update", "updated", "insert", "readback", "done"}
UpdatePath == {"start", "get", "update", "updated", "done"}
DeletePath == {"start", "get", "deleteOwned", "done"}
ErasePath  == {"start", "next", "delete", "done"}

\* A call in the storage that acts for u has only rows of u in its hands.
Scoped(r, u, hist, rows) ==
    /\ r.req.owner = u /\ u # None
    /\ \/ r.req.op = "add" /\ r.pc \in AddPath
       \/ r.req.op = "updateOwned" /\ r.pc \in UpdatePath
       \/ r.req.op = "deleteOwned" /\ r.pc \in DeletePath
       \/ r.req.op = "deleteAll" /\ r.pc \in ErasePath
    /\ r.req.op = "add" /\ r.pc \in {"get", "update"} => Mine(r.id, u, hist, rows)
    /\ r.pc \in {"next", "delete"} => \A i \in r.todo : Mine(i, u, hist, rows)
    /\ r.pc = "delete" => Mine(r.id, u, hist, rows)

\* What a request of u may be about, by how far it has come.
Permitted(g, r, hist, rows) ==
    /\ g.stage \in {"new", "runtime", "starting", "handler", "in", "done"}
    /\ g.stage = "new" => r.pc = "start" /\ r.req.op \notin {"sweep", "repairData"}
    /\ g.stage \in {"runtime", "starting", "handler"} => r.pc = "start" /\ r.req.op \in UserScoped
    /\ g.stage = "in" => Scoped(r, g.user, hist, rows)

RequestsInv ==
    /\ DOMAIN request = DOMAIN call
    /\ \A c \in DOMAIN request : ClientFields \subseteq DOMAIN request[c]

PermitsInv ==
    \A c \in DOMAIN call : request[c].user # None => Permitted(request[c], call[c], history, memory)

\* A start that a restricted request drives is there only while it waits for it.
StartsInv ==
    \A h \in DOMAIN start :
        /\ "at" \in DOMAIN start[h]
        /\ h \in DOMAIN call /\ h \notin Processes /\ ~IsRepair(h) /\ request[h].user # None =>
              request[h].stage = "starting" /\ start[h].at = Host(h)

AInv == RequestsInv /\ PermitsInv /\ StartsInv

-----------------------------------------------------------------------------
(* Rows keep their owner, and no row comes back *)

RowsFollow ==
    /\ history \subseteq history'
    /\ \A i \in DOMAIN memory' :
         (\E h \in history : h.id = i) =>
            i \in DOMAIN memory /\ memory'[i].owner = memory[i].owner

LEMMA MineKept ==
    ASSUME NEW i, NEW u, RowsFollow, Mine(i, u, history, memory)
    PROVE  Mine(i, u, history', memory')
  BY DEF RowsFollow, Mine

LEMMA ScopedKept ==
    ASSUME NEW r, NEW u, RowsFollow, Scoped(r, u, history, memory)
    PROVE  Scoped(r, u, history', memory')
  BY MineKept DEF Scoped

LEMMA PermittedKept ==
    ASSUME NEW g, NEW r, RowsFollow, Permitted(g, r, history, memory)
    PROVE  Permitted(g, r, history', memory')
  BY ScopedKept DEF Permitted

LEMMA RowsStay ==
    ASSUME memory' = memory, history' = history
    PROVE  RowsFollow
  BY DEF RowsFollow

\* Rows that lose one of them, or are as they were.
LEMMA RowsGo ==
    ASSUME NEW id, Remove(id) \/ memory' = memory, history \subseteq history'
    PROVE  RowsFollow
  BY DEF RowsFollow, Remove, Restrict

\* A row under an id without a history.
LEMMA RowComes ==
    ASSUME NEW id, NEW row, Insert(id, row), history \subseteq history',
           \A h \in history : h.id # id
    PROVE  RowsFollow
  BY DEF RowsFollow, Insert, With

LEMMA InsertFollows ==
    ASSUME IInv, NEW c \in DOMAIN call, InsertMemory(c)
    PROVE  RowsFollow
  <1> DEFINE id == Req(c).key
             row == NewMemory(c)
  <1>1. Insert(id, row) /\ history \subseteq history'
    BY DEF InsertMemory, Log
  <1>2. Due(call[c], id)
    BY DEF IInv, CallsInv, CallOK, PathOK, InsertMemory, At, Due, DueKey, Req
  <1>3. \A h \in history : h.id # id
    BY <1>2 DEF IInv, FreshInv
  <1> HIDE DEF id, row
  <1> QED BY <1>1, <1>3, RowComes

LEMMA IndexFollows ==
    ASSUME IInv, NEW c \in DOMAIN call, CreateIndexed(c)
    PROVE  RowsFollow
  <1> DEFINE id == Req(c).key
             row == NewMemory(c)
  <1>1. CASE KeyFree(c)
    <2>1. Insert(id, row) /\ history \subseteq history'
      BY <1>1 DEF CreateIndexed, Log
    <2>2. Op(c) = "index"
      BY DEF IInv, CallsInv, CallOK, PathOK, CreateIndexed, At, Op
    <2>3. \A h \in history : h.id # id
      BY <1>1, <2>2 DEF IInv, KeysInv, KeyFree
    <2> HIDE DEF id, row
    <2> QED BY <2>1, <2>3, RowComes
  <1>2. CASE ~KeyFree(c)
    BY <1>2, RowsStay DEF CreateIndexed
  <1> QED BY <1>1, <1>2

LEMMA UpdateFollows ==
    ASSUME IInv, NEW c \in DOMAIN call, WriteUpdate(c)
    PROVE  RowsFollow
  <1> DEFINE id == call[c].id
             text == Req(c).text
             version == NextVersion(c)
  <1>1. CASE StillThere(c)
    <2>1. /\ memory' = [memory EXCEPT ![id].text = text, ![id].version = version]
          /\ history \subseteq history' /\ id \in DOMAIN memory
      BY <1>1 DEF WriteUpdate, Log, StillThere
    <2>2. RowFields \subseteq DOMAIN memory[id]
      BY <2>1 DEF IInv, RowsInv, RowOK
    <2> HIDE DEF id, text, version
    <2> QED BY <2>1, <2>2 DEF RowsFollow, RowFields
  <1>2. CASE ~StillThere(c)
    BY <1>2, RowsStay DEF WriteUpdate
  <1> QED BY <1>1, <1>2

LEMMA RemovalsFollow ==
    ASSUME NEW c \in DOMAIN call, DeleteOwned(c) \/ WriteDelete(c) \/ SweepOne(c)
    PROVE  RowsFollow
  <1>1. history \subseteq history'
    BY DEF DeleteOwned, WriteDelete, SweepOne, Log
  <1>2. \E id : Remove(id) \/ memory' = memory
    BY DEF DeleteOwned, WriteDelete, SweepOne
  <1> QED BY <1>1, <1>2, RowsGo

LEMMA PublishFollows ==
    ASSUME IInv, NEW c \in DOMAIN call, Publish(c)
    PROVE  RowsFollow
  <1> DEFINE id == Req(c).digest
             row == Summary(c)
             rows == Archived(c)
  <1>1. CASE SourceDrift(c)
    BY <1>1, RowsStay DEF Publish
  <1>2. CASE ~SourceDrift(c)
    <2>1. memory' = With(rows, id, row) /\ history \subseteq history'
      BY <1>2 DEF Publish
    <2>2. Due(call[c], id)
      BY DEF IInv, CallsInv, CallOK, PathOK, Publish, At, Due, DueDigest, Ended, Req
    <2>3. \A h \in history : h.id # id
      BY <2>2 DEF IInv, FreshInv
    <2>4. \A i \in DOMAIN memory : RowFields \subseteq DOMAIN memory[i]
      BY DEF IInv, RowsInv, RowOK
    <2>5. DOMAIN rows = DOMAIN memory /\ \A i \in DOMAIN memory : rows[i].owner = memory[i].owner
      BY <2>4 DEF Archived, RowFields
    <2> HIDE DEF id, row, rows
    <2> QED BY <2>1, <2>3, <2>5 DEF RowsFollow, With
  <1> QED BY <1>1, <1>2

LEMMA CallFollows ==
    ASSUME IInv, NEW c \in DOMAIN call, CallStep(c)
    PROVE  RowsFollow
  <1>1. CASE Quietly(c)
    BY <1>1, RowsStay DEF Quietly
  <1>2. CASE Writes(c)
    BY <1>2, InsertFollows, IndexFollows, UpdateFollows, RemovalsFollow DEF Writes
  <1>3. CASE Publish(c)
    BY <1>3, PublishFollows
  <1> QED BY <1>1, <1>2, <1>3, CallStepCases

-----------------------------------------------------------------------------
(* Requests on their way to the storage *)

\* Nothing is asked of a call other than c, or of no call at all.
Others(c) ==
    /\ DOMAIN request' = DOMAIN request /\ DOMAIN call' = DOMAIN call
    /\ \A d \in DOMAIN call \ {c} : request'[d] = request[d] /\ call'[d] = call[d]

LEMMA PermitsKept ==
    ASSUME AInv, RowsFollow, NEW c, Others(c),
           c \in DOMAIN call =>
              /\ ClientFields \subseteq DOMAIN request'[c]
              /\ request'[c].user # None => Permitted(request'[c], call'[c], history', memory')
    PROVE  RequestsInv' /\ PermitsInv'
  <1>1. RequestsInv'
    BY DEF AInv, RequestsInv, Others
  <1>2. ASSUME NEW d \in DOMAIN call, request'[d].user # None
        PROVE  Permitted(request'[d], call'[d], history', memory')
    BY <1>2, PermittedKept DEF AInv, PermitsInv, Others
  <1> QED BY <1>1, <1>2 DEF PermitsInv, Others

LEMMA StartsKept ==
    ASSUME AInv, DOMAIN start' \subseteq DOMAIN start,
           DOMAIN request' = DOMAIN request, DOMAIN call' = DOMAIN call,
           \A h \in DOMAIN start' : "at" \in DOMAIN start'[h] /\ start'[h].at = start[h].at,
           \A h \in DOMAIN call : request'[h].user # None => request[h].user # None,
           \A h \in DOMAIN call :
              request[h].user # None =>
                 /\ call[h].req.op = "repairData" => call'[h].req.op = "repairData"
                 /\ h \in DOMAIN start' /\ request[h].stage = "starting" =>
                       request'[h].stage = "starting" /\ request'[h].at = request[h].at
    PROVE  StartsInv'
  BY DEF AInv, StartsInv, IsRepair, Op, Host

LEMMA Staged ==
    ASSUME AInv, NEW c \in DOMAIN call, NEW s, Stage(c, s)
    PROVE  /\ DOMAIN request' = DOMAIN request
           /\ \A d \in DOMAIN call \ {c} : request'[d] = request[d]
           /\ ClientFields \subseteq DOMAIN request'[c]
           /\ request'[c].stage = s /\ request'[c].user = request[c].user
           /\ request'[c].at = request[c].at
  BY DEF AInv, RequestsInv, Stage, ClientFields

LEMMA OnlyOne ==
    ASSUME NEW c \in DOMAIN call, NEW rec, OnlyCall(c, rec)
    PROVE  /\ DOMAIN call' = DOMAIN call /\ call'[c] = rec
           /\ \A d \in DOMAIN call \ {c} : call'[d] = call[d]
           /\ RowsFollow
  BY RowsStay DEF OnlyCall, StorageUnchangedBut

\* A request that ends.
LEMMA DonePermits ==
    ASSUME IInv, AInv, NEW c \in DOMAIN call, NEW a, Stage(c, "done"), OnlyCall(c, End(c, a)),
           DOMAIN start' \subseteq DOMAIN start \ {c},
           \A h \in DOMAIN start' : start'[h] = start[h]
    PROVE  AInv'
  <1>1. Permitted(request'[c], call'[c], history', memory')
    BY Staged DEF Permitted
  <1>2. Others(c) /\ RowsFollow
    BY Staged, OnlyOne DEF Others
  <1>3. RequestsInv' /\ PermitsInv'
    BY <1>1, <1>2, Staged, PermitsKept
  <1>4. call'[c].req = call[c].req
    BY EndKeeps, OnlyOne
  <1>5. StartsInv'
    <2>1. \A h \in DOMAIN start' : "at" \in DOMAIN start'[h] /\ start'[h].at = start[h].at
      BY DEF AInv, StartsInv
    <2>2. \A h \in DOMAIN call : request'[h].user = request[h].user /\ call'[h].req = call[h].req
      BY <1>2, <1>4, Staged DEF Others
    <2>3. \A h \in DOMAIN call : h \in DOMAIN start' => request'[h] = request[h]
      BY <1>2 DEF Others
    <2> QED BY <1>2, <2>1, <2>2, <2>3, StartsKept DEF Others
  <1> QED BY <1>3, <1>5 DEF AInv

\* No request and no call moves, only starts do.
StartsMove ==
    /\ DOMAIN request' = DOMAIN request /\ DOMAIN call' = DOMAIN call
    /\ \A c \in DOMAIN call : request'[c] = request[c] /\ call'[c] = call[c]
    /\ memory' = memory /\ history' = history

LEMMA OnlyStarts ==
    ASSUME AInv, StartsMove,
           \A h \in DOMAIN start' :
              /\ "at" \in DOMAIN start'[h]
              /\ h \in Processes \/ (h \in DOMAIN start /\ start'[h].at = start[h].at)
    PROVE  AInv'
  <1>1. RowsFollow
    BY RowsStay DEF StartsMove
  <1>2. RequestsInv' /\ PermitsInv'
    BY <1>1, PermittedKept DEF AInv, RequestsInv, PermitsInv, StartsMove
  <1>3. StartsInv'
    BY DEF AInv, StartsInv, IsRepair, Op, Host, StartsMove
  <1> QED BY <1>2, <1>3 DEF AInv

LEMMA Moving ==
    ASSUME AInv, NEW h \in DOMAIN start, StartsMove,
           \/ UNCHANGED start
           \/ Moves(h, Onward(h))
           \/ \E f : Moves(h, [Onward(h) EXCEPT !.failing = f])
           \/ \E f, g : Moves(h, [Onward(h) EXCEPT !.same = f, !.failing = g])
    PROVE  AInv'
  <1>1. \A k \in DOMAIN start : "at" \in DOMAIN start[k]
    BY DEF AInv, StartsInv
  <1>2. CASE UNCHANGED start
    BY <1>1, <1>2, OnlyStarts
  <1>3. CASE \/ Moves(h, Onward(h))
             \/ \E f : Moves(h, [Onward(h) EXCEPT !.failing = f])
             \/ \E f, g : Moves(h, [Onward(h) EXCEPT !.same = f, !.failing = g])
    <2>1. \A k \in DOMAIN start' : /\ k \in DOMAIN start /\ "at" \in DOMAIN start'[k]
                                   /\ start'[k].at = start[k].at
      <3>1. "at" \in DOMAIN Onward(h) /\ Onward(h).at = start[h].at
        BY <1>1 DEF Onward
      <3> QED BY <1>1, <1>3, <3>1 DEF Moves
    <2> QED BY <2>1, OnlyStarts
  <1> QED BY <1>2, <1>3

LEMMA StatementAccess ==
    ASSUME AInv, NEW h \in DOMAIN start,
           Statement(h) \/ Inspect(h) \/ Normalise(h) \/ RecordVersion(h) \/ Validate(h)
    PROVE  AInv'
  <1>1. UNCHANGED request /\ StorageUnchangedBut(call)
    BY DEF Statement, Inspect, Normalise, RecordVersion, Validate
  <1>2. StartsMove
    BY <1>1 DEF StorageUnchangedBut, StartsMove
  <1>3. CASE Statement(h) \/ Inspect(h)
    <2>1. \E f : Moves(h, [Onward(h) EXCEPT !.failing = f])
      <3>1. CASE Statement(h)
        BY <3>1 DEF Statement
      <3>2. CASE Inspect(h)
        <4>1. Moves(h, [Onward(h) EXCEPT !.failing = db.unknown])
          BY <3>2 DEF Inspect
        <4> DEFINE f == db.unknown
        <4>2. Moves(h, [Onward(h) EXCEPT !.failing = f])
          BY <4>1
        <4> HIDE DEF f
        <4> QED BY <4>2
      <3> QED BY <1>3, <3>1, <3>2
    <2> QED BY <1>2, <2>1, Moving
  <1>4. CASE Normalise(h) \/ RecordVersion(h)
    BY <1>2, <1>4, Moving DEF Normalise, RecordVersion
  <1>5. CASE Validate(h)
    <2>1. \E f, g : Moves(h, [Onward(h) EXCEPT !.same = f, !.failing = g])
      BY <1>5 DEF Validate
    <2> QED BY <1>2, <2>1, Moving
  <1> QED BY <1>3, <1>4, <1>5

LEMMA Forgotten ==
    ASSUME NEW hs, Forget(hs)
    PROVE  DOMAIN start' = DOMAIN start \ hs /\ \A k \in DOMAIN start' : start'[k] = start[k]
  BY DEF Forget, Restrict

\* A start that ends without a request: nobody's, or that of main.
LEMMA EndsAlone ==
    ASSUME AInv, NEW h, Forget({h}), StartsMove
    PROVE  AInv'
  <1>1. \A k \in DOMAIN start' : k \in DOMAIN start /\ "at" \in DOMAIN start'[k] /\ start'[k].at = start[k].at
    BY Forgotten DEF AInv, StartsInv
  <1> QED BY <1>1, OnlyStarts

LEMMA NobodyServed ==
    ASSUME AInv, NEW h, NEW s, NEW rec, h \notin DOMAIN call, Stage(h, s), OnlyCall(h, rec)
    PROVE  StartsMove
  <1>1. DOMAIN request' = DOMAIN request /\ \A c \in DOMAIN call : request'[c] = request[c]
    BY DEF AInv, RequestsInv, Stage
  <1>2. DOMAIN call' = DOMAIN call /\ \A c \in DOMAIN call : call'[c] = call[c]
    BY DEF OnlyCall, StorageUnchangedBut
  <1> QED BY <1>1, <1>2 DEF OnlyCall, StorageUnchangedBut, StartsMove

LEMMA SucceedsAccess ==
    ASSUME IInv, AInv, NEW h \in DOMAIN start, Succeeds(h)
    PROVE  AInv'
  <1>1. Forget({h})
    BY DEF Succeeds
  <1>2. DOMAIN start' \subseteq DOMAIN start \ {h} /\ \A k \in DOMAIN start' : start'[k] = start[k]
    BY <1>1, Forgotten
  <1>3. CASE h \in Processes
    <2>1. StartsMove
      BY <1>3 DEF Succeeds, EndOfMain, StorageUnchangedBut, StartsMove
    <2> QED BY <1>1, <2>1, EndsAlone
  <1>4. CASE h \notin Processes /\ IsRepair(h)
    BY <1>2, <1>4, DonePermits DEF Succeeds, EndOfRepair, IsRepair
  <1>5. CASE h \notin Processes /\ ~IsRepair(h)
    <2>1. Stage(h, "handler") /\ OnlyCall(h, call[h])
      BY <1>5 DEF Succeeds, EndOfRequest
    <2>2. CASE h \notin DOMAIN call
      <3> DEFINE rec == call[h]
      <3>1. StartsMove
        <4> HIDE DEF rec
        <4> QED BY <2>1, <2>2, NobodyServed DEF rec
      <3> QED BY <1>1, <3>1, EndsAlone
    <2>3. CASE h \in DOMAIN call
      <3>1. Others(h) /\ RowsFollow /\ call'[h] = call[h]
        BY <2>1, <2>3, Staged, OnlyOne DEF Others
      <3>2. /\ ClientFields \subseteq DOMAIN request'[h] /\ request'[h].stage = "handler"
            /\ request'[h].user = request[h].user
        BY <2>1, <2>3, Staged
      <3>3. request[h].user # None => request[h].stage = "starting"
        BY <1>5, <2>3 DEF AInv, StartsInv
      <3>4. request[h].user # None => Permitted(request'[h], call'[h], history', memory')
        BY <2>3, <3>1, <3>2, <3>3 DEF AInv, PermitsInv, Permitted
      <3>5. RequestsInv' /\ PermitsInv'
        BY <3>1, <3>2, <3>4, PermitsKept
      <3>6. StartsInv'
        <4>1. \A k \in DOMAIN start' : "at" \in DOMAIN start'[k] /\ start'[k].at = start[k].at
          BY <1>2 DEF AInv, StartsInv
        <4>2. \A k \in DOMAIN call : /\ request'[k].user = request[k].user /\ call'[k] = call[k]
                                     /\ k \in DOMAIN start' => request'[k] = request[k]
          BY <1>2, <3>1, <3>2 DEF Others
        <4> QED BY <1>2, <3>1, <4>1, <4>2, StartsKept DEF Others
      <3> QED BY <3>5, <3>6 DEF AInv
    <2> QED BY <2>2, <2>3
  <1> QED BY <1>3, <1>4, <1>5

LEMMA FailsAccess ==
    ASSUME IInv, AInv, NEW h \in DOMAIN start, Fails(h)
    PROVE  AInv'
  <1>1. Forget({h})
    BY DEF Fails
  <1>2. DOMAIN start' \subseteq DOMAIN start \ {h} /\ \A k \in DOMAIN start' : start'[k] = start[k]
    BY <1>1, Forgotten
  <1>3. CASE h \in Processes
    <2>1. StartsMove
      BY <1>3 DEF Fails, EndOfMain, StorageUnchangedBut, StartsMove
    <2> QED BY <1>1, <2>1, EndsAlone
  <1>4. CASE h \notin Processes
    <2>1. PICK a : Stage(h, "done") /\ OnlyCall(h, End(h, a))
      BY <1>4 DEF Fails, EndOfRepair, EndOfRequest
    <2>2. CASE h \in DOMAIN call
      BY <1>2, <2>1, <2>2, DonePermits
    <2>3. CASE h \notin DOMAIN call
      <3> DEFINE rec == End(h, a)
      <3>1. StartsMove
        <4>1. OnlyCall(h, rec)
          BY <2>1
        <4> HIDE DEF rec
        <4> QED BY <2>1, <2>3, <4>1, NobodyServed
      <3> QED BY <1>1, <3>1, EndsAlone
    <2> QED BY <2>2, <2>3
  <1> QED BY <1>3, <1>4

LEMMA BeginsOne ==
    ASSUME AInv, NEW h, NEW p, NEW cost, Begin(h, p, cost)
    PROVE  \A k \in DOMAIN start' : /\ "at" \in DOMAIN start'[k]
                                    /\ k \in DOMAIN start => start'[k].at = start[k].at
                                    /\ k \notin DOMAIN start => k = h /\ start'[k].at = p
  BY DEF AInv, StartsInv, Begin, With, NewStart

LEMMA BootAccess ==
    ASSUME AInv, NEW p \in Processes, Boot(p)
    PROVE  AInv'
  <1>1. StartsMove
    BY DEF Boot, StorageUnchangedBut, StartsMove
  <1>2. Begin(p, p, 1) \/ start' = start
    BY DEF Boot
  <1>3. \A k \in DOMAIN start' : /\ "at" \in DOMAIN start'[k]
                                 /\ k \in Processes \/ (k \in DOMAIN start /\ start'[k].at = start[k].at)
    BY <1>2, BeginsOne DEF AInv, StartsInv
  <1> QED BY <1>1, <1>3, OnlyStarts

LEMMA CrashAccess ==
    ASSUME IInv, AInv, NEW p \in Processes, Crash(p)
    PROVE  AInv'
  <1> DEFINE lost == {c \in DOMAIN call : Host(c) = p /\ ~At(c, "done")}
             starts == {h \in DOMAIN start : start[h].at = p}
  <1>1. /\ request' = [c \in DOMAIN call |->
                         IF c \in lost THEN [request[c] EXCEPT !.stage = "done"] ELSE request[c]]
        /\ call' = [c \in DOMAIN call |-> IF c \in lost THEN End(c, "dropped") ELSE call[c]]
        /\ memory' = memory /\ history' = history /\ Forget(starts)
    BY DEF Crash, StorageUnchangedBut
  <1>2. RowsFollow
    BY <1>1, RowsStay
  <1>3. DOMAIN start' = DOMAIN start \ starts /\ \A k \in DOMAIN start' : start'[k] = start[k]
    BY <1>1, Forgotten
  <1>4. DOMAIN request' = DOMAIN call /\ DOMAIN call' = DOMAIN call
    BY <1>1
  <1>5. ASSUME NEW c \in DOMAIN call
        PROVE  /\ ClientFields \subseteq DOMAIN request'[c]
               /\ request'[c].user = request[c].user /\ request'[c].at = request[c].at
               /\ call'[c].req = call[c].req
               /\ \/ request'[c].stage = "done" /\ c \in lost
                  \/ request'[c] = request[c] /\ call'[c] = call[c] /\ c \notin lost
    BY <1>1, EndKeeps DEF AInv, RequestsInv, ClientFields
  <1>6. RequestsInv'
    BY <1>4, <1>5 DEF RequestsInv
  <1>7. PermitsInv'
    <2> SUFFICES ASSUME NEW c \in DOMAIN call, request'[c].user # None
                 PROVE  Permitted(request'[c], call'[c], history', memory')
      BY <1>4 DEF PermitsInv
    <2>1. CASE request'[c].stage = "done"
      BY <2>1 DEF Permitted
    <2>2. CASE request'[c] = request[c] /\ call'[c] = call[c]
      BY <1>2, <2>2, PermittedKept DEF AInv, PermitsInv
    <2> QED BY <1>5, <2>1, <2>2
  <1>8. StartsInv'
    <2>1. ASSUME NEW h \in DOMAIN call, request[h].user # None, h \in DOMAIN start',
                 h \notin Processes, ~IsRepair(h)
          PROVE  request'[h].stage = "starting" /\ request'[h].at = request[h].at
                 /\ start'[h].at = request[h].at
      <3>1. request[h].stage = "starting" /\ start[h].at = request[h].at /\ h \notin starts
        BY <1>3, <2>1 DEF AInv, StartsInv, Host
      <3>2. h \notin lost
        BY <1>3, <2>1, <3>1 DEF Host
      <3> QED BY <1>3, <1>5, <2>1, <3>1, <3>2
    <2>2. \A h \in DOMAIN start' : "at" \in DOMAIN start'[h]
      BY <1>3 DEF AInv, StartsInv
    <2>3. \A h \in DOMAIN call : request'[h].user = request[h].user /\ call'[h].req = call[h].req
      BY <1>5
    <2> HIDE DEF lost, starts
    <2> QED BY <1>4, <2>1, <2>2, <2>3 DEF StartsInv, IsRepair, Op, Host
  <1> QED BY <1>6, <1>7, <1>8 DEF AInv

LEMMA RepairAccess ==
    ASSUME AInv, NEW c \in DOMAIN call, StartRepair(c)
    PROVE  AInv'
  <1> DEFINE new == NewStart(None, 13, FALSE)
  <1>1. /\ request[c].stage = "new" /\ call[c].req.op = "repairData" /\ Stage(c, "starting")
        /\ start' = With(start, c, new) /\ "at" \in DOMAIN new
    BY DEF StartRepair, InStage, Op, NewStart
  <1>2. request[c].user = None
    BY <1>1 DEF AInv, PermitsInv, Permitted
  <1>3. Others(c) /\ RowsFollow /\ call'[c] = call[c]
    BY <1>1, Staged, RowsStay DEF Others, StartRepair, StorageUnchangedBut
  <1>4. request'[c].user = None /\ ClientFields \subseteq DOMAIN request'[c]
    BY <1>1, <1>2, Staged
  <1>5. RequestsInv' /\ PermitsInv'
    BY <1>3, <1>4, PermitsKept
  <1>6. \A k \in DOMAIN start' : /\ "at" \in DOMAIN start'[k]
                                 /\ k = c \/ (k \in DOMAIN start /\ start'[k] = start[k])
    <2> HIDE DEF new
    <2> QED BY <1>1 DEF AInv, StartsInv, With
  <1>7. StartsInv'
    BY <1>3, <1>4, <1>6 DEF AInv, StartsInv, IsRepair, Op, Host, Others
  <1> QED BY <1>5, <1>7 DEF AInv

LEMMA AuthenticateAccess ==
    ASSUME IInv, AInv, NEW c \in DOMAIN call, Authenticate(c)
    PROVE  AInv'
  <1>1. PICK p \in Processes :
          LET pass == server[p].mode = "local" \/
                        (request[c].token /\ (request[c].user # None => Op(c) \in UserScoped))
              user == IF server[p].mode = "local" THEN None ELSE request[c].user
          IN  /\ request' = [request EXCEPT ![c].at = p, ![c].user = user,
                                            ![c].stage = IF pass THEN "runtime" ELSE "done"]
              /\ OnlyCall(c, IF pass THEN call[c] ELSE End(c, "refused"))
    BY DEF Authenticate
  <1>2. request[c].stage = "new" /\ start' = start
    BY DEF Authenticate, InStage
  <1>3. PICK user, stage :
          /\ request' = [request EXCEPT ![c].at = p, ![c].user = user, ![c].stage = stage]
          /\ user # None => user = request[c].user
          /\ \/ stage = "done" /\ OnlyCall(c, End(c, "refused"))
             \/ /\ stage = "runtime" /\ OnlyCall(c, call[c])
                /\ user # None => Op(c) \in UserScoped
    BY <1>1
  <1>4. /\ DOMAIN request' = DOMAIN request
        /\ \A d \in DOMAIN call \ {c} : request'[d] = request[d]
        /\ ClientFields \subseteq DOMAIN request'[c]
        /\ request'[c].stage = stage /\ request'[c].user = user
    BY <1>3 DEF AInv, RequestsInv, ClientFields
  <1>5. Others(c) /\ RowsFollow
        /\ \/ stage = "done" /\ call'[c].req = call[c].req
           \/ stage = "runtime" /\ call'[c] = call[c] /\ (user # None => Op(c) \in UserScoped)
    <2>1. CASE stage = "done" /\ OnlyCall(c, End(c, "refused"))
      BY <1>4, <2>1, OnlyOne, EndKeeps DEF Others
    <2>2. CASE /\ stage = "runtime" /\ OnlyCall(c, call[c])
               /\ user # None => Op(c) \in UserScoped
      <3> DEFINE rec == call[c]
      <3>1. OnlyCall(c, rec)
        BY <2>2
      <3>2. /\ DOMAIN call' = DOMAIN call /\ call'[c] = rec /\ RowsFollow
            /\ \A d \in DOMAIN call \ {c} : call'[d] = call[d]
        <4> HIDE DEF rec
        <4> QED BY <3>1, OnlyOne
      <3> QED BY <1>4, <2>2, <3>2 DEF Others
    <2> QED BY <1>3, <2>1, <2>2
  <1>6. request'[c].user # None => Permitted(request'[c], call'[c], history', memory')
    BY <1>2, <1>3, <1>4, <1>5 DEF AInv, PermitsInv, Permitted, Op
  <1>7. RequestsInv' /\ PermitsInv'
    BY <1>4, <1>5, <1>6, PermitsKept
  <1>8. StartsInv'
    <2>1. \A h \in DOMAIN start' : "at" \in DOMAIN start'[h] /\ start'[h].at = start[h].at
      BY <1>2 DEF AInv, StartsInv
    <2>2. \A h \in DOMAIN call : /\ request'[h].user # None => request[h].user # None
                                 /\ call'[h].req = call[h].req
                                 /\ h = c \/ request'[h] = request[h]
      BY <1>3, <1>4, <1>5 DEF Others
    <2> QED BY <1>2, <1>5, <2>1, <2>2, StartsKept DEF Others
  <1> QED BY <1>7, <1>8 DEF AInv

\* A request goes on to a stage, its call as it was.
LEMMA StageAccess ==
    ASSUME AInv, NEW c \in DOMAIN call, NEW s, Stage(c, s), StorageUnchangedBut(call),
           request[c].stage # "starting",
           request[c].user # None =>
               \A g : g.stage = s /\ g.user = request[c].user =>
                    Permitted(g, call[c], history, memory),
           \A k \in DOMAIN start' :
              /\ "at" \in DOMAIN start'[k]
              /\ \/ k \in DOMAIN start /\ start'[k].at = start[k].at
                 \/ k = c /\ s = "starting" /\ start'[k].at = Host(c)
    PROVE  AInv'
  <1>1. /\ call' = call /\ memory' = memory /\ history' = history
    BY DEF StorageUnchangedBut
  <1>2. Others(c) /\ RowsFollow
    BY <1>1, Staged, RowsStay DEF Others
  <1>3. /\ ClientFields \subseteq DOMAIN request'[c] /\ request'[c].stage = s
        /\ request'[c].user = request[c].user /\ request'[c].at = request[c].at
    BY Staged
  <1>4. request[c].user # None => Permitted(request'[c], call[c], history, memory)
    BY <1>3
  <1>5. RequestsInv' /\ PermitsInv'
    BY <1>1, <1>2, <1>3, <1>4, PermitsKept
  <1>6. StartsInv'
    <2> SUFFICES ASSUME NEW h \in DOMAIN start', h \in DOMAIN call, h \notin Processes, ~IsRepair(h),
                        request'[h].user # None
                 PROVE  request'[h].stage = "starting" /\ start'[h].at = request'[h].at
      BY <1>1 DEF StartsInv, IsRepair, Op, Host
    <2>1. CASE h = c
      <3>1. h \notin DOMAIN start
        BY <1>3, <2>1 DEF AInv, StartsInv
      <3> QED BY <1>3, <2>1, <3>1 DEF Host
    <2>2. CASE h # c
      BY <1>2, <2>2 DEF Others, AInv, StartsInv, Host
    <2> QED BY <2>1, <2>2
  <1> QED BY <1>5, <1>6 DEF AInv

LEMMA WaitAccess ==
    ASSUME AInv, NEW c \in DOMAIN call, Initialise(c) \/ Resolve(c)
    PROVE  AInv'
  <1>1. request[c].stage = "runtime" /\ StorageUnchangedBut(call)
    BY DEF Initialise, Resolve, InStage
  <1>2. ASSUME NEW s \in {"starting", "handler"}, request[c].user # None
        PROVE  \A g : g.stage = s /\ g.user = request[c].user =>
                    Permitted(g, call[c], history, memory)
    BY <1>1, <1>2 DEF AInv, PermitsInv, Permitted
  <1>3. CASE Initialise(c)
    <2> DEFINE p == Host(c)
    <2>1. Begin(c, p, 0) /\ Stage(c, "starting")
      BY <1>3 DEF Initialise
    <2>2. \A k \in DOMAIN start' : /\ "at" \in DOMAIN start'[k]
                                   /\ k \in DOMAIN start => start'[k].at = start[k].at
                                   /\ k \notin DOMAIN start => k = c /\ start'[k].at = p
      <3> HIDE DEF p
      <3> QED BY <2>1, BeginsOne
    <2> QED BY <1>1, <1>2, <2>1, <2>2, StageAccess
  <1>4. CASE Resolve(c)
    <2>1. Stage(c, "handler") /\ start' = start
      BY <1>4 DEF Resolve
    <2> QED BY <1>1, <1>2, <2>1, StageAccess DEF AInv, StartsInv
  <1> QED BY <1>3, <1>4

LEMMA DisconnectAccess ==
    ASSUME IInv, AInv, NEW c \in DOMAIN call, Disconnect(c)
    PROVE  AInv'
  <1>1. Stage(c, "done") /\ OnlyCall(c, End(c, "dropped")) /\ Forget({c})
    BY DEF Disconnect
  <1>2. DOMAIN start' \subseteq DOMAIN start \ {c} /\ \A k \in DOMAIN start' : start'[k] = start[k]
    BY <1>1, Forgotten
  <1> QED BY <1>1, <1>2, DonePermits

LEMMA SweepAccess ==
    ASSUME AInv, NEW c \in DOMAIN call, BeginSweep(c)
    PROVE  AInv'
  <1>1. PICK p \in Processes : request' = [request EXCEPT ![c].at = p, ![c].stage = "in"]
    BY DEF BeginSweep
  <1>2. /\ request[c].stage = "new" /\ call[c].req.op = "sweep" /\ start' = start
        /\ call' = call /\ memory' = memory /\ history' = history
    BY DEF BeginSweep, InStage, Op, StorageUnchangedBut
  <1>3. request[c].user = None
    BY <1>2 DEF AInv, PermitsInv, Permitted
  <1>4. Others(c) /\ RowsFollow /\ ClientFields \subseteq DOMAIN request'[c]
        /\ request'[c].user = request[c].user
    BY <1>1, <1>2, RowsStay DEF Others, AInv, RequestsInv, ClientFields
  <1>5. RequestsInv' /\ PermitsInv'
    BY <1>3, <1>4, PermitsKept
  <1>6. StartsInv'
    BY <1>2, <1>3, <1>4 DEF AInv, StartsInv, IsRepair, Op, Host, Others
  <1> QED BY <1>5, <1>6 DEF AInv

LEMMA HandleAccess ==
    ASSUME IInv, AInv, NEW c \in DOMAIN call, Handle(c)
    PROVE  AInv'
  <1> DEFINE op == OpFor(c)
             owner == OwnerFor(c)
             s == [call[c] EXCEPT !.req.op = op, !.req.owner = owner]
  <1>1. /\ request[c].stage = "handler" /\ start' = start
        /\ \/ Stage(c, "done") /\ OnlyCall(c, End(c, "error"))
           \/ Stage(c, "in") /\ OnlyCall(c, s)
    BY DEF Handle, InStage
  <1>2. CallFields \subseteq DOMAIN call[c] /\ ReqFields \subseteq DOMAIN call[c].req
    BY DEF IInv, CallsInv, CallOK
  <1>3. /\ request[c].user # None =>
             /\ owner = request[c].user /\ call[c].pc = "start"
             /\ \/ op \in {"add", "deleteAll"}
                \/ op \in {"updateOwned", "deleteOwned"}
        /\ call[c].req.op = "repairData" => op = "repairData"
    BY <1>1 DEF AInv, PermitsInv, Permitted, UserScoped, OpFor, OwnerFor, Op
  <1> HIDE DEF op, owner
  <1>4. s.pc = call[c].pc /\ s.req.op = op /\ s.req.owner = owner
    BY <1>2 DEF CallFields, ReqFields
  <1> HIDE DEF s
  <1>5. /\ Others(c) /\ RowsFollow /\ ClientFields \subseteq DOMAIN request'[c]
        /\ request'[c].user = request[c].user
        /\ \/ request'[c].stage = "done" /\ call'[c].req = call[c].req
           \/ request'[c].stage = "in" /\ call'[c] = s
    <2>1. CASE Stage(c, "done") /\ OnlyCall(c, End(c, "error"))
      BY <2>1, Staged, OnlyOne, EndKeeps DEF Others
    <2>2. CASE Stage(c, "in") /\ OnlyCall(c, s)
      BY <2>2, Staged, OnlyOne DEF Others
    <2> QED BY <1>1, <2>1, <2>2
  <1>6. request'[c].user # None => Permitted(request'[c], call'[c], history', memory')
    BY <1>3, <1>4, <1>5 DEF Permitted, Scoped, AddPath, UpdatePath, DeletePath, ErasePath
  <1>7. RequestsInv' /\ PermitsInv'
    BY <1>5, <1>6, PermitsKept
  <1>8. StartsInv'
    <2>1. \A h \in DOMAIN start' : "at" \in DOMAIN start'[h] /\ start'[h].at = start[h].at
      BY <1>1 DEF AInv, StartsInv
    <2>2. \A h \in DOMAIN call : /\ request'[h].user = request[h].user
                                 /\ call[h].req.op = "repairData" => call'[h].req.op = "repairData"
                                 /\ h = c \/ request'[h] = request[h]
      BY <1>3, <1>4, <1>5 DEF Others
    <2> QED BY <1>1, <1>5, <2>1, <2>2, StartsKept DEF Others
  <1> QED BY <1>7, <1>8 DEF AInv

-----------------------------------------------------------------------------
(* In the storage *)

\* What a call that acts for a user may do next.
ForUser(c) ==
    \/ StartAdd(c) \/ SearchDuplicates(c) \/ InsertMemory(c) \/ Readback(c)
    \/ StartGet(c) \/ GetMemory(c) \/ WriteUpdate(c) \/ GetUpdated(c) \/ DeleteOwned(c)
    \/ StartDeleteAll(c) \/ SeeMemory(c) \/ WriteDelete(c) \/ AllDeleted(c) \/ Abandon(c)

LEMMA ScopedActions ==
    ASSUME NEW c \in DOMAIN call, NEW u, Scoped(call[c], u, history, memory), CallStep(c)
    PROVE  ForUser(c)
  <1>1. /\ call[c].req.op \in {"add", "updateOwned", "deleteOwned", "deleteAll"}
        /\ call[c].pc \in AddPath \cup UpdatePath \cup DeletePath \cup ErasePath
    BY DEF Scoped
  <1>2. ~StreamStep(c)
    BY <1>1 DEF AddPath, UpdatePath, DeletePath, ErasePath, Starts, At, Op,
         StreamStep, CreateStream, SetStatus, StartAddTo, SeeCounter, StartDeleteStream,
         ListMembers, DropStream, StartCompress, StartSummarize, LoadStream, SelectSources, Generate,
         CheckPublished, Publish, Confirm
  <1>3. ~DocumentStep(c)
    BY <1>1 DEF AddPath, UpdatePath, DeletePath, ErasePath, Starts, At, Op,
         DocumentStep, CreateMap, ReadMap, EditMap, FindMap, DropMap, UnlinkMaps,
         FindStreamOfStep, FindStep, CreateStep, RefetchStep, CompleteStep, SetStep,
         CreateEntity, CreateRelation, DeleteRelation, DeleteEntity, ReadEntity, UpdateEntity
  <1>4. /\ ~StartDelete(c) /\ ~StartSweep(c) /\ ~SweepOne(c) /\ ~CountSwept(c) /\ ~SweepFails(c)
        /\ ~SweepEnds(c) /\ ~StartIndexed(c) /\ ~CreateIndexed(c) /\ ~GetIndexed(c)
    BY <1>1 DEF AddPath, UpdatePath, DeletePath, ErasePath, Starts, At, Op,
         StartDelete, StartSweep, SweepOne, CountSwept, SweepFails, SweepEnds,
         StartIndexed, CreateIndexed, GetIndexed
  <1> QED BY <1>2, <1>3, <1>4 DEF CallStep, MemoryStep, ForUser

LEMMA EndScoped ==
    ASSUME IInv, NEW c \in DOMAIN call, NEW u, Scoped(call[c], u, history, memory), NEW a,
           NEW hist, NEW rows
    PROVE  Scoped(End(c, a), u, hist, rows)
  BY EndKeeps DEF Scoped, AddPath, UpdatePath, DeletePath, ErasePath

LEMMA AddScoped ==
    ASSUME IInv, NEW c \in DOMAIN call, NEW u, Scoped(call[c], u, history, memory), RowsFollow,
           \/ StartAdd(c) \/ SearchDuplicates(c) \/ InsertMemory(c) \/ Readback(c)
    PROVE  \E s : Set(c, s) /\ Scoped(s, u, history', memory')
  <1>1. \A a : Scoped(End(c, a), u, history', memory')
    BY EndScoped
  <1>2. CASE StartAdd(c)
    <2>1. Set(c, Goto(c, "search")) /\ Op(c) = "add"
      BY <1>2 DEF StartAdd, Starts
    <2>2. Scoped(Goto(c, "search"), u, history', memory')
      BY <2>1, GoesTo DEF Scoped, AddPath, Op
    <2> QED BY <2>1, <2>2
  <1>3. CASE SearchDuplicates(c)
    <2>0. call[c].req.op = "add" /\ call[c].req.owner = u /\ UNCHANGED <<memory, history>>
      BY <1>3 DEF SearchDuplicates, At, Scoped, AddPath, UpdatePath, DeletePath, ErasePath, ReadOnly
    <2>1. CASE Set(c, Goto(c, "insert"))
      <3>1. Scoped(Goto(c, "insert"), u, history', memory')
        BY <2>0, GoesTo DEF Scoped, AddPath
      <3> QED BY <2>1, <3>1
    <2>2. ASSUME NEW i \in Similar(c), Set(c, [Goto(c, "get") EXCEPT !.id = i])
          PROVE  \E s : Set(c, s) /\ Scoped(s, u, history', memory')
      <3> DEFINE g == Goto(c, "get")
      <3>1. i \in DOMAIN memory /\ memory[i].owner = u
        BY <2>0, <2>2 DEF Similar, Matches, Req, Scoped
      <3>2. Mine(i, u, history', memory')
        BY <2>0, <3>1 DEF Mine, IInv, RowsInv, RowOK, Witnessed
      <3>3. g.req = call[c].req /\ g.pc = "get" /\ CallFields \subseteq DOMAIN g
        BY GoesTo
      <3>4. Set(c, [g EXCEPT !.id = i])
        BY <2>2
      <3> HIDE DEF g
      <3>5. Scoped([g EXCEPT !.id = i], u, history', memory')
        BY <2>0, <3>2, <3>3 DEF Scoped, AddPath, CallFields
      <3> QED BY <3>4, <3>5
    <2> QED BY <1>3, <2>1, <2>2 DEF SearchDuplicates
  <1>4. CASE InsertMemory(c)
    <2> DEFINE g == Goto(c, "readback")
               i == Req(c).key
    <2>1. Set(c, [g EXCEPT !.id = i])
      BY <1>4 DEF InsertMemory
    <2>2. call[c].req.op = "add" /\ call[c].req.owner = u
      BY <1>4 DEF InsertMemory, At, Scoped, AddPath, UpdatePath, DeletePath, ErasePath
    <2>3. g.req = call[c].req /\ g.pc = "readback" /\ CallFields \subseteq DOMAIN g
      BY GoesTo
    <2> HIDE DEF g, i
    <2>4. Scoped([g EXCEPT !.id = i], u, history', memory')
      BY <2>2, <2>3 DEF Scoped, AddPath, CallFields
    <2> QED BY <2>1, <2>4
  <1>5. CASE Readback(c)
    <2>1. call[c].req.op # "addTo"
      BY DEF Scoped
    <2>2. \E a : Set(c, End(c, a))
      BY <1>5, <2>1 DEF Readback, Stored, Op
    <2> QED BY <1>1, <2>2
  <1> QED BY <1>2, <1>3, <1>4, <1>5

LEMMA GetScoped ==
    ASSUME IInv, NEW c \in DOMAIN call, NEW u, Scoped(call[c], u, history, memory), RowsFollow,
           StartGet(c) \/ GetMemory(c) \/ WriteUpdate(c) \/ GetUpdated(c) \/ DeleteOwned(c)
    PROVE  \E s : Set(c, s) /\ Scoped(s, u, history', memory')
  <1>1. \A a : Scoped(End(c, a), u, history', memory')
    BY EndScoped
  <1>2. Scoped(call[c], u, history', memory')
    BY ScopedKept
  <1>3. CASE StartGet(c)
    <2> DEFINE g == Goto(c, "get")
               s == [g EXCEPT !.cutoff = clock]
    <2>1. Set(c, s) /\ Op(c) \in {"updateOwned", "deleteOwned"}
      BY <1>3 DEF StartGet, Starts, Scoped, Op
    <2>2. g.req = call[c].req /\ g.pc = "get" /\ CallFields \subseteq DOMAIN g
      BY GoesTo
    <2> HIDE DEF g
    <2>3. s.req = call[c].req /\ s.pc = "get"
      BY <2>2 DEF CallFields
    <2> HIDE DEF s
    <2>4. Scoped(s, u, history', memory')
      BY <1>2, <2>1, <2>3 DEF Scoped, UpdatePath, DeletePath, Op
    <2> QED BY <2>1, <2>4
  <1>4. CASE GetMemory(c)
    <2> DEFINE p == IF Op(c) = "deleteOwned" THEN "deleteOwned" ELSE "update"
               g == Goto(c, p)
               cut == IF IsOwned(c) THEN g.cutoff ELSE clock
               seen == Restrict(memory, {call[c].id})
               s == [g EXCEPT !.cutoff = cut, !.seen = seen]
    <2>1. Set(c, s) \/ Set(c, End(c, "error"))
      BY <1>4 DEF GetMemory
    <2>2. /\ call[c].pc = "get" /\ Op(c) = call[c].req.op
          /\ \/ p = "deleteOwned" /\ Op(c) = "deleteOwned"
             \/ p = "update" /\ Op(c) # "deleteOwned"
      BY <1>4 DEF GetMemory, At, Op
    <2>3. /\ g.req = call[c].req /\ g.pc = p /\ g.id = call[c].id /\ CallFields \subseteq DOMAIN g
      BY GoesTo
    <2> HIDE DEF p, g, cut, seen
    <2>4. s.req = call[c].req /\ s.pc = p /\ s.id = call[c].id
      BY <2>3 DEF CallFields
    <2> HIDE DEF s
    <2>5. Scoped(s, u, history', memory')
      BY <1>2, <2>2, <2>4 DEF Scoped, AddPath, UpdatePath, DeletePath, ErasePath
    <2> QED BY <1>1, <2>1, <2>5
  <1>5. CASE WriteUpdate(c)
    <2>1. Set(c, Goto(c, "updated")) \/ Set(c, End(c, "error"))
      BY <1>5 DEF WriteUpdate
    <2>2. call[c].pc = "update"
      BY <1>5 DEF WriteUpdate, At
    <2>3. Scoped(Goto(c, "updated"), u, history', memory')
      BY <1>2, <2>2, GoesTo DEF Scoped, AddPath, UpdatePath, DeletePath, ErasePath
    <2> QED BY <1>1, <2>1, <2>3
  <1>6. CASE GetUpdated(c)
    <2>1. call[c].req.op # "addTo"
      BY DEF Scoped
    <2>2. \E a : Set(c, End(c, a))
      BY <1>6, <2>1 DEF GetUpdated, Stored, Op
    <2> QED BY <1>1, <2>2
  <1>7. CASE DeleteOwned(c)
    <2>1. \E a : Set(c, End(c, a))
      BY <1>7 DEF DeleteOwned
    <2> QED BY <1>1, <2>1
  <1> QED BY <1>3, <1>4, <1>5, <1>6, <1>7

LEMMA EraseScoped ==
    ASSUME IInv, NEW c \in DOMAIN call, NEW u, Scoped(call[c], u, history, memory), RowsFollow,
           StartDeleteAll(c) \/ SeeMemory(c) \/ WriteDelete(c) \/ AllDeleted(c) \/ Abandon(c)
    PROVE  \E s : Set(c, s) /\ Scoped(s, u, history', memory')
  <1>1. \A a : Scoped(End(c, a), u, history', memory')
    BY EndScoped
  <1>2. Scoped(call[c], u, history', memory')
    BY ScopedKept
  <1>3. CASE StartDeleteAll(c)
    <2> DEFINE todo == {i \in DOMAIN memory : Matches(memory[i].owner, Req(c).owner)}
               g == Goto(c, "next")
               s == [g EXCEPT !.todo = todo]
    <2>1. /\ Set(c, s) /\ call[c].req.op = "deleteAll" /\ call[c].req.owner = u
          /\ UNCHANGED <<memory, history>>
      BY <1>3 DEF StartDeleteAll, Starts, Op, Scoped, ReadOnly
    <2>2. \A i \in todo : Mine(i, u, history', memory')
      BY <2>1 DEF Mine, IInv, RowsInv, RowOK, Witnessed, Req, Matches, Scoped
    <2>3. g.req = call[c].req /\ g.pc = "next" /\ CallFields \subseteq DOMAIN g
      BY GoesTo
    <2> HIDE DEF todo, g
    <2>4. s.req = call[c].req /\ s.pc = "next" /\ s.todo = todo
      BY <2>3 DEF CallFields
    <2> HIDE DEF s
    <2>5. Scoped(s, u, history', memory')
      BY <2>1, <2>2, <2>4 DEF Scoped, ErasePath
    <2> QED BY <2>1, <2>5
  <1>4. CASE SeeMemory(c)
    <2>1. PICK i \in call[c].todo :
             Set(c, [Goto(c, "delete") EXCEPT
                        !.id = i, !.todo = @ \ {i}, !.cutoff = clock,
                        !.seen = Restrict(memory, DOMAIN memory \cap {i})])
      BY <1>4 DEF SeeMemory
    <2> DEFINE g == Goto(c, "delete")
               seen == Restrict(memory, DOMAIN memory \cap {i})
               s == [g EXCEPT !.id = i, !.todo = @ \ {i}, !.cutoff = clock, !.seen = seen]
    <2>2. Set(c, s)
      BY <2>1
    <2>3. call[c].pc = "next" /\ call[c].req.op = "deleteAll"
      BY <1>4 DEF SeeMemory, At, Scoped, AddPath, UpdatePath, DeletePath
    <2>4. g.req = call[c].req /\ g.pc = "delete" /\ g.todo = call[c].todo /\ CallFields \subseteq DOMAIN g
      BY GoesTo
    <2> HIDE DEF g, seen
    <2>5. s.req = call[c].req /\ s.pc = "delete" /\ s.id = i /\ s.todo = call[c].todo \ {i}
      BY <2>4 DEF CallFields
    <2> HIDE DEF s
    <2>6. \A j \in call[c].todo : Mine(j, u, history', memory')
      BY <1>2, <2>3 DEF Scoped
    <2>7. Scoped(s, u, history', memory')
      BY <1>2, <2>1, <2>3, <2>5, <2>6 DEF Scoped, ErasePath
    <2> QED BY <2>2, <2>7
  <1>5. CASE WriteDelete(c)
    <2>1. Set(c, Goto(c, "next")) /\ call[c].pc = "delete"
      BY <1>5 DEF WriteDelete, At
    <2>2. Scoped(Goto(c, "next"), u, history', memory')
      BY <1>2, <2>1, GoesTo DEF Scoped, AddPath, UpdatePath, DeletePath, ErasePath
    <2> QED BY <2>1, <2>2
  <1>6. CASE AllDeleted(c)
    <2>1. call[c].req.op # "deleteStream"
      BY DEF Scoped
    <2>2. Set(c, End(c, "ok"))
      BY <1>6, <2>1 DEF AllDeleted, Op
    <2> QED BY <1>1, <2>2
  <1>7. CASE Abandon(c)
    BY <1>1, <1>7 DEF Abandon
  <1> QED BY <1>3, <1>4, <1>5, <1>6, <1>7

LEMMA ScopedStep ==
    ASSUME IInv, NEW c \in DOMAIN call, NEW u, Scoped(call[c], u, history, memory), CallStep(c)
    PROVE  /\ RowsFollow
           /\ \E s : Set(c, s) /\ Scoped(s, u, history', memory')
  <1>1. RowsFollow
    BY CallFollows
  <1>2. ForUser(c)
    BY ScopedActions
  <1> QED BY <1>1, <1>2, AddScoped, GetScoped, EraseScoped DEF ForUser

LEMMA ServeAccess ==
    ASSUME IInv, AInv, NEW c \in DOMAIN call, Serve(c)
    PROVE  AInv'
  <1>1. request[c].stage = "in" /\ CallStep(c) /\ request' = request /\ start' = start
    BY DEF Serve, InStage
  <1>2. RowsFollow
    BY <1>1, CallFollows
  <1>3. Others(c)
    BY <1>1, SetsSome, SetsOne DEF Others
  <1>4. ASSUME request[c].user # None
        PROVE  /\ Permitted(request[c], call'[c], history', memory')
               /\ call[c].req.op # "repairData"
    <2> DEFINE u == request[c].user
    <2>1. Scoped(call[c], u, history, memory)
      BY <1>1, <1>4 DEF AInv, PermitsInv, Permitted
    <2>2. Scoped(call'[c], u, history', memory')
      <3> HIDE DEF u
      <3> QED BY <1>1, <2>1, ScopedStep, SetsOne
    <2> QED BY <1>1, <2>1, <2>2 DEF Permitted, Scoped
  <1>5. RequestsInv' /\ PermitsInv'
    BY <1>1, <1>2, <1>3, <1>4, PermitsKept DEF AInv, RequestsInv
  <1>6. StartsInv'
    <2>1. \A h \in DOMAIN call : request[h].user # None /\ call[h].req.op = "repairData" =>
                                   call'[h].req.op = "repairData"
      BY <1>3, <1>4 DEF Others
    <2>2. \A h \in DOMAIN start' : "at" \in DOMAIN start'[h] /\ start'[h].at = start[h].at
      BY <1>1 DEF AInv, StartsInv
    <2> QED BY <1>1, <1>3, <2>1, <2>2, StartsKept DEF Others
  <1> QED BY <1>5, <1>6 DEF AInv

LEMMA RefusedAccess ==
    ASSUME IInv, AInv, NEW c \in DOMAIN call, IndexRefuses(c)
    PROVE  AInv'
  <1>1. /\ request[c].stage = "in" /\ request' = request /\ start' = start
        /\ \/ call[c].pc = "create" /\ OnlyCall(c, Goto(c, "recheck"))
           \/ call[c].pc = "publish" /\ OnlyCall(c, Goto(c, "thrown"))
           \/ OnlyCall(c, End(c, "error"))
    BY DEF IndexRefuses, InStage, At, serverVars
  <1>2. Others(c) /\ RowsFollow /\ call'[c].req = call[c].req
    BY <1>1, OnlyOne, EndKeeps, GoesTo DEF Others
  <1>3. ASSUME request[c].user # None
        PROVE  Permitted(request[c], call'[c], history', memory')
    <2> DEFINE u == request[c].user
    <2>1. Scoped(call[c], u, history, memory)
      BY <1>1, <1>3 DEF AInv, PermitsInv, Permitted
    <2>2. OnlyCall(c, End(c, "error"))
      BY <1>1, <2>1 DEF Scoped, AddPath, UpdatePath, DeletePath, ErasePath
    <2>3. Scoped(call'[c], u, history', memory')
      <3> HIDE DEF u
      <3> QED BY <2>1, <2>2, EndScoped, OnlyOne
    <2> QED BY <1>1, <2>3 DEF Permitted
  <1>4. RequestsInv' /\ PermitsInv'
    BY <1>1, <1>2, <1>3, PermitsKept DEF AInv, RequestsInv
  <1>5. StartsInv'
    <2>1. \A h \in DOMAIN call : call'[h].req = call[h].req
      BY <1>2 DEF Others
    <2>2. \A h \in DOMAIN start' : "at" \in DOMAIN start'[h] /\ start'[h].at = start[h].at
      BY <1>1 DEF AInv, StartsInv
    <2> QED BY <1>1, <1>2, <2>1, <2>2, StartsKept DEF Others
  <1> QED BY <1>4, <1>5 DEF AInv

-----------------------------------------------------------------------------
(* The theorems *)

LEMMA AccessStep ==
    ASSUME IInv, AInv, [Next]_vars
    PROVE  AInv'
  <1>1. ASSUME NEW c \in DOMAIN call,
               \/ Serve(c) \/ IndexRefuses(c) \/ Authenticate(c) \/ RequestStep(c)
               \/ Disconnect(c) \/ BeginSweep(c) \/ StartRepair(c)
        PROVE  AInv'
    BY <1>1, ServeAccess, RefusedAccess, AuthenticateAccess, WaitAccess, HandleAccess,
       DisconnectAccess, SweepAccess, RepairAccess DEF RequestStep
  <1>2. ASSUME NEW h \in DOMAIN start, StartStep(h) PROVE AInv'
    BY <1>2, StatementAccess, SucceedsAccess, FailsAccess DEF StartStep
  <1>3. ASSUME NEW p \in Processes, Boot(p) \/ Crash(p) PROVE AInv'
    BY <1>3, BootAccess, CrashAccess
  <1>4. CASE (Tick /\ UNCHANGED <<derivations, docVars, serverVars>>) \/ UNCHANGED vars
    <2>1. StartsMove /\ start' = start
      BY <1>4 DEF Tick, vars, storageVars, storeVars, serverVars, StartsMove
    <2> QED BY <2>1, OnlyStarts DEF AInv, StartsInv
  <1> QED BY <1>1, <1>2, <1>3, <1>4 DEF Next

LEMMA AccessStart == Init => AInv
  <1> SUFFICES ASSUME Init PROVE AInv
    OBVIOUS
  <1>1. PICK w \in Workloads :
          /\ call = [c \in DOMAIN w.calls |-> NewCall(w.calls[c])]
          /\ request = [c \in DOMAIN w.calls |-> w.clients[c]]
          /\ start = << >>
    BY DEF Init, InitStorage, InitStore
  <1>2. DOMAIN call = DOMAIN w.calls /\ DOMAIN request = DOMAIN w.calls
        /\ \A c \in DOMAIN call : /\ request[c] = w.clients[c] /\ call[c].pc = "start"
                                  /\ call[c].req = w.calls[c]
    BY <1>1 DEF NewCall
  <1>3. RequestsInv
    BY <1>2, ClientAssumption DEF RequestsInv, ClientFields
  <1>4. PermitsInv
    BY <1>2, ClientAssumption DEF PermitsInv, Permitted
  <1>5. StartsInv
    BY <1>1 DEF StartsInv
  <1> QED BY <1>3, <1>4, <1>5 DEF AInv

\* The invariant the theorem below rests on: a request of a restricted user is in
\* the storage only with an operation of src/api/memory.rs, under that user as the
\* owner, and the rows it has in its hands are that user's or are gone for good.
THEOREM AccessInductive == Spec => [](IInv /\ AInv)
  <1>1. Init => IInv /\ AInv
    BY Start, AccessStart
  <1>2. IInv /\ AInv /\ [Next]_vars => IInv' /\ AInv'
    BY Step, AccessStep
  <1> QED BY <1>1, <1>2, PTL DEF Spec

LEMMA RowsOfOthers ==
    ASSUME IInv, AInv, [Next]_vars, NEW c \in DOMAIN call, call'[c] # call[c],
           request[c].user # None, NEW m \in DOMAIN memory, memory[m].owner # request[c].user
    PROVE  m \in DOMAIN memory' /\ memory'[m] = memory[m]
  <1> DEFINE u == request[c].user
  <1>1. CASE \E d \in DOMAIN call : Serve(d)
    <2>1. PICK d \in DOMAIN call : Serve(d)
      BY <1>1
    <2>2. CallStep(d) /\ request[d].stage = "in"
      BY <2>1 DEF Serve, InStage
    <2>3. d = c
      BY <2>2, SetsSome, SetsOne
    <2>4. Scoped(call[c], u, history, memory)
      BY <2>2, <2>3 DEF AInv, PermitsInv, Permitted
    <2>5. ForUser(c)
      <3> HIDE DEF u
      <3> QED BY <2>2, <2>3, <2>4, ScopedActions
    <2>6. CASE \/ StartAdd(c) \/ SearchDuplicates(c) \/ Readback(c) \/ StartGet(c) \/ GetMemory(c)
               \/ GetUpdated(c) \/ StartDeleteAll(c) \/ SeeMemory(c) \/ AllDeleted(c) \/ Abandon(c)
      BY <2>6 DEF StartAdd, SearchDuplicates, Readback, StartGet, GetMemory, GetUpdated,
           StartDeleteAll, SeeMemory, AllDeleted, Abandon, ReadOnly
    <2>7. CASE InsertMemory(c)
      BY <2>7 DEF InsertMemory, Insert, With
    <2>8. CASE WriteUpdate(c)
      <3> DEFINE id == call[c].id
                 text == Req(c).text
                 version == NextVersion(c)
      <3>1. CASE ~StillThere(c)
        BY <2>8, <3>1 DEF WriteUpdate
      <3>2. CASE StillThere(c)
        <4>1. memory' = [memory EXCEPT ![id].text = text, ![id].version = version]
          BY <2>8, <3>2 DEF WriteUpdate
        <4>2. id \in DOMAIN memory /\ memory[id].owner = u
          BY <2>4, <2>8, <3>2 DEF WriteUpdate, StillThere, OwnerOf, IsOwned, At, Op, Req, Mine,
               Scoped, AddPath, UpdatePath, DeletePath, ErasePath
        <4> HIDE DEF id, text, version
        <4> QED BY <4>1, <4>2
      <3> QED BY <3>1, <3>2
    <2>9. CASE DeleteOwned(c)
      <3>1. memory' = memory \/ (StillThere(c) /\ Remove(call[c].id))
        BY <2>9 DEF DeleteOwned
      <3>2. StillThere(c) => memory[call[c].id].owner = u
        BY <2>4, <2>9 DEF DeleteOwned, StillThere, OwnerOf, IsOwned, At, Op, Req,
             Scoped, AddPath, UpdatePath, DeletePath, ErasePath
      <3> QED BY <3>1, <3>2 DEF Remove, Restrict
    <2>10. CASE WriteDelete(c)
      <3>1. Remove(call[c].id) /\ call[c].pc = "delete"
        BY <2>10 DEF WriteDelete, At
      <3>2. call[c].id \in DOMAIN memory => memory[call[c].id].owner = u
        BY <2>4, <3>1 DEF Scoped, Mine
      <3> QED BY <3>1, <3>2 DEF Remove, Restrict
    <2> QED BY <2>5, <2>6, <2>7, <2>8, <2>9, <2>10 DEF ForUser
  <1>2. CASE ~\E d \in DOMAIN call : Serve(d)
    <2>1. memory' = memory
      BY <1>2 DEF Next, IndexRefuses, Authenticate, RequestStep, Initialise, Resolve, Handle,
           Disconnect, BeginSweep, StartRepair, StartStep, Statement, Inspect, Normalise,
           RecordVersion, Validate, Succeeds, Fails, EndOfMain, EndOfRepair, EndOfRequest,
           Boot, Crash, Tick, OnlyCall, StorageUnchangedBut, vars, storageVars, storeVars
    <2> QED BY <2>1
  <1> QED BY <1>1, <1>2

\* A step of a call that acts for a user leaves every memory of another owner as
\* it is, although the owner is looked at in one transaction and the row is
\* written in a later one, between which other calls may have done what they like.
THEOREM RestrictedTouchOwnRows == Spec => OwnRowsOnly
  <1>1. IInv /\ AInv /\ [Next]_vars =>
          [\A c \in DOMAIN call :
             call'[c] # call[c] /\ request[c].user # None =>
                \A m \in DOMAIN memory :
                    memory[m].owner # request[c].user =>
                        m \in DOMAIN memory' /\ memory'[m] = memory[m]]_vars
    BY RowsOfOthers
  <1> QED BY <1>1, AccessInductive, PTL DEF Spec, OwnRowsOnly
=============================================================================
