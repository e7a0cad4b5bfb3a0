---------------------------- MODULE MemoryStore ----------------------------
(***************************************************************************)
(* The memories of SurrealStorage and their history                        *)
(* (crates/surreal-memory/src/storage/surreal.rs, surreal/owned.rs and     *)
(* surreal/expiry.rs): add with semantic deduplication, update, delete,    *)
(* their owner-qualified forms, erasure, the TTL sweep, and the stable-key *)
(* write of the operation coordinator.                                     *)
(*                                                                         *)
(* A call is a task; one action is what it does between two awaits, so a   *)
(* query or a BEGIN ... COMMIT is one step.  What write_retrying_conflicts *)
(* and the connection do with such a step is in StorageConnection.  Texts  *)
(* of one meaning are one text: the 0.92 threshold is equality here.       *)
(***************************************************************************)
EXTENDS Compression

CONSTANTS
    Workloads,  \* [memory, stream, mindmap, entity, calls, now, left] to start with
    MaxNow      \* last value of the clock

ASSUME MaxNowAssumption == MaxNow \in Nat

\* The ids a request draws for the rows it may create.
Draws(q) ==
    (IF q.op \in {"add", "addTo", "createStream", "createMap", "addStep"} THEN {q.key} ELSE {})
    \cup (IF q.op \in {"addTo", "summarize", "compress"} THEN {q.digest} ELSE {})

\* They are UUIDs: nobody else has drawn them, and no operation is called so.
Fresh(w, c) ==
    LET calls == w.calls IN
    /\ \A d \in DOMAIN calls : d # c => Draws(calls[c]) \cap Draws(calls[d]) = {}
    /\ \A d \in DOMAIN calls : calls[d].op = "index" => calls[d].key \notin Draws(calls[c])
    /\ calls[c].op = "addTo" => calls[c].key # calls[c].digest
    /\ Draws(calls[c]) \cap DOMAIN w.memory = {}

\* The texts and the times that rows and requests have.
WellTyped(r) == r.text \subseteq DOMAIN Sentence /\ r.until \in 0..MaxNow

ASSUME StoreAssumption ==
    \A w \in Workloads :
        /\ IsFiniteSet(DOMAIN w.memory) /\ w.now \in 0..MaxNow /\ w.left \in Nat
        /\ \A i \in DOMAIN w.memory :
             /\ {"text", "version", "active", "owner", "stream", "until"} \subseteq DOMAIN w.memory[i]
             /\ WellTyped(w.memory[i])
             /\ w.memory[i].version = 1 /\ w.memory[i].active \in BOOLEAN
        /\ \A c \in DOMAIN w.calls :
             /\ {"op", "key", "digest", "owner", "text", "until"} \subseteq DOMAIN w.calls[c]
             /\ WellTyped(w.calls[c]) /\ Fresh(w, c)

VARIABLES
    memory,   \* the rows, by record id
    history,  \* the rows of memory_history
    stream,   \* the task streams, by record id (TaskStreams)
    call,     \* the calls, each with its request
    clock,    \* the storage clock
    left      \* how many calls may still be dropped or fail

storeVars == <<memory, history, stream, call, clock, left>>

None == "none"

NewRow(text, owner) ==
    [text |-> text, version |-> 1, active |-> TRUE, stream |-> None,
     owner |-> owner, until |-> MaxNow, born |-> 0, origin |-> "user", roots |-> {}]

\* The changed_at of a row is kept where something is looked up by it.
HistoryRow(id, version, type, text, key) ==
    [id |-> id, version |-> version, type |-> type, text |-> text, key |-> key, at |-> 0]
Deletion(id, version, text, key, at) ==
    [HistoryRow(id, version, "deleted", text, key) EXCEPT !.at = at]

\* CREATE of a row under an id of its own.
With(rows, id, row) ==
    [i \in DOMAIN rows \cup {id} |-> IF i \in DOMAIN rows THEN rows[i] ELSE row]

-----------------------------------------------------------------------------
(* Calls *)

Op(c)       == call[c].req.op
Req(c)      == call[c].req
At(c, pc)   == call[c].pc = pc
Goto(c, pc) == [call[c] EXCEPT !.pc = pc]
End(c, ans) == [call[c] EXCEPT !.pc = "done", !.answer = ans]
Set(c, rec) == call' = [call EXCEPT ![c] = rec]
Starts(c, ops) == At(c, "start") /\ Op(c) \in ops

NewCall(req) ==
    [req |-> req, pc |-> "start", id |-> req.id, seen |-> << >>, todo |-> {},
     cutoff |-> 0, stream |-> None, scope |-> None, removed |-> {}, claims |-> {},
     answer |-> None]

Insert(id, row) == memory' = With(memory, id, row)
Remove(id)      == memory' = Restrict(memory, DOMAIN memory \ {id})
Log(h)          == history' = history \cup {h}

\* LIVE_MEMORY_SQL, and the weaker test of get_memory.
Unexpired(id) == id \in DOMAIN memory /\ memory[id].until >= clock
Live(id)      == Unexpired(id) /\ memory[id].active

ReadOnly == UNCHANGED <<memory, history, stream, clock, left>>

\* A condition on the owner is there only if the call names one.
Matches(owner, scope) == scope \in {None, owner}

\* The names of streams are unique for each owner: an unscoped call meets the
\* streams of all owners.
Named(name, scope) ==
    {s \in DOMAIN stream : stream[s].name = name /\ Matches(stream[s].owner, scope)}

\* A client goes away, an embedding fails, the database answers an error: the
\* call ends where it is.
Abandon(c) ==
    /\ ~At(c, "start") /\ ~At(c, "done") /\ left > 0
    /\ left' = left - 1
    /\ Set(c, End(c, "dropped"))
    /\ UNCHANGED <<memory, history, stream, clock>>

Tick == /\ clock < MaxNow /\ clock' = clock + 1
        /\ UNCHANGED <<memory, history, stream, call, left>>

-----------------------------------------------------------------------------
(* add_memory *)

StartAdd(c) == Starts(c, {"add"}) /\ Set(c, Goto(c, "search")) /\ ReadOnly

Similar(c) == {i \in DOMAIN memory : /\ Live(i) /\ memory[i].text = Req(c).text
                                     /\ Matches(memory[i].owner, Req(c).owner)}

\* A near-duplicate is updated in place.
SearchDuplicates(c) ==
    /\ At(c, "search")
    /\ \/ \E i \in Similar(c) : Set(c, [Goto(c, "get") EXCEPT !.id = i])
       \/ Similar(c) = {} /\ Set(c, Goto(c, "insert"))
    /\ ReadOnly

\* The row and its first history row, in one transaction; in the transaction of
\* add_to_task_stream also the counter of whatever streams have the name now.
NewMemory(c) ==
    [NewRow(Req(c).text, Req(c).owner)
        EXCEPT !.stream = call[c].stream, !.until = Req(c).until, !.born = clock]

\* Mutant: the owner is left out of the condition.
CountedByName(c) == [s \in DOMAIN stream |->
                        IF s \in Named(Req(c).name, None)
                        THEN [stream[s] EXCEPT !.tokens = @ + Tokens(Req(c).text)]
                        ELSE stream[s]]

Counted(c) == [s \in DOMAIN stream |->
                  IF s \in Named(Req(c).name, Req(c).scope)
                  THEN [stream[s] EXCEPT !.tokens = @ + Tokens(Req(c).text)]
                  ELSE stream[s]]

InsertMemory(c) ==
    /\ At(c, "insert")
    /\ Insert(Req(c).key, NewMemory(c))
    /\ Log(HistoryRow(Req(c).key, 1, "created", Req(c).text, c))
    /\ stream' = IF Op(c) = "addTo" THEN Counted(c) ELSE stream
    /\ Set(c, [Goto(c, "readback") EXCEPT !.id = Req(c).key])
    /\ UNCHANGED <<clock, left>>

\* What follows a stored memory: a stream is looked at once more.
Stored(c) == IF Op(c) = "addTo" THEN Goto(c, "stored") ELSE End(c, "ok")

Readback(c) ==
    /\ At(c, "readback")
    /\ Set(c, IF call[c].id \in DOMAIN memory THEN Stored(c) ELSE End(c, "error"))
    /\ ReadOnly

-----------------------------------------------------------------------------
(* update_memory and update_memory_owned *)

IsOwned(c) == Op(c) \in {"updateOwned", "deleteOwned"}
OwnerOf(c) == IsOwned(c) => memory[call[c].id].owner = Req(c).owner

StartGet(c) == /\ Starts(c, {"update", "updateOwned", "deleteOwned"})
               /\ Set(c, [Goto(c, "get") EXCEPT !.cutoff = clock]) /\ ReadOnly

GetMemory(c) ==
    /\ At(c, "get")
    /\ Set(c, IF Unexpired(call[c].id) /\ OwnerOf(c)
              THEN [Goto(c, IF Op(c) = "deleteOwned" THEN "deleteOwned" ELSE "update")
                       EXCEPT !.cutoff = IF IsOwned(c) THEN @ ELSE clock,
                              !.seen = Restrict(memory, {call[c].id})]
              ELSE End(c, "error"))
    /\ ReadOnly

\* What the transaction requires of the row it reads.
StillThere(c) ==
    LET id == call[c].id IN
    id \in DOMAIN memory /\ IF IsOwned(c) THEN OwnerOf(c)
                            ELSE memory[id].until >= call[c].cutoff

\* Mutant: the version comes from the read before the embedding.
NextVersionSeen(c) == call[c].seen[call[c].id].version + 1

NextVersion(c) == memory[call[c].id].version + 1

WriteUpdate(c) ==
    LET id == call[c].id IN
    /\ At(c, "update")
    /\ IF StillThere(c)
       THEN /\ memory' = [memory EXCEPT ![id].text = Req(c).text,
                                        ![id].version = NextVersion(c)]
            /\ Log(HistoryRow(id, NextVersion(c), "updated", Req(c).text, c))
            /\ Set(c, Goto(c, "updated"))
       ELSE Set(c, End(c, "error")) /\ UNCHANGED <<memory, history>>
    /\ UNCHANGED <<stream, clock, left>>

GetUpdated(c) ==
    /\ At(c, "updated")
    /\ Set(c, IF Unexpired(call[c].id) THEN Stored(c) ELSE End(c, "error"))
    /\ ReadOnly

DeleteOwned(c) ==
    LET id == call[c].id IN
    /\ At(c, "deleteOwned")
    /\ IF StillThere(c)
       THEN /\ Log(Deletion(id, NextVersion(c), memory[id].text, c, call[c].cutoff))
            /\ Remove(id) /\ Set(c, End(c, "ok"))
       ELSE Set(c, End(c, "error")) /\ UNCHANGED <<memory, history>>
    /\ UNCHANGED <<stream, clock, left>>

-----------------------------------------------------------------------------
(* delete_memory, delete_all_memories and the memories of a deleted stream *)

StartDelete(c) == /\ Starts(c, {"delete"})
                  /\ Set(c, [Goto(c, "next") EXCEPT !.todo = {Req(c).id}])
                  /\ ReadOnly

\* delete_all lists every physical row of the owner, or of everybody.
StartDeleteAll(c) ==
    /\ Starts(c, {"deleteAll"})
    /\ Set(c, [Goto(c, "next") EXCEPT
                  !.todo = {i \in DOMAIN memory : Matches(memory[i].owner, Req(c).owner)}])
    /\ ReadOnly

SeeMemory(c) ==
    /\ At(c, "next")
    /\ \E i \in call[c].todo :
         Set(c, [Goto(c, "delete") EXCEPT
                    !.id = i, !.todo = @ \ {i}, !.cutoff = clock,
                    !.seen = Restrict(memory, DOMAIN memory \cap {i})])
    /\ ReadOnly

\* The audit row has the version and the text of the read before.
WriteDelete(c) ==
    LET id == call[c].id IN
    /\ At(c, "delete")
    /\ Remove(id)
    /\ IF id \in DOMAIN call[c].seen
       THEN Log(Deletion(id, call[c].seen[id].version + 1, call[c].seen[id].text, c,
                         call[c].cutoff))
       ELSE UNCHANGED history
    /\ Set(c, Goto(c, "next"))
    /\ UNCHANGED <<stream, clock, left>>

AllDeleted(c) ==
    /\ At(c, "next") /\ call[c].todo = {}
    /\ Set(c, IF Op(c) = "deleteStream" THEN Goto(c, "unlink") ELSE End(c, "ok"))
    /\ ReadOnly

-----------------------------------------------------------------------------
(* sweep_expired, called by the TTL worker *)

StartSweep(c) ==
    /\ Starts(c, {"sweep"})
    /\ Set(c, [Goto(c, "sweep") EXCEPT
                  !.cutoff = clock,
                  !.todo = {i \in DOMAIN memory : memory[i].until < clock}])
    /\ ReadOnly

\* delete_if_still_expired: the transaction looks at the row again.
StillExpired(c, i) == i \in DOMAIN memory /\ memory[i].until < call[c].cutoff

SweepOne(c) ==
    /\ At(c, "sweep")
    /\ \E i \in call[c].todo :
         /\ IF StillExpired(c, i)
            THEN /\ Remove(i)
                 /\ Log(Deletion(i, memory[i].version + 1, memory[i].text, c, call[c].cutoff))
            ELSE UNCHANGED <<memory, history>>
         /\ Set(c, [Goto(c, "marker") EXCEPT !.id = i])
    /\ UNCHANGED <<stream, clock, left>>

\* Mutant: any audit row of the memory will do.
AnyMarker(c) == \E h \in history : h.id = call[c].id /\ h.type = "deleted"

\* The audit row of this pass is the one that bears its cutoff.
Marker(c) == \E h \in history : /\ h.id = call[c].id /\ h.type = "deleted"
                               /\ h.at = call[c].cutoff

CountSwept(c) ==
    /\ At(c, "marker")
    /\ Set(c, [Goto(c, "sweep") EXCEPT
                  !.todo = @ \ {call[c].id},
                  !.removed = IF Marker(c) THEN @ \cup {call[c].id} ELSE @])
    /\ ReadOnly

\* A failed delete is counted and left to the next pass.
SweepFails(c) ==
    /\ At(c, "sweep") /\ left > 0 /\ left' = left - 1
    /\ \E i \in call[c].todo : Set(c, [call[c] EXCEPT !.todo = @ \ {i}])
    /\ UNCHANGED <<memory, history, stream, clock>>

SweepEnds(c) == /\ At(c, "sweep") /\ call[c].todo = {}
                /\ Set(c, End(c, "ok")) /\ ReadOnly

-----------------------------------------------------------------------------
(* store_indexed_memory: the stable key of the operation *)

StartIndexed(c) ==
    /\ Starts(c, {"index"})
    /\ Set(c, IF Unexpired(Req(c).key) THEN End(c, "ok") ELSE Goto(c, "create"))
    /\ ReadOnly

\* Mutant: the history row has no stable key of its own.
RowKeyFree(c) == Req(c).key \notin DOMAIN memory

\* CREATE of the row, and of its history row operation-<key>.
KeyFree(c) == /\ Req(c).key \notin DOMAIN memory
              /\ \A h \in history : h.key # Req(c).key

CreateIndexed(c) ==
    /\ At(c, "create")
    /\ IF KeyFree(c)
       THEN /\ Insert(Req(c).key, NewMemory(c))
            /\ Log(HistoryRow(Req(c).key, 1, "created", Req(c).text, Req(c).key))
            /\ Set(c, Goto(c, "indexed"))
       ELSE Set(c, Goto(c, "recheck")) /\ UNCHANGED <<memory, history>>
    /\ UNCHANGED <<stream, clock, left>>

\* After the commit, and after its failure: the row, or an error.
GetIndexed(c) ==
    /\ At(c, "indexed") \/ At(c, "recheck")
    /\ Set(c, End(c, IF Unexpired(Req(c).key) THEN "ok" ELSE "error"))
    /\ ReadOnly

-----------------------------------------------------------------------------

InitStore(w) ==
    /\ memory = w.memory /\ stream = w.stream /\ left = w.left /\ clock = w.now
    /\ history = {HistoryRow(i, 1, "created", w.memory[i].text, i) : i \in DOMAIN w.memory}
    /\ call = [c \in DOMAIN w.calls |-> NewCall(w.calls[c])]

MemoryStep(c) ==
    \/ StartAdd(c) \/ SearchDuplicates(c) \/ InsertMemory(c) \/ Readback(c)
    \/ StartGet(c) \/ GetMemory(c) \/ WriteUpdate(c) \/ GetUpdated(c) \/ DeleteOwned(c)
    \/ StartDelete(c) \/ StartDeleteAll(c) \/ SeeMemory(c) \/ WriteDelete(c) \/ AllDeleted(c)
    \/ StartSweep(c) \/ SweepOne(c) \/ CountSwept(c) \/ SweepFails(c) \/ SweepEnds(c)
    \/ StartIndexed(c) \/ CreateIndexed(c) \/ GetIndexed(c)

-----------------------------------------------------------------------------
(* Properties *)

\* The versions of a memory that is there are 1 up to its own, each with exactly
\* one history row: concurrent updates and derivations neither skip a version
\* nor claim it twice, and a retried store adds no second 'created'.
HistoryIsComplete ==
    \A i \in DOMAIN memory :
        /\ \A v \in 1..memory[i].version :
             Cardinality({h \in history : h.id = i /\ h.version = v}) = 1
        /\ \A h \in history : h.id = i => h.version <= memory[i].version

\* A memory that was deleted stays deleted: no late update, replayed operation
\* or sweep brings a row with a 'deleted' history row back.
NoResurrection ==
    \A h \in history : h.type = "deleted" => h.id \notin DOMAIN memory

\* Two sweeps that report one memory as removed began at one instant, or a client
\* deleted it at the instant of one of them: an audit row is known by the instant
\* it bears, and no sweep writes one for a row that has gone meanwhile.
Swept(h) == h.type = "deleted" /\ h.key \in DOMAIN call /\ Op(h.key) = "sweep"

SweptOnce ==
    \A c, d \in DOMAIN call : \A i \in call[c].removed \cap call[d].removed :
        \/ call[c].cutoff = call[d].cutoff
        \/ \E h \in history : /\ h.id = i /\ h.type = "deleted" /\ ~Swept(h)
                             /\ h.at \in {call[c].cutoff, call[d].cutoff}

StoreTypeOK ==
    /\ \A i \in DOMAIN memory :
         /\ memory[i].version \in Nat \ {0} /\ memory[i].active \in BOOLEAN
         /\ memory[i].text \subseteq DOMAIN Sentence /\ memory[i].until \in 0..MaxNow
    /\ \A h \in history : h.type \in {"created", "updated", "deleted", "summarized"}
    /\ clock \in 0..MaxNow /\ left \in Nat
=============================================================================
