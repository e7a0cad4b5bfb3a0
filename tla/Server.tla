------------------------------- MODULE Server -------------------------------
(***************************************************************************)
(* The server around the storage (src/main.rs, src/auth,                   *)
(* src/workers/ttl.rs, src/api/memory.rs) and the start of a storage       *)
(* (crates/surreal-memory/src/storage/migrations, ensure_embedding_indexes *)
(* of surreal.rs).  Processes share the database of one tenant.  The first *)
(* request for it, or main in local mode, migrates the database, statement *)
(* by statement, and sets the dimension of its vector indexes; requests    *)
(* that come meanwhile wait.  A process may die at any step.               *)
(***************************************************************************)
EXTENDS Storage, Sequences

CONSTANTS
    Processes,   \* the server processes
    CallNames    \* the names of calls, for the fairness conditions

\* A start is known by the process or by the call that drives it.
ASSUME NameAssumption ==
    /\ None \notin Processes
    /\ \A w \in Workloads : DOMAIN w.calls \cap Processes = {}

\* A request is on its way, or has come to the storage of a process.  A credential
\* comes with a request of a client; a sweep and a repair have none.
ASSUME ClientAssumption ==
    \A w \in Workloads : \A c \in DOMAIN w.calls :
        /\ c \in DOMAIN w.clients /\ {"stage", "at", "token", "user"} \subseteq DOMAIN w.clients[c]
        /\ \/ w.clients[c].stage = "new" /\ w.clients[c].at = None
           \/ w.clients[c].stage = "in" /\ w.clients[c].at \in Processes
        /\ w.clients[c].user # None =>
              w.clients[c].stage = "new" /\ w.calls[c].op \notin {"sweep", "repairData"}

VARIABLES
    server,   \* what each process is configured with and where it stands
    request,  \* where each call is between its client and the storage
    start,    \* the starts of a storage that are under way, by who drives them
    db,       \* the schema of the database
    dims,     \* the dimension of the embedding of each memory
    outages   \* how many more things may go wrong

serverVars == <<server, request, start, db, dims, outages>>
vars == <<storageVars, serverVars>>

-----------------------------------------------------------------------------
(* The migrations: DEFINE IF NOT EXISTS or OVERWRITE ("define"), DEFINE       *)
(* ("create"), REMOVE, and the statements on rows.                            *)

V1toV4 == <<<<<<"define", "entities">>>>,
            <<<<"define", "memories">>>>,
            <<<<"define", "streams">>, <<"define", "streamName">>>>,
            <<<<"define", "history">>>>>>

V5 == <<<<<<"vector", 1536>>>>>>

V6toV10 == <<<<<<"define", "mindmaps">>>>,
             <<<<"define", "summaries">>>>,
             << >>,   \* the field exists since version 2
             <<<<"define", "nodes">>>>,
             <<<<"define", "nodes">>>>>>

\* REMOVE FIELD takes the nested fields along.
V11 == <<<<<<"remove", "nodes">>, <<"create", "nodes">>>>>>

V12toV13 == <<<<<<"define", "nodeFields">>>>, <<<<"define", "edgeFields">>>>>>

V14 == <<<<<<"inspect", 0>>, <<"normalise", 0>>>>>>

V15toV16 == <<<<<<"define", "strings">>>>, <<<<"define", "drawers">>>>>>

V17 == <<<<<<"dropVector", 0>>, <<"define", "metadata">>>>>>

V18 == <<<<<<"backfill", 0>>, <<"remove", "streamName">>, <<"define", "scopedName">>>>>>

V19toV21 == <<<<<<"define", "steps">>>>, <<<<"define", "ledger">>>>, <<<<"define", "journal">>>>>>

\* One transaction each.
V22 == <<<<<<"define", "derivations">>>>>>
V23toV24 == <<<<<<"define", "evidence">>>>, <<<<"define", "fulltext">>>>>>

Latest == 24

Migrations ==
    [v \in 1..Latest |->
        CASE v \in 1..4   -> V1toV4[v]         [] v = 14         -> V14[1]
          [] v = 5        -> V5[1]             [] v \in 15..16   -> V15toV16[v - 14]
          [] v \in 6..10  -> V6toV10[v - 5]    [] v = 17         -> V17[1]
          [] v = 11       -> V11[1]            [] v = 18         -> V18[1]
          [] v \in 12..13 -> V12toV13[v - 11]  [] v \in 19..21   -> V19toV21[v - 18]
          [] v = 22       -> V22[1]            [] v \in 23..24   -> V23toV24[v - 22]]

\* Mutant: a version is recorded before its statements run.
RecordedFirst(v) == <<<<"record", v>>>> \o Migrations[v]

\* apply_migration
Recorded(v) == Append(Migrations[v], <<"record", v>>)

\* ensure_embedding_indexes after the migrations.
Indexing == <<<<"validate", 0>>, <<"clear", 0>>, <<"index", 0>>, <<"mark", 0>>>>

\* run_migrations applies one version after the other, the indexes come last.
Statements(v) == IF v <= Latest THEN Recorded(v) ELSE Indexing

\* The nested fields go with the field they are in.
Within(x) == IF x = "nodes" THEN {"nodes", "nodeFields", "edgeFields"} ELSE {x}

\* What some migration takes away again.
Removable == Within("nodes") \cup {"streamName"}

SchemaOf(n) == {s[2] : s \in {t \in UNION {Range(Migrations[v]) : v \in 1..n} : t[1] = "define"}}
FullSchema == SchemaOf(Latest) \ {"streamName"}

\* A database at version n, of vectors of dimension dim from version 17 on.
Database(n, dim) ==
    [version |-> n, hnsw |-> IF n >= 17 THEN dim ELSE IF n >= 5 THEN 1536 ELSE 0,
     schema |-> IF n >= 18 THEN SchemaOf(n) \ {"streamName"} ELSE SchemaOf(n),
     meta |-> IF n >= 17 THEN dim ELSE 0, blank |-> n >= 18 \/ n < 3,
     shared |-> FALSE, legacy |-> {}, unknown |-> FALSE, scar |-> FALSE]

\* The database is at a version; its rows are those of an older program only if no
\* later one has gone over them.
ASSUME DatabaseAssumption ==
    \A w \in Workloads :
        /\ w.db.version \in 0..Latest
        /\ w.db = [Database(w.db.version, w.db.hnsw) EXCEPT
                     !.shared = w.db.shared, !.legacy = w.db.legacy, !.unknown = w.db.unknown]
        /\ w.db.version >= 14 => w.db.legacy = {}

\* A process is down, or up, perhaps with a storage it has started.
ASSUME ProcessAssumption ==
    \A w \in Workloads : \A p \in Processes :
        LET s == w.server[p] IN
        /\ {"dim", "mode", "loopback", "up", "cell", "disturbed"} \subseteq DOMAIN s
        /\ s.cell \in {"empty", "ready"} /\ s.up \in {"down", "up"}
        /\ s.cell = "ready" =>
             s.up = "up" /\ w.db.version = Latest /\ (s.disturbed \/ w.db.hnsw = s.dim)

-----------------------------------------------------------------------------
(* Helpers *)

Process(dim, mode) == [dim |-> dim, mode |-> mode, loopback |-> TRUE, up |-> "down",
                       cell |-> "empty", disturbed |-> FALSE]

Client(stage, at) == [stage |-> stage, at |-> at, token |-> TRUE, user |-> None]

Stage(c, s) == request' = [request EXCEPT ![c].stage = s]
InStage(c, s) == request[c].stage = s
Host(c) == request[c].at
OnlyCall(c, rec) == StorageUnchangedBut([call EXCEPT ![c] = rec])

\* A start by h at process p, which has read version v.
NewStart(p, v, misread) ==
    [at |-> p, version |-> v + 1, next |-> 1, failing |-> FALSE, same |-> FALSE, misread |-> misread]

\* get_current_version: an answer that cannot be taken is version 0.
VersionRead == {[v |-> db.version, cost |-> 0]}
               \cup (IF outages > 0 /\ db.version > 0 THEN {[v |-> 0, cost |-> 1]} ELSE {})

\* Another process is at it.
Overlaps(p) == \E h \in DOMAIN start : start[h].at \notin {p, None}

Begin(h, p, cost) ==
    \E r \in VersionRead :
        /\ outages >= r.cost + cost /\ outages' = outages - (r.cost + cost)
        /\ start' = With(start, h, NewStart(p, r.v, r.cost = 1))

IsRepair(h)  == h \in DOMAIN call /\ Op(h) = "repairData"
Dimension(h) == server[start[h].at].dim

\* The statements of repair-data are those of version 14.
Doing(h)     == Statements(start[h].version)[start[h].next]
Finished(h)  == \/ start[h].version > Latest + 1
                \/ IsRepair(h) /\ Doing(h)[1] = "record"
Doings(h, kinds) == h \in DOMAIN start /\ ~Finished(h) /\ Doing(h)[1] \in kinds
Onward(h)    == IF start[h].next < Len(Statements(start[h].version))
                THEN [start[h] EXCEPT !.next = @ + 1]
                ELSE [start[h] EXCEPT !.version = @ + 1, !.next = 1]
Moves(h, rec) == start' = [start EXCEPT ![h] = rec]

\* A start that is cut off may leave a mark: the index has a dimension that the
\* metadata does not know, or a migration was run once more and not to its end.
Cut(hs) ==
    db' = [db EXCEPT !.scar = @ \/ \E h \in hs :
              \/ start[h].misread
              \/ Doings(h, {"mark"}) /\ db.meta \notin {0, db.hnsw}]

Forget(hs) == start' = Restrict(start, DOMAIN start \ hs)

-----------------------------------------------------------------------------
(* One statement of a start *)

\* The database refuses the statement.
Refused(s, d) ==
    \/ s[1] = "create" /\ s[2] \in db.schema
    \/ s[1] = "define" /\ s[2] = "streamName" /\ db.shared /\ s[2] \notin db.schema
    \/ s[1] \in {"vector", "index"} /\ db.hnsw = 0 /\ \E m \in DOMAIN dims : dims[m] # d

\* What the statement does.
After(s, d) ==
    CASE s[1] \in {"define", "create"} -> [db EXCEPT !.schema = @ \cup {s[2]}]
      [] s[1] = "remove"     -> [db EXCEPT !.schema = @ \ Within(s[2])]
      [] s[1] = "vector"     -> [db EXCEPT !.hnsw = IF @ = 0 THEN s[2] ELSE @]
      [] s[1] = "index"      -> [db EXCEPT !.hnsw = IF @ = 0 THEN d ELSE @]
      [] s[1] \in {"dropVector", "clear"} -> [db EXCEPT !.hnsw = 0]
      [] s[1] = "backfill"   -> [db EXCEPT !.blank = TRUE]
      [] s[1] = "mark"       -> [db EXCEPT !.meta = d]
      [] s[1] = "record"     -> [db EXCEPT !.version = IF s[2] > @ THEN s[2] ELSE @]
      [] OTHER -> db

\* Nothing keeps the starts of two processes apart: one that another has disturbed
\* may take away what that has laid, and leaves a mark if it writes the schema.
Clashes(h, new) == /\ server[start[h].at].disturbed
                   /\ <<new.schema, new.hnsw, new.meta>> # <<db.schema, db.hnsw, db.meta>>

\* The other processes that have a runtime, or are starting one, are told apart
\* if the schema changes under them.
Disturbed(h) ==
    [p \in Processes |->
        IF p # start[h].at /\ <<db'.schema, db'.hnsw>> # <<db.schema, db.hnsw>>
        THEN [server[p] EXCEPT !.disturbed = TRUE] ELSE server[p]]

\* The statements of one query commit one by one, and one that is refused does
\* not stop the next.
Statement(h) ==
    /\ Doings(h, {"define", "create", "remove", "vector", "dropVector", "backfill", "clear",
                  "index", "mark"})
    /\ Doings(h, {"clear", "mark"}) => ~start[h].failing
    /\ LET s == Doing(h)
           skipped == start[h].same /\ s[1] \in {"clear", "mark"}
           vector == IF s[1] = "vector" THEN s[2] ELSE Dimension(h)
           refused == Refused(s, vector)
           new     == After(s, vector) IN
       /\ db' = IF skipped \/ refused THEN db ELSE [new EXCEPT !.scar = @ \/ Clashes(h, new)]
       /\ Moves(h, [Onward(h) EXCEPT !.failing = @ \/ refused])
    /\ server' = Disturbed(h)
    /\ UNCHANGED <<request, dims, outages>> /\ StorageUnchangedBut(call)

\* inspect_legacy_enum_data, then apply_repair_change row by row.
Inspect(h) ==
    /\ Doings(h, {"inspect"})
    /\ Moves(h, [Onward(h) EXCEPT !.failing = db.unknown])
    /\ UNCHANGED <<server, request, db, dims, outages>> /\ StorageUnchangedBut(call)

Normalise(h) ==
    /\ Doings(h, {"normalise"}) /\ ~start[h].failing
    /\ IF db.legacy = {} THEN Moves(h, Onward(h)) /\ UNCHANGED db
       ELSE \E r \in db.legacy : db' = [db EXCEPT !.legacy = @ \ {r}] /\ UNCHANGED start
    /\ UNCHANGED <<server, request, dims, outages>> /\ StorageUnchangedBut(call)

\* The answer to the INSERT is not looked at: a version may stay unrecorded.
RecordVersion(h) ==
    /\ Doings(h, {"record"}) /\ ~start[h].failing
    /\ \/ db' = After(Doing(h), 0) /\ UNCHANGED outages
       \/ outages > 0 /\ outages' = outages - 1 /\ UNCHANGED db
    /\ Moves(h, Onward(h))
    /\ UNCHANGED <<server, request, dims>> /\ StorageUnchangedBut(call)

\* validate_existing_embedding_dimensions, then the metadata are read.
Validate(h) ==
    /\ Doings(h, {"validate"})
    /\ Moves(h, [Onward(h) EXCEPT
                    !.same = db.meta = Dimension(h),
                    !.failing = Dimension(h) = 0 \/ \E m \in DOMAIN dims : dims[m] # Dimension(h)])
    /\ UNCHANGED <<server, request, db, dims, outages>> /\ StorageUnchangedBut(call)

-----------------------------------------------------------------------------
(* How a start ends: by a request (TenantRegistry::create), in main, or of    *)
(* the repair-data command                                                    *)

EndOfRequest(h, cell, stage, rec) ==
    /\ server' = [server EXCEPT ![start[h].at].cell = cell]
    /\ Stage(h, stage) /\ OnlyCall(h, rec)

EndOfMain(h, cell, up) ==
    /\ server' = [server EXCEPT ![h].cell = cell, ![h].up = up]
    /\ UNCHANGED request /\ StorageUnchangedBut(call)

EndOfRepair(h, answer) == Stage(h, "done") /\ OnlyCall(h, End(h, answer)) /\ UNCHANGED server

Succeeds(h) ==
    /\ h \in DOMAIN start /\ Finished(h) /\ ~start[h].failing
    /\ IF h \in Processes THEN EndOfMain(h, "ready", "up")
       ELSE IF IsRepair(h) THEN EndOfRepair(h, "ok")
       ELSE EndOfRequest(h, "ready", "handler", call[h])
    /\ Forget({h})
    /\ UNCHANGED <<db, dims, outages>>

\* Mutant: the cell is not given back by an initialisation that failed.
CellKept == "starting"

\* OnceCell::get_or_try_init: the next request tries again.
CellFreed == "empty"

\* A refused statement, a query that fails or times out.
Fails(h) ==
    /\ h \in DOMAIN start
    /\ IF start[h].failing
       THEN Doings(h, {"normalise", "record", "clear", "mark"}) /\ UNCHANGED outages
       ELSE outages > 0 /\ outages' = outages - 1
    /\ IF h \in Processes THEN EndOfMain(h, "empty", "down")
       ELSE IF IsRepair(h) THEN EndOfRepair(h, "error")
       ELSE EndOfRequest(h, CellFreed, "done", End(h, "unavailable"))
    /\ Cut({h}) /\ Forget({h})
    /\ UNCHANGED dims

StartStep(h) ==
    Statement(h) \/ Inspect(h) \/ Normalise(h) \/ RecordVersion(h) \/ Validate(h)
    \/ Succeeds(h) \/ Fails(h)

-----------------------------------------------------------------------------
(* Processes *)

\* main refuses a public address without credentials.  In local mode the storage
\* is started first, in jwt mode that of a tenant with its first request.
Boot(p) ==
    /\ server[p].up = "down"
    /\ server[p].mode = "local" => server[p].loopback
    /\ IF server[p].mode = "local"
       THEN /\ server' = [server EXCEPT ![p].up = "starting", ![p].cell = "starting",
                                        ![p].disturbed = Overlaps(p)]
            /\ Begin(p, p, 1)
       ELSE /\ server' = [server EXCEPT ![p].up = "up"]
            /\ outages > 0 /\ outages' = outages - 1 /\ UNCHANGED start
    /\ UNCHANGED <<request, db, dims>> /\ StorageUnchangedBut(call)

\* A crash, a signal, the end of a supervised task: nothing is drained.
Crash(p) ==
    LET lost == {c \in DOMAIN call : Host(c) = p /\ ~At(c, "done")}
        starts == {h \in DOMAIN start : start[h].at = p} IN
    /\ server[p].up # "down" /\ outages > 0 /\ outages' = outages - 1
    /\ server' = [server EXCEPT ![p].up = "down", ![p].cell = "empty"]
    /\ request' = [c \in DOMAIN call |->
                     IF c \in lost THEN [request[c] EXCEPT !.stage = "done"] ELSE request[c]]
    /\ StorageUnchangedBut([c \in DOMAIN call |-> IF c \in lost THEN End(c, "dropped") ELSE call[c]])
    /\ Cut(starts) /\ Forget(starts)
    /\ UNCHANGED dims

\* repair-data --apply, by an operator, whatever the servers do.
StartRepair(c) ==
    /\ InStage(c, "new") /\ Op(c) = "repairData"
    /\ start' = With(start, c, NewStart(None, 13, FALSE))
    /\ Stage(c, "starting")
    /\ UNCHANGED <<server, db, dims, outages>> /\ StorageUnchangedBut(call)

-----------------------------------------------------------------------------
(* Requests *)

\* Routes a credential that is restricted to a user may use: those of
\* /api/v1/memory here; a route that is not listed is closed to it.
UserScoped == {"add", "update", "delete", "deleteAll"}

\* Credentials are looked at before any storage; a wrong or missing token is 401,
\* a route outside the restriction 403.
Authenticate(c) ==
    /\ InStage(c, "new") /\ Op(c) \notin {"sweep", "repairData"}
    /\ \E p \in Processes :
         /\ server[p].up = "up"
         /\ LET pass == server[p].mode = "local" \/
                          (request[c].token /\ (request[c].user # None => Op(c) \in UserScoped))
                user == IF server[p].mode = "local" THEN None ELSE request[c].user
            IN  /\ request' = [request EXCEPT ![c].at = p, ![c].user = user,
                                              ![c].stage = IF pass THEN "runtime" ELSE "done"]
                /\ OnlyCall(c, IF pass THEN call[c] ELSE End(c, "refused"))
    /\ UNCHANGED <<server, start, db, dims, outages>>

\* for_principal: one request starts the storage, the others wait for it.
Initialise(c) ==
    LET p == Host(c) IN
    /\ InStage(c, "runtime") /\ server[p].cell = "empty"
    /\ server' = [server EXCEPT ![p].cell = "starting", ![p].disturbed = Overlaps(p)]
    /\ Begin(c, p, 0) /\ Stage(c, "starting")
    /\ UNCHANGED <<db, dims>> /\ StorageUnchangedBut(call)

Resolve(c) ==
    /\ InStage(c, "runtime") /\ server[Host(c)].cell = "ready"
    /\ Stage(c, "handler")
    /\ UNCHANGED <<server, start, db, dims, outages>> /\ StorageUnchangedBut(call)

\* The client goes away: a start it drove ends with it, wherever it is.
Disconnect(c) ==
    LET drives == c \in DOMAIN start IN
    /\ request[c].stage \in {"runtime", "starting"} /\ Host(c) # None
    /\ outages > 0 /\ outages' = outages - 1
    /\ server' = [server EXCEPT ![Host(c)].cell = IF drives THEN CellFreed ELSE @]
    /\ Stage(c, "done") /\ OnlyCall(c, End(c, "dropped"))
    /\ Cut({c} \cap DOMAIN start) /\ Forget({c})
    /\ UNCHANGED dims

\* Mutant: the storage operation of every principal is the unrestricted one.
OpOfAnyone(c) == Op(c)

\* The handlers of src/api/memory.rs: a restricted principal's ownership is
\* checked inside the write.
OpFor(c) ==
    IF request[c].user = None THEN Op(c)
    ELSE CASE Op(c) = "update" -> "updateOwned" [] Op(c) = "delete" -> "deleteOwned"
           [] OTHER -> Op(c)

\* effective_user: a request that names no owner is the principal's, and it may not
\* name another.
OutOfScope(c) == /\ request[c].user # None /\ Op(c) \in {"add", "deleteAll"}
                 /\ Req(c).owner \notin {None, request[c].user}

OwnerFor(c) == IF request[c].user = None THEN Req(c).owner ELSE request[c].user

\* An unrestricted delete looks for the memory first.
Handle(c) ==
    /\ InStage(c, "handler")
    /\ LET missing == OpFor(c) = "delete" /\ ~Unexpired(Req(c).id)
           refused == OutOfScope(c) \/ missing
       IN  /\ Stage(c, IF refused THEN "done" ELSE "in")
           /\ OnlyCall(c, IF refused THEN End(c, "error")
                          ELSE [call[c] EXCEPT !.req.op = OpFor(c), !.req.owner = OwnerFor(c)])
    /\ UNCHANGED <<server, start, db, dims, outages>>

\* run_ttl_worker: at once when the storage is there, then pass after pass.
BeginSweep(c) ==
    /\ InStage(c, "new") /\ Op(c) = "sweep"
    /\ \E p \in Processes :
         /\ server[p].cell = "ready"
         /\ \A d \in DOMAIN call : Op(d) = "sweep" /\ Host(d) = p => At(d, "done")
         /\ request' = [request EXCEPT ![c].at = p, ![c].stage = "in"]
    /\ UNCHANGED <<server, start, db, dims, outages>> /\ StorageUnchangedBut(call)

-----------------------------------------------------------------------------
(* The storage, served *)

\* The database refuses an embedding that does not fit its index.
WritesVector(c) == call[c].pc \in {"insert", "create", "update", "publish"}
VectorFits(c) == db.hnsw \in {0, server[Host(c)].dim}

Dims(c) == [m \in DOMAIN memory' |-> IF m \in DOMAIN memory /\ ~(At(c, "update") /\ m = call[c].id) THEN dims[m]
                                     ELSE server[Host(c)].dim]

Serve(c) ==
    /\ InStage(c, "in")
    /\ WritesVector(c) => VectorFits(c)
    /\ CallStep(c)
    /\ dims' = Dims(c)
    /\ UNCHANGED <<server, request, start, db, outages>>

IndexRefuses(c) ==
    /\ InStage(c, "in") /\ WritesVector(c) /\ ~VectorFits(c)
    /\ OnlyCall(c, CASE At(c, "create") -> Goto(c, "recheck") [] At(c, "publish") -> Goto(c, "thrown")
                     [] OTHER -> End(c, "error"))
    /\ UNCHANGED serverVars

RequestStep(c) == Initialise(c) \/ Resolve(c) \/ Handle(c)

-----------------------------------------------------------------------------

Init ==
    \E w \in Workloads :
        /\ InitStorage(w)
        /\ server = [p \in Processes |-> w.server[p]]
        /\ request = [c \in DOMAIN w.calls |-> w.clients[c]]
        /\ start = << >> /\ db = w.db /\ outages = w.outages
        /\ dims = [m \in DOMAIN w.memory |-> w.db.hnsw]

Next ==
    \/ \E c \in DOMAIN call :
         \/ Serve(c) \/ IndexRefuses(c)
         \/ Authenticate(c) \/ RequestStep(c) \/ Disconnect(c)
         \/ BeginSweep(c) \/ StartRepair(c)
    \/ \E h \in DOMAIN start : StartStep(h)
    \/ \E p \in Processes : Boot(p) \/ Crash(p)
    \/ Tick /\ UNCHANGED <<derivations, docVars, serverVars>>

\* A statement ends, by the query timeout if need be, and the executor polls
\* every task that can go on.
Fairness ==
    /\ \A h \in CallNames \cup Processes : WF_vars(StartStep(h))
    /\ \A c \in CallNames : WF_vars(c \in DOMAIN call /\ RequestStep(c))

Spec == Init /\ [][Next]_vars /\ Fairness

-----------------------------------------------------------------------------
(* Properties *)

\* A process that has a runtime finds everything that no migration takes away, the
\* rows of older versions put right and every stream with its owners: however many
\* processes start at once, at whatever statement starts were cut off or failed, and
\* whatever version they read.  It finds the whole schema, and nothing else, with
\* vector indexes of the dimension of its embeddings, unless, as the code allows,
\* another process changed the schema meanwhile or was at it when this one began, a
\* start was cut off where it leaves a scar (see Cut), or two starts have clashed
\* (see Clashes).
ServesFullSchema ==
    \A p \in Processes : server[p].cell = "ready" =>
        /\ FullSchema \ Removable \subseteq db.schema /\ db.blank /\ db.legacy = {}
        /\ ~server[p].disturbed /\ ~db.scar =>
              db.schema = FullSchema /\ db.hnsw = server[p].dim

Waits(c) == c \in DOMAIN call /\ request[c].stage \in {"runtime", "starting"}

\* A request that came while the storage of its tenant was not ready is served or
\* answered in the end, whoever was starting the storage and however it ended.
FirstRequestsEnd == \A c \in CallNames : Waits(c) ~> ~Waits(c)

\* A credential that is restricted to a user changes no memory of another one.
OwnRowsOnly ==
    [][\A c \in DOMAIN call :
         call'[c] # call[c] /\ request[c].user # None =>
            \A m \in DOMAIN memory :
                memory[m].owner # request[c].user =>
                    m \in DOMAIN memory' /\ memory'[m] = memory[m]]_vars

TypeOK ==
    /\ DocTypeOK
    /\ DOMAIN dims = DOMAIN memory
    /\ \A p \in Processes : server[p].cell = "ready" => server[p].up = "up"
    /\ \A h \in DOMAIN start : IsRepair(h) \/ server[start[h].at].cell = "starting"
=============================================================================
