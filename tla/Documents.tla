----------------------------- MODULE Documents -----------------------------
(***************************************************************************)
(* Mindmaps, task steps and the entities of the knowledge graph            *)
(* (crates/surreal-memory/src/storage/surreal.rs, mindmap.rs).  A mindmap  *)
(* is one row with its nodes and edges in arrays: a node is validated      *)
(* against the row read before and appended to the row there is now; the   *)
(* removal of a node writes both arrays back.  A step and an entity have   *)
(* unique keys.                                                            *)
(***************************************************************************)
EXTENDS TaskStreams

StepStatuses == {"pending", "running", "completed", "failed", "skipped"}

ASSUME DocumentAssumption ==
    \A w \in Workloads :
        /\ \A m \in DOMAIN w.mindmap :
             /\ {"name", "tree", "nodes", "edges", "stream"} \subseteq DOMAIN w.mindmap[m]
             /\ \A n \in DOMAIN w.mindmap : w.mindmap[m].name = w.mindmap[n].name => m = n
        /\ \A c \in DOMAIN w.calls :
             /\ {"name", "node", "status"} \subseteq DOMAIN w.calls[c]
             /\ w.calls[c].status \in StepStatuses

VARIABLES
    mindmap,  \* the rows of mindmap, by record id
    step,     \* the rows of task_step, by record id
    entity,   \* the observations of each entity, by name
    relation, \* pairs of names; the ends need not exist
    graph     \* what a call has read of a mindmap or of an entity

docVars == <<mindmap, step, entity, relation, graph>>

NewMap(name, tree) ==
    [name |-> name, tree |-> tree, nodes |-> {}, edges |-> {}, stream |-> None]
NewStep(key, s) == [key |-> key, stream |-> s, status |-> "pending", result |-> None]

\* An end of an edge, and a parent, are ids; "by" tells two nodes of one id apart.
Node(id, parent, by) == [id |-> id, parent |-> parent, by |-> by]
NodeIds(nodes) == {n.id : n \in nodes}

StoreUnchanged == UNCHANGED <<memory, history, clock, left, derivations>>
DocsRead == StoreUnchanged /\ UNCHANGED <<stream, mindmap, step, entity, relation>>
Keeps(c, doc) == graph' = [graph EXCEPT ![c] = <<doc>>]
Kept(c) == graph[c][1]

-----------------------------------------------------------------------------
(* Mindmaps *)

MapNamed(name) == {m \in DOMAIN mindmap : mindmap[m].name = name}
MapId(name)    == CHOOSE m \in MapNamed(name) : TRUE

CreateMap(c) ==
    /\ Starts(c, {"createMap"})
    /\ IF MapNamed(Req(c).name) = {}
       THEN mindmap' = With(mindmap, Req(c).key, NewMap(Req(c).name, Req(c).tree))
            /\ Set(c, End(c, "ok"))
       ELSE Set(c, End(c, "error")) /\ UNCHANGED mindmap
    /\ StoreUnchanged /\ UNCHANGED <<stream, step, entity, relation, graph>>

\* MindMap::validate: ids are unique, parents and ends of edges are there, and a
\* tree has one root.
ValidMap(m) ==
    /\ \A a, b \in m.nodes : a.id = b.id => a = b
    /\ \A n \in m.nodes : n.parent \in NodeIds(m.nodes) \cup {None}
    /\ \A e \in m.edges : e.from \in NodeIds(m.nodes) /\ e.to \in NodeIds(m.nodes)
    /\ m.tree => Cardinality({n \in m.nodes : n.parent = None}) = 1

WithNode(m, c) == [m EXCEPT !.nodes = @ \cup {Node(Req(c).node, Req(c).parent, c)}]
WithEdge(m, c) == [m EXCEPT !.edges = @ \cup {[from |-> Req(c).parent, to |-> Req(c).node]}]

\* delete_mindmap_node keeps the rest, children included.
Without(m, node) ==
    [m EXCEPT !.nodes = {n \in @ : n.id # node},
              !.edges = {e \in @ : e.from # node /\ e.to # node}]

Edited(m, c) ==
    CASE Op(c) = "addNode"    -> WithNode(m, c)
      [] Op(c) = "addEdge"    -> WithEdge(m, c)
      [] Op(c) = "deleteNode" -> Without(m, Req(c).node)

\* The map is read, and what it would be is validated; a removal is not.
ReadMap(c) ==
    LET name == Req(c).name IN
    /\ Starts(c, {"addNode", "addEdge", "deleteNode"})
    /\ IF MapNamed(name) # {} /\ (Op(c) = "deleteNode" \/ ValidMap(Edited(mindmap[MapId(name)], c)))
       THEN /\ Set(c, [Goto(c, "edit") EXCEPT !.id = MapId(name)])
            /\ Keeps(c, mindmap[MapId(name)])
       ELSE Set(c, End(c, "error")) /\ UNCHANGED graph
    /\ DocsRead

\* Mutant: a node, too, is written with the arrays that were read.
EditedCopy(c) == Edited(Kept(c), c)

\* array::append for a node or an edge, both arrays anew for a removal.
Rewritten(c) ==
    IF Op(c) = "deleteNode" THEN Edited(Kept(c), c) ELSE Edited(mindmap[call[c].id], c)

EditMap(c) ==
    LET m == call[c].id IN
    /\ At(c, "edit")
    /\ IF m \in DOMAIN mindmap
       THEN mindmap' = [mindmap EXCEPT ![m].nodes = Rewritten(c).nodes,
                                       ![m].edges = Rewritten(c).edges]
            /\ Set(c, End(c, "ok"))
       ELSE Set(c, End(c, "error")) /\ UNCHANGED mindmap
    /\ StoreUnchanged /\ UNCHANGED <<stream, step, entity, relation, graph>>

FindMap(c) ==
    /\ Starts(c, {"deleteMap"})
    /\ Set(c, IF MapNamed(Req(c).name) = {} THEN End(c, "ok")
              ELSE [Goto(c, "dropMap") EXCEPT !.id = MapId(Req(c).name)])
    /\ UNCHANGED graph /\ DocsRead

DropMap(c) ==
    /\ At(c, "dropMap")
    /\ mindmap' = Restrict(mindmap, DOMAIN mindmap \ {call[c].id})
    /\ Set(c, End(c, "ok"))
    /\ StoreUnchanged /\ UNCHANGED <<stream, step, entity, relation, graph>>

\* delete_task_stream, between its memories and its row.
UnlinkMaps(c) ==
    /\ At(c, "unlink")
    /\ mindmap' = [m \in DOMAIN mindmap |->
                     IF mindmap[m].stream = call[c].stream
                     THEN [mindmap[m] EXCEPT !.stream = None] ELSE mindmap[m]]
    /\ Set(c, Goto(c, "drop"))
    /\ StoreUnchanged /\ UNCHANGED <<stream, step, entity, relation, graph>>

-----------------------------------------------------------------------------
(* Task steps *)

StepsOf(key) == {s \in DOMAIN step : step[s].key = key}

\* add_task_step looks for the stream, then for a step of this key anywhere.
FindStreamOfStep(c) ==
    /\ Starts(c, {"addStep"})
    /\ \/ \E s \in Asked(c) : Set(c, [Goto(c, "findStep") EXCEPT !.stream = s])
       \/ Asked(c) = {} /\ Set(c, End(c, "error"))
    /\ UNCHANGED graph /\ DocsRead

FindStep(c) ==
    /\ At(c, "findStep")
    /\ \/ \E s \in StepsOf(Req(c).node) : Set(c, [End(c, "ok") EXCEPT !.id = s])
       \/ StepsOf(Req(c).node) = {} /\ Set(c, Goto(c, "createStep"))
    /\ UNCHANGED graph /\ DocsRead

\* Mutant: a unique violation is an error like any other.
ViolationFails(c) == End(c, "error")

\* is_unique_violation: another call created the step first; it is fetched.
OnViolation(c) == Goto(c, "refetch")

CreateStep(c) ==
    /\ At(c, "createStep")
    /\ IF StepsOf(Req(c).node) = {}
       THEN /\ step' = With(step, Req(c).key, NewStep(Req(c).node, call[c].stream))
            /\ Set(c, [End(c, "ok") EXCEPT !.id = Req(c).key])
       ELSE Set(c, OnViolation(c)) /\ UNCHANGED step
    /\ StoreUnchanged /\ UNCHANGED <<stream, mindmap, entity, relation, graph>>

RefetchStep(c) ==
    LET found == StepsOf(Req(c).node) IN
    /\ At(c, "refetch")
    /\ Set(c, IF found = {} THEN End(c, "error")
              ELSE [End(c, "ok") EXCEPT !.id = CHOOSE s \in found : TRUE])
    /\ UNCHANGED graph /\ DocsRead

\* complete_step returns a completed step as it is.
CompleteStep(c) ==
    LET found == StepsOf(Req(c).node) IN
    /\ Starts(c, {"completeStep"})
    /\ Set(c, IF found = {} THEN End(c, "error")
              ELSE IF \E s \in found : step[s].status = "completed" THEN End(c, "ok")
              ELSE Goto(c, "setStep"))
    /\ UNCHANGED graph /\ DocsRead

StatusOf(c) == IF Op(c) = "completeStep" THEN "completed" ELSE Req(c).status

\* update_task_step_status
SetStep(c) ==
    LET found == StepsOf(Req(c).node) IN
    /\ At(c, "setStep") \/ Starts(c, {"setStep"})
    /\ step' = [s \in DOMAIN step |->
                  IF s \in found
                  THEN [step[s] EXCEPT !.status = StatusOf(c), !.result = Req(c).text]
                  ELSE step[s]]
    /\ Set(c, End(c, IF found = {} THEN "error" ELSE "ok"))
    /\ StoreUnchanged /\ UNCHANGED <<stream, mindmap, entity, relation, graph>>

-----------------------------------------------------------------------------
(* Entities, their observations and relations *)

CreateEntity(c) ==
    LET name == Req(c).name IN
    /\ Starts(c, {"createEntity"})
    /\ IF name \notin DOMAIN entity
       THEN entity' = With(entity, name, {}) /\ Set(c, End(c, "ok"))
       ELSE Set(c, End(c, "error")) /\ UNCHANGED entity
    /\ StoreUnchanged /\ UNCHANGED <<stream, mindmap, step, relation, graph>>

\* create_relation takes any two names; only the pair (with its type) is unique.
Pair(c) == <<Req(c).name, Req(c).node>>

CreateRelation(c) ==
    /\ Starts(c, {"createRelation"})
    /\ relation' = relation \cup {Pair(c)}
    /\ Set(c, End(c, IF Pair(c) \in relation THEN "error" ELSE "ok"))
    /\ StoreUnchanged /\ UNCHANGED <<stream, mindmap, step, entity, graph>>

DeleteRelation(c) ==
    /\ Starts(c, {"deleteRelation"})
    /\ relation' = relation \ {Pair(c)} /\ Set(c, End(c, "ok"))
    /\ StoreUnchanged /\ UNCHANGED <<stream, mindmap, step, entity, graph>>

\* One transaction: the entity, and the relations from and to it.
DeleteEntity(c) ==
    LET name == Req(c).name IN
    /\ Starts(c, {"deleteEntity"})
    /\ entity' = Restrict(entity, DOMAIN entity \ {name})
    /\ relation' = {r \in relation : name \notin {r[1], r[2]}}
    /\ Set(c, End(c, "ok"))
    /\ StoreUnchanged /\ UNCHANGED <<stream, mindmap, step, graph>>

\* add_observations reads the row and writes all its observations back.
ReadEntity(c) ==
    LET name == Req(c).name IN
    /\ Starts(c, {"observe"})
    /\ IF name \in DOMAIN entity
       THEN Set(c, Goto(c, "writeEntity")) /\ Keeps(c, entity[name])
       ELSE Set(c, End(c, "error")) /\ UNCHANGED graph
    /\ DocsRead

\* update_entity: the observations of the request, or those just read and one more.
Observations(c) == IF Op(c) = "observe" THEN Kept(c) \cup {c} ELSE {c}

UpdateEntity(c) ==
    LET name == Req(c).name IN
    /\ At(c, "writeEntity") \/ Starts(c, {"updateEntity"})
    /\ IF name \in DOMAIN entity
       THEN entity' = [entity EXCEPT ![name] = Observations(c)] /\ Set(c, End(c, "ok"))
       ELSE Set(c, End(c, "error")) /\ UNCHANGED entity
    /\ StoreUnchanged /\ UNCHANGED <<stream, mindmap, step, relation, graph>>

-----------------------------------------------------------------------------

DocumentStep(c) ==
    \/ CreateMap(c) \/ ReadMap(c) \/ EditMap(c) \/ FindMap(c) \/ DropMap(c) \/ UnlinkMaps(c)
    \/ FindStreamOfStep(c) \/ FindStep(c) \/ CreateStep(c) \/ RefetchStep(c)
    \/ CompleteStep(c) \/ SetStep(c)
    \/ CreateEntity(c) \/ CreateRelation(c) \/ DeleteRelation(c) \/ DeleteEntity(c)
    \/ ReadEntity(c) \/ UpdateEntity(c)

-----------------------------------------------------------------------------
(* Properties *)

Removing == {"deleteNode", "deleteMap"}

\* A node whose addition was acknowledged is in the map, whatever was added
\* beside it, as long as nothing is removed from the map.
AckedNodesKept ==
    (\A c \in DOMAIN call : Op(c) \notin Removing) =>
        \A c \in DOMAIN call :
            Op(c) = "addNode" /\ call[c].answer = "ok" =>
                \E m \in MapNamed(Req(c).name) : \E n \in mindmap[m].nodes : n.by = c

\* Calls that add a step under one idempotency key agree: all of them that are
\* not dropped succeed once the stream is found, with one and the same step, and
\* the key has one row.
AddsAgree ==
    /\ \A s, t \in DOMAIN step : step[s].key = step[t].key => s = t
    /\ \A c \in DOMAIN call :
         Op(c) = "addStep" =>
            /\ call[c].answer = "error" => call[c].stream = None
            /\ call[c].answer = "ok" => StepsOf(Req(c).node) = {call[c].id}

DocTypeOK ==
    /\ StreamTypeOK
    /\ \A m, n \in DOMAIN mindmap : mindmap[m].name = mindmap[n].name => m = n
    /\ \A s \in DOMAIN step : step[s].status \in StepStatuses
    /\ DOMAIN graph = DOMAIN call
=============================================================================
