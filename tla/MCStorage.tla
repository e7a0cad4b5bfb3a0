----------------------------- MODULE MCStorage -----------------------------
(* Workloads of Server and Storage small enough for TLC. *)
EXTENDS Server

Says(claim, kind, qualifiers, tokens) ==
    [claim |-> claim, kind |-> kind, negated |-> FALSE, qualifiers |-> qualifiers,
     validated |-> FALSE, tokens |-> tokens]

MCSentence == "use"   :> Says("u", "decision", {}, 2)
           @@ "maybe" :> Says("u", "none", {"uncertain"}, 2)
           @@ "learn" :> Says("v", "lesson", {}, 2)
           @@ "chat"  :> Says("c", "none", {}, 9)
           @@ "long"  :> Says("l", "none", {}, 90)
           @@ "head"  :> Says("h", "none", {}, 1)

A == {"use", "chat"}
B == {"learn", "chat"}

Forever == MaxNow

\* A request with the fields a call may need.
R(op) == [op |-> op, id |-> "m1", key |-> "new", digest |-> "digest", text |-> B,
          owner |-> "u", scope |-> None, until |-> Forever, name |-> "s", node |-> "n", parent |-> None,
          tree |-> TRUE, provider |-> FALSE, status |-> "running"]
Keys(op, key, digest) == [R(op) EXCEPT !.key = key, !.digest = digest]

Old   == [NewRow(A, "u") EXCEPT !.until = MaxNow - 1]
Older == [NewRow(A, "u") EXCEPT !.until = 0]
In(s) == [NewRow(A, "u") EXCEPT !.stream = s]

\* Process a has been serving, alone.
Running(p) == IF p = "a" THEN [Process(8, "jwt") EXCEPT !.up = "up", !.cell = "ready"]
              ELSE Process(8, "jwt")

Work(rows, streams, maps, calls, n) ==
    [memory |-> rows, stream |-> streams, mindmap |-> maps, now |-> MaxNow,
     entity |-> "e" :> {}, calls |-> calls, left |-> n,
     clients |-> [c \in DOMAIN calls |-> Client("in", "a")],
     server |-> [p \in Processes |-> Running(p)], db |-> Database(24, 8), outages |-> 0]
Before(w) == [w EXCEPT !.now = MaxNow - 1]   \* before an old row expires

Nothing == << >>
One     == "m1" :> NewRow(A, "u")
Open    == "S" :> NewStream("s", "u", 11)
Empty   == "S" :> NewStream("s", "u", 0)
Both    == Empty @@ "T" :> NewStream("s", "v", 0)
Root    == "M" :> [NewMap("map", TRUE) EXCEPT !.nodes = {Node("root", None, "init")}]
Four    == [m \in {"m1", "m2", "m3", "m4"} |-> In("S")]
Full    == "S" :> NewStream("s", "u", 44)

On(name, r)  == [r EXCEPT !.name = name]
By(u, r)     == [r EXCEPT !.owner = u, !.scope = u]
Child(n, p)  == [R("addNode") EXCEPT !.name = "map", !.node = n, !.parent = p]

MemoryWork ==
    {Work(One, Nothing, Nothing, "c1" :> R("update") @@ "c2" :> R("update") @@ "c3" :> R("delete"), 1),
     Before(Work("m1" :> Old, Nothing, Nothing,
          "c1" :> R("update") @@ "c2" :> R("sweep") @@ "c3" :> R("sweep") @@ "c4" :> R("delete"), 1)),
     \* Two sweeps, of one instant or of two.
     Before(Work("m1" :> Older, Nothing, Nothing,
          "c1" :> R("sweep") @@ "c2" :> R("sweep") @@ "c3" :> R("delete"), 1)),
     Work(Nothing, Nothing, Nothing,
          "c1" :> R("index") @@ "c2" :> R("index") @@ "c3" :> [R("delete") EXCEPT !.id = "new"], 1),
     Work(One, Nothing, Nothing,
          "c1" :> Keys("add", "n1", "") @@ "c2" :> Keys("add", "n2", "") @@ "c3" :> R("deleteAll"), 1),
     Work(One, Nothing, Nothing,
          "c1" :> R("updateOwned") @@ "c2" :> R("deleteOwned")
          @@ "c3" :> [R("updateOwned") EXCEPT !.owner = "v"] @@ "c4" :> R("delete"), 1)}

StreamWork ==
    {Work(Four, Full, Nothing,
          "c1" :> Keys("addTo", "n1", "d1") @@ "c2" :> Keys("summarize", "n2", "d2")
          @@ "c3" :> [R("update") EXCEPT !.text = {"long"}], 0),
     Work(Four, Full, Nothing,
          "c1" :> Keys("addTo", "n1", "d1") @@ "c2" :> Keys("addTo", "n2", "d2"), 1),
     Work("m1" :> In("S"), Open, "M" :> [NewMap("map", TRUE) EXCEPT !.stream = "S"],
          "c1" :> Keys("addTo", "n1", "d1") @@ "c2" :> R("deleteStream")
          @@ "c3" :> Keys("createStream", "S2", "") @@ "c4" :> R("deleteStream"), 0),
     Work(Nothing, Empty, Nothing,
          "c1" :> Keys("addTo", "n1", "d1") @@ "c2" :> R("pause") @@ "c3" :> R("archive")
          @@ "c4" :> Keys("addTo", "n2", "d2"), 0),
     \* Two owners have a stream of one name; an add, or a pause, names none of them.
     Work(Nothing, Both, Nothing,
          "c1" :> By("u", Keys("addTo", "n1", "d1")) @@ "c2" :> By("v", Keys("addTo", "n2", "d2"))
          @@ "c3" :> By("v", R("pause")), 0),
     Work(Nothing, Both, Nothing,
          "c1" :> Keys("addTo", "n1", "d1") @@ "c2" :> By("v", Keys("addTo", "n2", "d2"))
          @@ "c3" :> R("pause"), 0),
     Work("m1" :> NewRow(A, "u") @@ "m2" :> NewRow(B, "u"), Nothing, Nothing,
          "c1" :> Keys("compress", "", "d1") @@ "c2" :> Keys("compress", "", "d2")
          @@ "c3" :> R("update") @@ "c4" :> R("delete"), 0),
     Before(Work("m1" :> Old @@ "m2" :> NewRow(B, "u"), Nothing, Nothing,
          "c1" :> Keys("compress", "", "d1") @@ "c2" :> R("sweep")
          @@ "c3" :> [Keys("add", "n1", "") EXCEPT !.until = MaxNow - 1], 1)),
     Work("m1" :> NewRow({"maybe", "chat"}, "u") @@ "m2" :> NewRow(B, "u"), Nothing, Nothing,
          "c1" :> [Keys("compress", "", "d1") EXCEPT !.provider = TRUE] @@ "c2" :> R("update"), 0)}

\* A memory is said again after it was compressed, and compressed with the summary.
LineageWork ==
    {Work("m1" :> NewRow(A, "u") @@ "m2" :> NewRow(B, "u"), Nothing, Nothing,
          "c1" :> Keys("compress", "", "d1") @@ "c2" :> [Keys("add", "n1", "") EXCEPT !.text = A]
          @@ "c3" :> Keys("compress", "", "d2"), 0)}

DocumentWork ==
    {Work(Nothing, Nothing, Root,
          "c1" :> Child("n1", "root") @@ "c2" :> Child("n2", "root")
          @@ "c3" :> Child("n3", None)
          @@ "c4" :> [Child("n1", "root") EXCEPT !.op = "addEdge"], 1),
     Work(Nothing, Nothing, Root,
          "c1" :> Child("n1", "root") @@ "c2" :> On("map", [R("deleteNode") EXCEPT !.node = "root"])
          @@ "c3" :> On("map", R("deleteMap")) @@ "c4" :> On("map", Keys("createMap", "M2", "")), 1),
     Work(Nothing, Empty, Nothing,
          "c1" :> Keys("addStep", "t1", "") @@ "c2" :> Keys("addStep", "t2", "")
          @@ "c3" :> R("completeStep") @@ "c4" :> R("setStep") @@ "c5" :> R("deleteStream"), 1),
     Work(Nothing, Nothing, Nothing,
          "c1" :> On("e", R("observe")) @@ "c2" :> On("e", R("observe"))
          @@ "c3" :> On("e", R("createRelation")) @@ "c4" :> On("e", R("deleteEntity"))
          @@ "c5" :> On("e", R("createEntity")), 1),
     Work(Nothing, Nothing, Nothing,
          "c1" :> On("e", R("observe")) @@ "c2" :> On("e", R("updateEntity"))
          @@ "c3" :> On("e", R("createRelation")) @@ "c4" :> On("e", R("deleteRelation"))
          @@ "c5" :> R("summarize"), 0)}

\* The same, from a database and with processes as given.
Hosted(w, data, procs, clients, n) ==
    [w EXCEPT !.clients = clients, !.db = data, !.outages = n,
              !.server = [p \in Processes |-> IF p \in DOMAIN procs THEN procs[p]
                                              ELSE Process(8, "jwt")]]

Up(dim)   == [Process(dim, "jwt") EXCEPT !.up = "up"]
Public    == [Process(8, "local") EXCEPT !.loopback = FALSE]
Some(cs)  == [c \in cs |-> Client("new", None)]
Version9  == [Database(9, 0) EXCEPT !.legacy = {"r1", "r2"}]
Version16 == [Database(16, 0) EXCEPT !.hnsw = 1536]
Shared    == [Database(24, 8) EXCEPT !.shared = TRUE]
Unknown   == [Version9 EXCEPT !.unknown = TRUE]
As(user)  == [Client("new", None) EXCEPT !.user = user]
NoToken   == [Client("new", None) EXCEPT !.token = FALSE]

Pauses == "c1" :> R("pause") @@ "c2" :> R("pause")

ServerWork ==
    {Hosted(Work(Nothing, Nothing, Nothing, Pauses, 0), Version9, "a" :> Up(8), Some({"c1", "c2"}), 1),
     Hosted(Work(Nothing, Nothing, Nothing, Pauses, 0), Database(24, 8), "a" :> Up(8), Some({"c1", "c2"}), 2),
     Hosted(Work(Nothing, Nothing, Nothing, Pauses, 0), Database(0, 0), "a" :> Up(8), Some({"c1", "c2"}), 1),
     Hosted(Work(Nothing, Nothing, Nothing, "c1" :> R("pause"), 0),
            Version16, "a" :> Process(8, "local"), Some({"c1"}), 3),
     Hosted(Work(Nothing, Nothing, Nothing, "c1" :> R("pause") @@ "c2" :> R("repairData"), 0),
            Unknown, "a" :> Up(8), Some({"c1", "c2"}), 0),
     Hosted(Work(Nothing, Nothing, Nothing, "c1" :> R("pause") @@ "c2" :> R("repairData"), 0),
            Version9, "a" :> Up(8), Some({"c1", "c2"}), 1),
     Hosted(Work(Nothing, Nothing, Nothing, "c1" :> R("pause") @@ "c2" :> Keys("add", "n1", ""), 0),
            Database(10, 0), "a" :> Up(8) @@ "b" :> Up(4), Some({"c1", "c2"}), 0),
     Hosted(Work(Nothing, Nothing, Nothing, "c1" :> R("pause") @@ "c2" :> Keys("add", "n1", "")
            @@ "c3" :> R("pause"), 0),
            Database(24, 8), "a" :> Up(8) @@ "b" :> Up(4), Some({"c1", "c2"}) @@ "c3" :> NoToken, 1),
     Hosted(Work(Nothing, Nothing, Nothing, Pauses, 0),
            Shared, "a" :> Up(8) @@ "b" :> Public, Some({"c1", "c2"}), 2),
     Hosted(Before(Work("m1" :> Old, Nothing, Nothing,
            "c1" :> R("update") @@ "c2" :> R("sweep") @@ "c3" :> R("sweep"), 0)),
            Database(24, 8), "a" :> Up(8), Some({"c1", "c2", "c3"}), 2),
     Hosted(Work("m1" :> NewRow(A, "v") @@ "m2" :> NewRow(A, "u"), Nothing, Nothing,
            "c1" :> R("update") @@ "c2" :> R("delete") @@ "c3" :> R("deleteAll")
            @@ "c4" :> [Keys("add", "n1", "") EXCEPT !.text = A] @@ "c5" :> R("deleteAll"), 0),
            Database(24, 8), "a" :> Running("a"),
            "c1" :> As("u") @@ "c2" :> As("u") @@ "c3" :> As("v") @@ "c4" :> As("u") @@ "c5" :> As("u"), 0)}

MCWorkloads == MemoryWork \cup StreamWork \cup LineageWork \cup DocumentWork \cup ServerWork
=============================================================================
