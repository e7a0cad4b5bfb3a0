---------------------------- MODULE TaskStreams ----------------------------
(***************************************************************************)
(* Task streams and evidence-backed compression                            *)
(* (crates/surreal-memory/src/storage/surreal.rs and                       *)
(* surreal/derivation.rs).  A stream counts the tokens of its memories;    *)
(* past a threshold the oldest half of them is derived into a summary: the *)
(* sources are archived, the summary is published and the counter is put   *)
(* right in one transaction that fails if a source changed meanwhile.      *)
(***************************************************************************)
EXTENDS MemoryStore

CONSTANTS
    Threshold,   \* summarization_threshold of the model profile
    MinMembers   \* fewest live members that are compressed

ASSUME MembersAssumption == MinMembers \in Nat /\ MinMembers >= 2

\* The streams there are to start with have counted their memories.
ASSUME StreamAssumption ==
    \A w \in Workloads :
        /\ None \notin DOMAIN w.stream
        /\ \A s \in DOMAIN w.stream :
             /\ {"name", "owner", "status", "tokens"} \subseteq DOMAIN w.stream[s]
             /\ w.stream[s].status \in {"active", "paused", "archived"}
             /\ w.stream[s].tokens = Total(w.memory, {i \in DOMAIN w.memory :
                                         w.memory[i].active /\ w.memory[i].stream = s})
             /\ \A t \in DOMAIN w.stream :
                  w.stream[s].name = w.stream[t].name /\ w.stream[s].owner = w.stream[t].owner => s = t
        /\ \A i \in DOMAIN w.memory : w.memory[i].stream \in DOMAIN w.stream \cup {None}
        /\ \A c \in DOMAIN w.calls :
             /\ {"name", "scope"} \subseteq DOMAIN w.calls[c]
             /\ w.calls[c].op = "createStream" => w.calls[c].key # None

VARIABLE derivations   \* the published rows of memory_derivation

\* An owner that was not given is None here and "" in the row.
NewStream(name, owner, tokens) ==
    [name |-> name, owner |-> owner, status |-> "active", tokens |-> tokens]

IsActive(s) == stream[s].status = "active"
Members(s)  == {i \in DOMAIN memory : memory[i].stream = s}

\* needs_summarization, by the profile of the stream's model.
NeedsSummary(s) == stream[s].tokens >= Threshold

StreamRead == ReadOnly /\ UNCHANGED derivations
RowsUnchanged == UNCHANGED <<memory, history, clock, left, derivations>>

-----------------------------------------------------------------------------
(* The streams *)

\* The unique index is on the owner and the name.
IsTaken(name, owner) == \E s \in DOMAIN stream : stream[s].name = name /\ stream[s].owner = owner

CreateStream(c) ==
    /\ Starts(c, {"createStream"})
    /\ IF ~IsTaken(Req(c).name, Req(c).owner)
       THEN stream' = With(stream, Req(c).key, NewStream(Req(c).name, Req(c).owner, 0))
            /\ Set(c, End(c, "ok"))
       ELSE Set(c, End(c, "error")) /\ UNCHANGED stream
    /\ RowsUnchanged

\* The streams the request may mean.  get_task_stream returns any one of them.
Asked(c) == Named(Req(c).name, Req(c).scope)

\* pause_task_stream, archive_task_stream: all of them are updated, and then more
\* than one is an answer that cannot be decoded.
SetStatus(c) ==
    /\ Starts(c, {"pause", "archive"})
    /\ stream' = [s \in DOMAIN stream |->
                     IF s \in Asked(c)
                     THEN [stream[s] EXCEPT !.status = IF Op(c) = "pause" THEN "paused"
                                                       ELSE "archived"]
                     ELSE stream[s]]
    /\ Set(c, End(c, IF Cardinality(Asked(c)) = 1 THEN "ok" ELSE "error"))
    /\ RowsUnchanged

\* add_to_task_stream: the stream is read once; the insert that follows goes by
\* the id read here and counts by the name.
StartAddTo(c) ==
    /\ Starts(c, {"addTo"})
    /\ \/ \E s \in Asked(c) :
            Set(c, IF IsActive(s) THEN [Goto(c, "search") EXCEPT !.stream = s]
                   ELSE End(c, "error"))
       \/ Asked(c) = {} /\ Set(c, End(c, "error"))
    /\ StreamRead

\* auto_summarize_task_stream begins, for the streams of an owner or of all.
Summarizing(c, scope) == [Goto(c, "load") EXCEPT !.scope = scope]

\* maybe_summarize_after_add, with the owner of the stream it sees; a failure of
\* the summary never fails the add.
SeeCounter(c) ==
    /\ At(c, "stored")
    /\ \/ \E s \in Asked(c) :
            Set(c, IF NeedsSummary(s) THEN Summarizing(c, stream[s].owner) ELSE End(c, "ok"))
       \/ Asked(c) = {} /\ Set(c, End(c, "error"))
    /\ StreamRead

StartDeleteStream(c) ==
    /\ Starts(c, {"deleteStream"})
    /\ \/ \E s \in Asked(c) : Set(c, [Goto(c, "list") EXCEPT !.stream = s])
       \/ Asked(c) = {} /\ Set(c, End(c, "error"))
    /\ StreamRead

ListMembers(c) ==
    /\ At(c, "list")
    /\ Set(c, [Goto(c, "next") EXCEPT !.todo = Members(call[c].stream)])
    /\ StreamRead

\* The mindmaps are unlinked in between (Documents).
DropStream(c) ==
    LET s == call[c].stream IN
    /\ At(c, "drop")
    /\ stream' = Restrict(stream, DOMAIN stream \ {s})
    /\ Set(c, End(c, IF s \in DOMAIN stream THEN "ok" ELSE "error"))
    /\ RowsUnchanged

-----------------------------------------------------------------------------
(* auto_summarize_task_stream and compress_memories choose the sources *)

StartCompress(c) ==
    /\ Starts(c, {"compress"})
    /\ Set(c, [Goto(c, "select") EXCEPT !.scope = Req(c).owner])
    /\ StreamRead

\* The tool passes the scope on; the route, if it has none, takes the owner of a
\* stream that it finds by the name.
StartSummarize(c) ==
    LET scope == Req(c).scope  found == Named(Req(c).name, None) IN
    /\ Starts(c, {"summarize"})
    /\ \/ Set(c, Summarizing(c, scope))
       \/ \E s \in found :
            scope = None /\ Set(c, Summarizing(c, stream[s].owner))
       \/ found = {} /\ Set(c, End(c, "error"))
    /\ StreamRead

\* How a call ends when nothing, or something, was published.
Derived(c, ans) == End(c, IF Op(c) = "addTo" THEN "ok" ELSE ans)

LoadStream(c) ==
    LET found == Named(Req(c).name, call[c].scope) IN
    /\ At(c, "load")
    /\ \/ \E s \in found :
            Set(c, IF IsActive(s) /\ NeedsSummary(s)
                   THEN [Goto(c, "select") EXCEPT !.stream = s]
                   ELSE Derived(c, "deferred"))
       \/ found = {} /\ Set(c, Derived(c, "deferred"))
    /\ StreamRead

\* The oldest half of the stream's live memories in scope; of compress_memories
\* every live memory in scope that is in no stream.
Sources(c) ==
    LET live == {i \in DOMAIN memory : /\ Live(i) /\ memory[i].stream = call[c].stream
                                       /\ Matches(memory[i].owner, call[c].scope)}
    IN  IF Op(c) = "compress" THEN {live} \ {{}}
        ELSE IF Cardinality(live) < MinMembers THEN {}
        ELSE {h \in kSubset(Cardinality(live) \div 2, live) :
                \A i \in h, j \in live \ h : memory[i].born <= memory[j].born}

SelectSources(c) ==
    /\ At(c, "select")
    /\ \/ \E h \in Sources(c) :
            Set(c, [Goto(c, "generate") EXCEPT !.seen = Restrict(memory, h)])
       \/ Sources(c) = {} /\ Set(c, Derived(c, "deferred"))
    /\ StreamRead

-----------------------------------------------------------------------------
(* derive_summary *)

\* What the gate lets through of what the configured summarizer proposes, of
\* sources of one owner: the owner of the summary.
Owners(c) == {call[c].seen[i].owner : i \in DOMAIN call[c].seen}

Accepted(c) ==
    LET src == call[c].seen IN
    IF Cardinality(Owners(c)) # 1 THEN {}
    ELSE UNION {Gate(src, cands) : cands \in IF Req(c).provider THEN Proposed(src)
                                        ELSE {Extracted(src)}}

\* The summarizer may be slow or absent, the gate may refuse all it says, the
\* embedding may fail: nothing has been written yet.
Generate(c) ==
    /\ At(c, "generate")
    /\ \/ \E k \in Accepted(c) : Set(c, [Goto(c, "published") EXCEPT !.claims = k])
       \/ Set(c, Derived(c, "deferred"))
    /\ StreamRead

DerivationKey(c) ==
    [label |-> IF Op(c) = "compress" THEN "compressed" ELSE "auto_summary",
     stream |-> call[c].stream,
     sources |-> {<<i, call[c].seen[i].version>> : i \in DOMAIN call[c].seen}]

\* published_derivation: the derivation of this key, if its summary is there.
Published(c) == \E d \in derivations :
                    d.key = DerivationKey(c) /\ d.summary \in DOMAIN memory

CheckPublished(c) ==
    /\ At(c, "published")
    /\ Set(c, IF Published(c) THEN Derived(c, "ok") ELSE Goto(c, "publish"))
    /\ StreamRead

\* Mutant: only a source that is gone is drift.
DriftIsDeletion(c) == DOMAIN call[c].seen \ DOMAIN memory # {}

SourceDrift(c) ==
    \E i \in DOMAIN call[c].seen :
        \/ i \notin DOMAIN memory
        \/ memory[i].version # call[c].seen[i].version
        \/ ~memory[i].active

Summary(c) ==
    LET seen == call[c].seen
        untils == {seen[i].until : i \in DOMAIN seen}
    IN  [NewRow(Rendered(call[c].claims), CHOOSE o \in Owners(c) : TRUE) EXCEPT
            !.stream = call[c].stream, !.until = Min(untils), !.born = clock,
            !.origin = "summary", !.roots = RootsOf(seen, DOMAIN seen)]

SourceTokens(c) == Total(call[c].seen, DOMAIN call[c].seen)

\* Mutant: the counter of the stream has no floor.
MinusUnfloored(a, b) == a - b

Minus(a, b) == IF a > b THEN a - b ELSE 0

\* Mutant: the tokens of the summary are not counted.
RecountSources(c, tokens) == Minus(tokens, SourceTokens(c))

\* math::max([0, total_tokens - $archived]) + $summary_tokens
Recount(c, tokens) == Minus(tokens, SourceTokens(c)) + Tokens(Rendered(call[c].claims))

\* The sources stay, as rows that no search finds.
Archived(c) == [i \in DOMAIN memory |->
                   IF i \in DOMAIN call[c].seen
                   THEN [memory[i] EXCEPT !.active = FALSE, !.version = @ + 1]
                   ELSE memory[i]]

Publish(c) ==
    LET seen == call[c].seen  s == call[c].stream IN
    /\ At(c, "publish")
    /\ IF SourceDrift(c)
       THEN Set(c, Goto(c, "thrown")) /\ UNCHANGED <<memory, history, stream, derivations>>
       ELSE /\ memory' = With(Archived(c), Req(c).digest, Summary(c))
            /\ history' = history
                 \cup {HistoryRow(i, seen[i].version + 1, "summarized", seen[i].text, c)
                         : i \in DOMAIN seen}
                 \cup {HistoryRow(Req(c).digest, 1, "created", Summary(c).text, c)}
            /\ derivations' = derivations \cup
                 {[key |-> DerivationKey(c), summary |-> Req(c).digest, by |-> c,
                   claims |-> call[c].claims]}
            /\ stream' = IF s \in DOMAIN stream
                         THEN [stream EXCEPT ![s].tokens = Recount(c, @)] ELSE stream
            /\ Set(c, Goto(c, "confirm"))
    /\ UNCHANGED <<clock, left>>

\* Whatever became of the transaction, a published derivation is success.
Confirm(c) ==
    /\ At(c, "confirm") \/ At(c, "thrown")
    /\ Set(c, Derived(c, IF Published(c) THEN "ok"
                         ELSE IF At(c, "thrown") THEN "deferred" ELSE "error"))
    /\ StreamRead

-----------------------------------------------------------------------------

StreamStep(c) ==
    \/ CreateStream(c) \/ SetStatus(c) \/ StartAddTo(c) \/ SeeCounter(c)
    \/ StartDeleteStream(c) \/ ListMembers(c) \/ DropStream(c)
    \/ StartCompress(c) \/ StartSummarize(c) \/ LoadStream(c) \/ SelectSources(c)
    \/ Generate(c) \/ CheckPublished(c) \/ Publish(c) \/ Confirm(c)

-----------------------------------------------------------------------------
(* Properties *)

\* A published derivation archived what it read: every source had the version
\* read and was archived in the very next one by this derivation and no other, so
\* an update that committed while the summarizer ran is not summarized away; and
\* every claim quotes what the named memory said at the version it names.
SummariesCiteWhatWas ==
    \A d \in derivations :
        /\ \A s \in d.key.sources :
             /\ \E h \in history : /\ h.id = s[1] /\ h.version = s[2] + 1
                                   /\ h.type = "summarized" /\ h.key = d.by
             /\ \A h \in history : h.id = s[1] /\ h.version = s[2] + 1
                                     => h.type # "updated"
             /\ \A e \in derivations : s \in e.key.sources => e = d
        /\ \A k \in d.claims : \A e \in k.evidence :
             \E h \in history : /\ h.id = e.id /\ h.version = e.version
                                /\ e.quote \in h.text

\* compression/lineage.rs:4 says of a summary of a summary that it "can never
\* raise its own corroboration".  So a claim that is promoted as corroborated is
\* made by two memories of different texts, neither of which is a summary.
CorroborationIsEarned ==
    \A d \in derivations : \A k \in d.claims :
        k.status = "promoted" /\ ~Sentence[k.text].validated =>
            \E g, h \in {r \in history : /\ Header \notin r.text
                                        /\ \E s \in r.text : Sentence[s].claim = Sentence[k.text].claim} :
                g.id # h.id /\ g.text # h.text

Deleting == {"delete", "deleteOwned", "deleteAll", "deleteStream", "sweep"}

\* No add counts for this stream together with another of the same name.
CountedAlone(s) ==
    \A c \in DOMAIN call :
        Op(c) = "addTo" /\ s \in Asked(c) => \A t \in Asked(c) : t = s

\* As long as nothing is deleted and none of its memories was updated, the counter
\* of a stream is at least the sum of the tokens of its active memories, and just
\* that if no unscoped add meets another owner's stream of the name beside it (such
\* an add counts for all of them): through concurrent adds, near-duplicates,
\* summaries of one and the same half and lost answers.
CounterExact ==
    (\A c \in DOMAIN call : Op(c) \notin Deleting) =>
        \A s \in DOMAIN stream :
            (\A h \in history : h.type = "updated" => h.id \notin Members(s)) =>
                LET held == Total(memory, {i \in Members(s) : memory[i].active}) IN
                /\ stream[s].tokens >= held
                /\ CountedAlone(s) => stream[s].tokens = held

StreamTypeOK ==
    /\ StoreTypeOK
    /\ \A s \in DOMAIN stream : /\ stream[s].status \in {"active", "paused", "archived"}
                                /\ stream[s].tokens \in Nat
    /\ \A s, t \in DOMAIN stream :
         stream[s].name = stream[t].name /\ stream[s].owner = stream[t].owner => s = t
=============================================================================
