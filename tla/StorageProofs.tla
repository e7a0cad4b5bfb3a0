---------------------------- MODULE StorageProofs ----------------------------
(***************************************************************************)
(* What the storage promises about memories, their history and the         *)
(* summaries made of them, for every workload, any number of calls, of     *)
(* processes and of things that go wrong: however calls interleave, are    *)
(* dropped and die with their process.                                     *)
(***************************************************************************)
EXTENDS Server, FiniteSetTheorems, TLAPS

RowFields  == {"text", "version", "active", "owner"}
CallFields == {"req", "pc", "id", "seen", "todo", "cutoff", "stream", "scope", "removed",
               "claims", "answer"}
ReqFields  == {"op", "key", "digest", "owner"}

\* Some history row says what the row says now.
Witnessed(i, row, hist) ==
    /\ row.version \in Nat
    /\ \E h \in hist : h.id = i /\ h.version = row.version /\ h.text = row.text

\* The history of a row that is there.
RowOK(i, row, hist) ==
    /\ RowFields \subseteq DOMAIN row
    /\ Witnessed(i, row, hist)
    /\ \A v \in 1..row.version : \E h \in hist : h.id = i /\ h.version = v
    /\ \A h \in hist : h.id = i => h.version <= row.version /\ h.type # "deleted"
    /\ \A g, h \in hist : g.id = i /\ h.id = i /\ g.version = h.version => g = h

RowsInv == \A i \in DOMAIN memory : RowOK(i, memory[i], history)

-----------------------------------------------------------------------------
(* The calls *)

Adds    == {"add", "addTo"}
Derives == {"addTo", "summarize", "compress"}
Ended   == {"confirm", "thrown", "done"}

\* Where a call may still change the instant it goes by, and where no sweep is.
Early    == {"start", "search", "get", "list", "next", "delete"}
NotSwept == {"list", "next", "delete"}

\* Where a call creates rows it is one that may.
PathOK(op, pc) ==
    /\ pc \in NotSwept => op # "sweep"
    /\ pc \in {"search", "insert"} => op \in Adds
    /\ pc \in {"stored", "load", "select", "generate", "published", "publish"} => op \in Derives
    /\ pc = "create" => op = "index"

\* The ids a call has still to create.
DueKey(op, pc)    == op \in Adds /\ pc \in {"start", "search", "insert"}
DueDigest(op, pc) == op \in Derives /\ pc \notin Ended

Due(r, i) == \/ i = r.req.key /\ DueKey(r.req.op, r.pc)
             \/ i = r.req.digest /\ DueDigest(r.req.op, r.pc)

\* What a call remembers was once so.
CallOK(c, r, hist) ==
    /\ CallFields \subseteq DOMAIN r /\ ReqFields \subseteq DOMAIN r.req
    /\ PathOK(r.req.op, r.pc)
    /\ r.req.op = "addTo" => r.req.key # r.req.digest
    /\ \A i \in DOMAIN r.seen : Witnessed(i, r.seen[i], hist)
    /\ r.pc \in Early => r.removed = {}
    /\ \A i \in r.removed : \E h \in hist : h.id = i /\ h.type = "deleted" /\ h.at = r.cutoff
    /\ r.pc \in {"published", "publish"} =>
          \A k \in r.claims : \A e \in k.evidence : InSource(r.seen, e)

CallsInv == \A c \in DOMAIN call : CallOK(c, call[c], history)

\* The ids to come are new, and nobody else's.
FreshInv ==
    \A c \in DOMAIN call : \A i :
        Due(call[c], i) =>
            /\ i \notin DOMAIN memory
            /\ \A h \in history : h.id # i
            /\ \A d \in DOMAIN call \ {c} : ~Due(call[d], i)
            /\ \A d \in DOMAIN call : Op(d) = "index" => Req(d).key # i

\* A memory that ever had a stable key has it in its history.
KeysInv ==
    \A c \in DOMAIN call :
        Op(c) = "index" /\ (\A h \in history : h.key # Req(c).key) =>
            \A h \in history : h.id # Req(c).key

HistoryInv == \A h \in history : h.version \in Nat

\* Of one memory one sweep at most has written an audit row.
SweptInv == \A g, h \in history : Swept(g) /\ Swept(h) /\ g.id = h.id => g = h

IInv ==
    /\ RowsInv /\ CallsInv /\ FreshInv /\ KeysInv /\ HistoryInv /\ SweptInv
    /\ SummariesCiteWhatWas

-----------------------------------------------------------------------------
(* Histories only grow, and what was witnessed stays so *)

LEMMA WitnessKept ==
    ASSUME NEW i, NEW row, NEW hist, NEW more, hist \subseteq more, Witnessed(i, row, hist)
    PROVE  Witnessed(i, row, more)
  BY DEF Witnessed

LEMMA CallKept ==
    ASSUME NEW c, NEW r, NEW hist, NEW more, hist \subseteq more, CallOK(c, r, hist)
    PROVE  CallOK(c, r, more)
  BY WitnessKept DEF CallOK

\* A row none of whose history is new.
LEMMA RowKept ==
    ASSUME NEW i, NEW row, NEW hist, NEW more, hist \subseteq more, RowOK(i, row, hist),
           \A h \in more \ hist : h.id # i
    PROVE  RowOK(i, row, more)
  <1>1. Witnessed(i, row, more)
    BY WitnessKept DEF RowOK
  <1>2. \A h \in more : h.id = i => h \in hist
    OBVIOUS
  <1> QED BY <1>1, <1>2 DEF RowOK

\* A row that is new, with the one history row it comes with.
LEMMA RowIsNew ==
    ASSUME NEW i, NEW row, NEW more, NEW k, RowFields \subseteq DOMAIN row, row.version = 1,
           \A h \in more : h.id = i => h = HistoryRow(i, 1, "created", row.text, k),
           HistoryRow(i, 1, "created", row.text, k) \in more
    PROVE  RowOK(i, row, more)
  <1> DEFINE new == HistoryRow(i, 1, "created", row.text, k)
  <1>1. new.id = i /\ new.version = 1 /\ new.text = row.text /\ new.type = "created"
    BY DEF HistoryRow
  <1>2. new \in more /\ \A h \in more : h.id = i => h = new
    OBVIOUS
  <1> HIDE DEF new
  <1> QED BY <1>1, <1>2 DEF RowOK, Witnessed

\* A row that has gone one version on, with the history row of that step.
LEMMA RowIsNext ==
    ASSUME NEW i, NEW row, NEW next, NEW hist, NEW more, NEW new, RowOK(i, row, hist),
           RowFields \subseteq DOMAIN next, next.version = row.version + 1,
           hist \subseteq more, new \in more, new.id = i, new.version = next.version,
           new.text = next.text, new.type # "deleted",
           \A h \in hist : h.version \in Nat,
           \A h \in more \ hist : h.id = i => h = new
    PROVE  RowOK(i, next, more)
  <1>1. row.version \in Nat /\ next.version \in Nat
    BY DEF RowOK, Witnessed
  <1>2. \A h \in hist : h.id = i => h.version <= row.version /\ h.type # "deleted"
    BY DEF RowOK
  <1>3. \A h \in more : h.id = i => h \in hist \/ h = new
    OBVIOUS
  <1>4. \A g, h \in more : g.id = i /\ h.id = i /\ g.version = h.version => g = h
    BY <1>1, <1>2, <1>3 DEF RowOK
  <1>5. \A v \in 1..next.version : \E h \in more : h.id = i /\ h.version = v
    <2> TAKE v \in 1..next.version
    <2>1. v \in 1..row.version \/ v = next.version
      BY <1>1
    <2> QED BY <2>1 DEF RowOK
  <1>6. \A h \in more : h.id = i => h.version <= next.version /\ h.type # "deleted"
    BY <1>1, <1>2, <1>3
  <1>7. Witnessed(i, next, more)
    BY <1>1 DEF Witnessed
  <1> QED BY <1>4, <1>5, <1>6, <1>7 DEF RowOK

-----------------------------------------------------------------------------
(* What a step does to the calls *)

\* s may take the place of the record of c.
Later(c, s, hist) ==
    /\ CallOK(c, s, hist)
    /\ s.req.key = Req(c).key /\ (s.req.op = "index" <=> Op(c) = "index")
    /\ s.req.op = "sweep" <=> Op(c) = "sweep"
    /\ \A i : Due(s, i) => Due(call[c], i)

CallsMove ==
    /\ DOMAIN call' = DOMAIN call
    /\ \A c \in DOMAIN call : call'[c] = call[c] \/ Later(c, call'[c], history')

LEMMA CallsKept ==
    ASSUME CallsInv, CallsMove, history \subseteq history'
    PROVE  CallsInv'
  BY CallKept DEF CallsInv, CallsMove, Later

LEMMA SetMoves ==
    ASSUME NEW c \in DOMAIN call, NEW s, Set(c, s), Later(c, s, history')
    PROVE  CallsMove
  BY DEF Set, CallsMove

\* A row or a history row that comes with a step has an id that was there or is
\* not to come any more.
LEMMA FreshKept ==
    ASSUME FreshInv, CallsMove,
           \A i : i \in DOMAIN memory' \/ (\E h \in history' : h.id = i) =>
               \/ i \in DOMAIN memory
               \/ \E h \in history : h.id = i
               \/ \A d \in DOMAIN call : ~Due(call'[d], i)
    PROVE  FreshInv'
  <1>1. \A c \in DOMAIN call : \A i : Due(call'[c], i) => Due(call[c], i)
    BY DEF CallsMove, Later
  <1>2. \A c \in DOMAIN call : /\ call'[c].req.op = "index" <=> call[c].req.op = "index"
                               /\ call'[c].req.op = "index" => call'[c].req.key = call[c].req.key
    BY DEF CallsMove, Later, Op, Req
  <1>3. DOMAIN call' = DOMAIN call
    BY DEF CallsMove
  <1>4. SUFFICES ASSUME NEW c \in DOMAIN call, NEW i, Due(call'[c], i)
                 PROVE  /\ i \notin DOMAIN memory'
                        /\ \A h \in history' : h.id # i
                        /\ \A d \in DOMAIN call \ {c} : ~Due(call'[d], i)
                        /\ \A d \in DOMAIN call : call'[d].req.op = "index" => call'[d].req.key # i
    BY <1>3 DEF FreshInv, Op, Req
  <1>5. Due(call[c], i)
    BY <1>1, <1>4
  <1>6. /\ i \notin DOMAIN memory
        /\ \A h \in history : h.id # i
        /\ \A d \in DOMAIN call \ {c} : ~Due(call[d], i)
        /\ \A d \in DOMAIN call : call[d].req.op = "index" => call[d].req.key # i
    BY <1>5 DEF FreshInv, Op, Req
  <1> QED BY <1>1, <1>2, <1>4, <1>6

LEMMA KeysKept ==
    ASSUME KeysInv, CallsMove, history \subseteq history',
           \A h \in history' \ history :
               \/ h.key = h.id
               \/ \E g \in history : g.id = h.id
               \/ \A d \in DOMAIN call : Op(d) = "index" => Req(d).key # h.id
    PROVE  KeysInv'
  <1>1. \A c \in DOMAIN call : /\ call'[c].req.op = "index" <=> call[c].req.op = "index"
                               /\ call'[c].req.op = "index" => call'[c].req.key = call[c].req.key
    BY DEF CallsMove, Later, Op, Req
  <1>2. DOMAIN call' = DOMAIN call
    BY DEF CallsMove
  <1>3. SUFFICES ASSUME NEW c \in DOMAIN call, call'[c].req.op = "index",
                        \A h \in history' : h.key # call'[c].req.key,
                        NEW h \in history', h.id = call'[c].req.key
                 PROVE  FALSE
    BY <1>2 DEF KeysInv, Op, Req
  <1>4. call[c].req.op = "index" /\ call'[c].req.key = call[c].req.key
    BY <1>1, <1>3
  <1>5. \A g \in history : g.id # call[c].req.key
    BY <1>3, <1>4 DEF KeysInv, Op, Req
  <1> QED BY <1>3, <1>4, <1>5 DEF Op, Req

\* Which rows are those of sweeps does not change.
LEMMA SweptSame ==
    ASSUME CallsMove, NEW h
    PROVE  Swept(h)' <=> Swept(h)
  <1>1. DOMAIN call' = DOMAIN call
    BY DEF CallsMove
  <1>2. \A c \in DOMAIN call : call'[c].req.op = "sweep" <=> call[c].req.op = "sweep"
    BY DEF CallsMove, Later, Op
  <1> QED BY <1>1, <1>2 DEF Swept, Op

\* A row of a sweep comes alone, for a memory that has none yet.
LEMMA SweptKept ==
    ASSUME SweptInv, CallsMove,
           \A h \in history' \ history :
               \/ ~Swept(h)
               \/ /\ \A g \in history : g.id = h.id => g.type # "deleted"
                  /\ \A g \in history' \ history : g = h
    PROVE  SweptInv'
  <1> SUFFICES ASSUME NEW g \in history', NEW h \in history', Swept(g)', Swept(h)', g.id = h.id
               PROVE  g = h
    BY DEF SweptInv
  <1>1. Swept(g) /\ Swept(h)
    BY SweptSame
  <1>2. g.type = "deleted" /\ h.type = "deleted"
    BY <1>1 DEF Swept
  <1> QED BY <1>1, <1>2 DEF SweptInv

\* No version that a summary has taken is taken by an update.
LEMMA SummariesKept ==
    ASSUME SummariesCiteWhatWas, derivations' = derivations, history \subseteq history',
           \A h \in history' \ history :
               h.type = "updated" => \A g \in history : g.id = h.id => g.version # h.version
    PROVE  SummariesCiteWhatWas'
  <1> SUFFICES ASSUME NEW d \in derivations
               PROVE  /\ \A s \in d.key.sources :
                           /\ \E h \in history' : /\ h.id = s[1] /\ h.version = s[2] + 1
                                                  /\ h.type = "summarized" /\ h.key = d.by
                           /\ \A h \in history' : h.id = s[1] /\ h.version = s[2] + 1
                                                   => h.type # "updated"
                           /\ \A e \in derivations : s \in e.key.sources => e = d
                      /\ \A k \in d.claims : \A e \in k.evidence :
                           \E h \in history' : /\ h.id = e.id /\ h.version = e.version
                                               /\ e.quote \in h.text
    BY DEF SummariesCiteWhatWas
  <1>1. \A k \in d.claims : \A e \in k.evidence :
          \E h \in history' : h.id = e.id /\ h.version = e.version /\ e.quote \in h.text
    BY DEF SummariesCiteWhatWas
  <1>2. ASSUME NEW s \in d.key.sources
        PROVE  /\ \E h \in history' : /\ h.id = s[1] /\ h.version = s[2] + 1
                                      /\ h.type = "summarized" /\ h.key = d.by
               /\ \A h \in history' : h.id = s[1] /\ h.version = s[2] + 1 => h.type # "updated"
               /\ \A e \in derivations : s \in e.key.sources => e = d
    <2>1. PICK g \in history : /\ g.id = s[1] /\ g.version = s[2] + 1
                               /\ g.type = "summarized" /\ g.key = d.by
      BY <1>2 DEF SummariesCiteWhatWas
    <2>2. \A h \in history : h.id = s[1] /\ h.version = s[2] + 1 => h.type # "updated"
      BY <1>2 DEF SummariesCiteWhatWas
    <2>3. \A e \in derivations : s \in e.key.sources => e = d
      BY <1>2 DEF SummariesCiteWhatWas
    <2> QED BY <2>1, <2>2, <2>3
  <1> QED BY <1>1, <1>2

\* A step that writes no row of these tables.
LEMMA QuietStep ==
    ASSUME IInv, CallsMove, memory' = memory, history' = history, derivations' = derivations
    PROVE  IInv'
  <1>1. RowsInv' /\ HistoryInv'
    BY DEF IInv, RowsInv, HistoryInv
  <1>2. CallsInv'
    BY CallsKept DEF IInv
  <1>3. FreshInv'
    BY FreshKept DEF IInv
  <1>4. KeysInv'
    BY KeysKept DEF IInv
  <1>5. SummariesCiteWhatWas'
    BY SummariesKept DEF IInv
  <1>6. SweptInv'
    BY SweptKept DEF IInv
  <1> QED BY <1>1, <1>2, <1>3, <1>4, <1>5, <1>6 DEF IInv

-----------------------------------------------------------------------------
(* Records of calls that go on *)

\* s differs from the record of c in no field of the request, of what was read and
\* of what was removed.
Alike(c, s) ==
    /\ CallFields \subseteq DOMAIN s
    /\ s.req = Req(c) /\ s.seen = call[c].seen /\ s.removed = call[c].removed
    /\ s.cutoff = call[c].cutoff \/ call[c].pc \in Early

\* A call that goes from pc p to q can still create what it could.
Onto(op, p, q) ==
    /\ q # "start" /\ (q \in Early => p \in Early) /\ (q \in NotSwept => op # "sweep")
    /\ q \in {"search", "insert"} => p \in {"start", "search"} /\ op \in Adds
    /\ q \in {"stored", "load", "select", "generate", "published", "publish"} => op \in Derives
    /\ q = "create" => op = "index"
    /\ q \in Ended \/ p \notin Ended

LEMMA EndAlike ==
    ASSUME CallsInv, NEW c \in DOMAIN call, NEW a
    PROVE  Alike(c, End(c, a)) /\ End(c, a).pc = "done"
  BY DEF CallsInv, CallOK, CallFields, Alike, End, Req

LEMMA GotoAlike ==
    ASSUME CallsInv, NEW c \in DOMAIN call, NEW p
    PROVE  Alike(c, Goto(c, p)) /\ Goto(c, p).pc = p
  BY DEF CallsInv, CallOK, CallFields, Alike, Goto, Req

LEMMA DueLater ==
    ASSUME NEW c \in DOMAIN call, NEW s, s.req = Req(c), Onto(Op(c), call[c].pc, s.pc)
    PROVE  \A i : Due(s, i) => Due(call[c], i)
  BY DEF Onto, Early, NotSwept, Due, DueKey, DueDigest, Op, Req, Ended

LEMMA OntoPath ==
    ASSUME NEW op, NEW p, NEW q, Onto(op, p, q)
    PROVE  PathOK(op, q)
  BY DEF Onto, Early, NotSwept, PathOK

LEMMA AlikeLater ==
    ASSUME CallsInv, NEW c \in DOMAIN call, NEW s, NEW hist, history \subseteq hist,
           Alike(c, s), Onto(Op(c), call[c].pc, s.pc),
           s.pc \in {"published", "publish"} =>
               \A k \in s.claims : \A e \in k.evidence : InSource(s.seen, e)
    PROVE  Later(c, s, hist)
  <1>1. CallOK(c, call[c], hist)
    BY CallKept DEF CallsInv
  <1>2. PathOK(s.req.op, s.pc)
    BY OntoPath DEF Alike, Op, Req
  <1>5. /\ s.pc \in Early => s.removed = {}
        /\ s.removed = {} \/ s.cutoff = call[c].cutoff
    BY DEF Alike, Onto, CallsInv, CallOK
  <1>6. \A i \in s.removed : \E h \in hist : /\ h.id = i /\ h.type = "deleted"
                                           /\ h.at = s.cutoff
    BY <1>1, <1>5 DEF CallOK, Alike
  <1>7. s.req = call[c].req /\ s.seen = call[c].seen /\ CallFields \subseteq DOMAIN s
    BY DEF Alike, Req
  <1>3. CallOK(c, s, hist)
    BY <1>1, <1>2, <1>5, <1>6, <1>7 DEF CallOK
  <1>4. \A i : Due(s, i) => Due(call[c], i)
    BY DueLater DEF Alike
  <1> QED BY <1>3, <1>4 DEF Later, Alike, Op, Req

\* ... and one that has something new in its hands.
LEMMA SeenLater ==
    ASSUME CallsInv, NEW c \in DOMAIN call, NEW s, CallFields \subseteq DOMAIN s,
           s.req = Req(c), Onto(Op(c), call[c].pc, s.pc),
           s.pc \notin {"published", "publish"},
           s.cutoff = call[c].cutoff \/ call[c].pc \in Early,
           s.pc \in Early => s.removed = call[c].removed,
           \A i \in DOMAIN s.seen : Witnessed(i, s.seen[i], history),
           \A i \in s.removed :
               \/ i \in call[c].removed
               \/ \E h \in history : h.id = i /\ h.type = "deleted" /\ h.at = s.cutoff
    PROVE  Later(c, s, history)
  <1>1. CallOK(c, call[c], history)
    BY DEF CallsInv
  <1>2. PathOK(s.req.op, s.pc)
    BY OntoPath DEF Op, Req
  <1>5. /\ s.pc \in Early => s.removed = {}
        /\ call[c].removed = {} \/ s.cutoff = call[c].cutoff
    BY DEF Onto, CallsInv, CallOK
  <1>6. \A i \in s.removed : \E h \in history : /\ h.id = i /\ h.type = "deleted"
                                              /\ h.at = s.cutoff
    BY <1>1, <1>5 DEF CallOK
  <1>3. CallOK(c, s, history)
    BY <1>1, <1>2, <1>5, <1>6 DEF CallOK, Req
  <1>4. \A i : Due(s, i) => Due(call[c], i)
    BY DueLater
  <1> QED BY <1>3, <1>4 DEF Later, Op, Req

LEMMA EndLater ==
    ASSUME CallsInv, NEW c \in DOMAIN call, NEW a, NEW hist, history \subseteq hist
    PROVE  Later(c, End(c, a), hist)
  <1>1. Alike(c, End(c, a)) /\ End(c, a).pc = "done"
    BY EndAlike
  <1>2. Onto(Op(c), call[c].pc, "done")
    BY DEF Onto, Early, NotSwept, Ended
  <1> QED BY <1>1, <1>2, AlikeLater

\* Where a call goes without claims in its hands.
LEMMA GotoLater ==
    ASSUME CallsInv, NEW c \in DOMAIN call, NEW p, NEW hist, history \subseteq hist,
           Onto(Op(c), call[c].pc, p), p \notin {"published", "publish"}
    PROVE  Later(c, Goto(c, p), hist)
  <1>1. Alike(c, Goto(c, p)) /\ Goto(c, p).pc = p
    BY GotoAlike
  <1> QED BY <1>1, AlikeLater

\* The steps of a call that writes no memory.
Quietly(c) ==
    /\ memory' = memory /\ history' = history /\ derivations' = derivations
    /\ \E s : Set(c, s) /\ Later(c, s, history)

LEMMA QuietCall ==
    ASSUME IInv, NEW c \in DOMAIN call, Quietly(c)
    PROVE  IInv'
  <1>1. PICK s : Set(c, s) /\ Later(c, s, history)
    BY DEF Quietly
  <1>2. memory' = memory /\ history' = history /\ derivations' = derivations
    BY DEF Quietly
  <1>3. CallsMove
    BY <1>1, <1>2, SetMoves
  <1> QED BY <1>2, <1>3, QuietStep

-----------------------------------------------------------------------------
(* Steps that write no memory *)

LEMMA FieldLater ==
    ASSUME CallsInv, NEW c \in DOMAIN call, NEW p, NEW x, NEW y,
           Onto(Op(c), call[c].pc, p), p \notin {"published", "publish"}
    PROVE  /\ Later(c, [Goto(c, p) EXCEPT !.id = x], history)
           /\ Later(c, [Goto(c, p) EXCEPT !.todo = x], history)
           /\ Later(c, [Goto(c, p) EXCEPT !.stream = x], history)
           /\ Later(c, [Goto(c, p) EXCEPT !.scope = x], history)
           /\ Later(c, [End(c, y) EXCEPT !.id = x], history)
  <1>1. Alike(c, Goto(c, p)) /\ Goto(c, p).pc = p
    BY GotoAlike
  <1>2. Alike(c, End(c, y)) /\ End(c, y).pc = "done"
    BY EndAlike
  <1>3. Onto(Op(c), call[c].pc, "done")
    BY DEF Onto, Early, NotSwept, Ended
  <1> DEFINE g == Goto(c, p)
             e == End(c, y)
  <1>9. Alike(c, g) /\ g.pc = p /\ Alike(c, e) /\ e.pc = "done"
    BY <1>1, <1>2
  <1> HIDE DEF g, e
  <1>10. Alike(c, [g EXCEPT !.id = x]) /\ [g EXCEPT !.id = x].pc = g.pc
    BY <1>9 DEF Alike, CallFields
  <1>11. Alike(c, [g EXCEPT !.todo = x]) /\ [g EXCEPT !.todo = x].pc = g.pc
    BY <1>9 DEF Alike, CallFields
  <1>12. Alike(c, [g EXCEPT !.stream = x]) /\ [g EXCEPT !.stream = x].pc = g.pc
    BY <1>9 DEF Alike, CallFields
  <1>13. Alike(c, [e EXCEPT !.id = x]) /\ [e EXCEPT !.id = x].pc = e.pc
    BY <1>9 DEF Alike, CallFields
  <1>4. Alike(c, [g EXCEPT !.scope = x]) /\ [g EXCEPT !.scope = x].pc = g.pc
    BY <1>9 DEF Alike, CallFields
  <1>6. /\ Later(c, [g EXCEPT !.id = x], history)
        /\ Later(c, [g EXCEPT !.todo = x], history)
        /\ Later(c, [g EXCEPT !.stream = x], history)
        /\ Later(c, [g EXCEPT !.scope = x], history)
    BY <1>4, <1>9, <1>10, <1>11, <1>12, AlikeLater
  <1>7. Later(c, [e EXCEPT !.id = x], history)
    BY <1>3, <1>9, <1>13, AlikeLater
  <1> QED BY <1>6, <1>7 DEF g, e

\* A call that has written nothing takes another instant.
LEMMA InstantLater ==
    ASSUME CallsInv, NEW c \in DOMAIN call, NEW p, NEW x, NEW y, call[c].pc \in Early,
           Onto(Op(c), call[c].pc, p), p \notin {"published", "publish"}
    PROVE  /\ Later(c, [Goto(c, p) EXCEPT !.cutoff = x], history)
           /\ Later(c, [Goto(c, p) EXCEPT !.cutoff = x, !.todo = y], history)
  <1> DEFINE g == Goto(c, p)
             one == [g EXCEPT !.cutoff = x]
             two == [g EXCEPT !.cutoff = x, !.todo = y]
  <1>1. Alike(c, g) /\ g.pc = p
    BY GotoAlike
  <1> HIDE DEF g
  <1>2. Alike(c, one) /\ one.pc = p
    BY <1>1 DEF CallFields, Alike
  <1>3. Alike(c, two) /\ two.pc = p
    BY <1>1 DEF CallFields, Alike
  <1> HIDE DEF one, two
  <1>4. Later(c, one, history) /\ Later(c, two, history)
    BY <1>2, <1>3, AlikeLater
  <1> QED BY <1>4 DEF one, two, g

LEMMA StoredLater ==
    ASSUME CallsInv, NEW c \in DOMAIN call, call[c].pc \notin Ended
    PROVE  Later(c, Stored(c), history)
  <1>1. CASE Op(c) = "addTo"
    <2>1. Onto(Op(c), call[c].pc, "stored")
      BY <1>1 DEF Onto, Early, NotSwept, Derives
    <2> QED BY <1>1, <2>1, GotoLater DEF Stored
  <1>2. CASE Op(c) # "addTo"
    BY <1>2, EndLater DEF Stored
  <1> QED BY <1>1, <1>2

\* What a call takes from the rows there are.
LEMMA ReadRows ==
    ASSUME RowsInv, NEW ids, ids \subseteq DOMAIN memory
    PROVE  \A i \in DOMAIN Restrict(memory, ids) : Witnessed(i, Restrict(memory, ids)[i], history)
  BY DEF RowsInv, RowOK, Restrict

LEMMA AddQuiet ==
    ASSUME IInv, NEW c \in DOMAIN call, derivations' = derivations,
           StartAdd(c) \/ SearchDuplicates(c) \/ Readback(c) \/ StartIndexed(c) \/ GetIndexed(c)
    PROVE  Quietly(c)
  <1> USE DEF ReadOnly, At
  <1>0. CallsInv /\ PathOK(Op(c), call[c].pc)
    BY DEF IInv, CallsInv, CallOK, Op, Req
  <1>1. CASE StartAdd(c)
    <2>1. Onto(Op(c), call[c].pc, "search")
      BY <1>1 DEF StartAdd, Starts, Onto, Early, NotSwept, Ended, Adds
    <2> QED BY <1>0, <1>1, <2>1, GotoLater DEF StartAdd, Quietly
  <1>2. CASE SearchDuplicates(c)
    <2>1. Onto(Op(c), call[c].pc, "get") /\ Onto(Op(c), call[c].pc, "insert")
      BY <1>0, <1>2 DEF SearchDuplicates, Onto, Early, NotSwept, Ended, PathOK
    <2>2. Later(c, Goto(c, "insert"), history)
      BY <1>0, <2>1, GotoLater
    <2>3. \A i : Later(c, [Goto(c, "get") EXCEPT !.id = i], history)
      BY <1>0, <2>1, FieldLater
    <2> QED BY <1>2, <2>2, <2>3 DEF SearchDuplicates, Quietly
  <1>3. CASE Readback(c)
    <2>1. Later(c, Stored(c), history)
      BY <1>0, <1>3, StoredLater DEF Readback, Ended
    <2>2. Later(c, End(c, "error"), history)
      BY <1>0, EndLater
    <2> QED BY <1>3, <2>1, <2>2 DEF Readback, Quietly
  <1>4. CASE StartIndexed(c)
    <2>1. Onto(Op(c), call[c].pc, "create")
      BY <1>4 DEF StartIndexed, Starts, Onto, Early, NotSwept, Ended
    <2>2. Later(c, Goto(c, "create"), history)
      BY <1>0, <2>1, GotoLater
    <2>3. Later(c, End(c, "ok"), history)
      BY <1>0, EndLater
    <2> QED BY <1>4, <2>2, <2>3 DEF StartIndexed, Quietly
  <1>5. CASE GetIndexed(c)
    <2>1. \A a : Later(c, End(c, a), history)
      BY <1>0, EndLater
    <2> QED BY <1>5, <2>1 DEF GetIndexed, Quietly
  <1> QED BY <1>1, <1>2, <1>3, <1>4, <1>5

LEMMA GetQuiet ==
    ASSUME IInv, NEW c \in DOMAIN call, derivations' = derivations,
           StartGet(c) \/ GetMemory(c) \/ GetUpdated(c)
    PROVE  Quietly(c)
  <1> USE DEF ReadOnly, At
  <1>0. CallsInv /\ RowsInv
    BY DEF IInv
  <1>1. CASE StartGet(c)
    <2>1. Onto(Op(c), call[c].pc, "get")
      BY <1>1 DEF StartGet, Starts, Onto, Early, NotSwept, Ended
    <2>2. call[c].pc \in Early
      BY <1>1 DEF StartGet, Starts, Early
    <2>3. Later(c, [Goto(c, "get") EXCEPT !.cutoff = clock], history)
      BY <1>0, <2>1, <2>2, InstantLater
    <2> QED BY <1>1, <2>3 DEF StartGet, Quietly
  <1>2. CASE GetMemory(c)
    <2>1. CASE Unexpired(call[c].id) /\ OwnerOf(c)
      <3> DEFINE p == IF Op(c) = "deleteOwned" THEN "deleteOwned" ELSE "update"
                 g == Goto(c, p)
                 m == Restrict(memory, {call[c].id})
                 s == [g EXCEPT !.cutoff = IF IsOwned(c) THEN @ ELSE clock, !.seen = m]
      <3>1. Set(c, s)
        BY <1>2, <2>1 DEF GetMemory
      <3>2. Onto(Op(c), call[c].pc, p)
        BY <1>2 DEF GetMemory, Onto, Early, NotSwept, Ended
      <3>3. Alike(c, g) /\ g.pc = p
        BY <1>0, GotoAlike
      <3>4. p \notin {"published", "publish"}
        OBVIOUS
      <3>5. \A i \in DOMAIN m : Witnessed(i, m[i], history)
        BY <1>0, <2>1, ReadRows DEF Unexpired
      <3> HIDE DEF g, m, p
      <3>6. /\ CallFields \subseteq DOMAIN s /\ s.req = Req(c) /\ s.pc = p
            /\ s.seen = m /\ s.removed = call[c].removed
        BY <3>3 DEF Alike, CallFields
      <3> HIDE DEF s
      <3>8. call[c].pc \in Early /\ call[c].removed = {}
        BY <1>0, <1>2 DEF GetMemory, Early, CallsInv, CallOK
      <3>7. Later(c, s, history)
        BY <1>0, <3>2, <3>4, <3>5, <3>6, <3>8, SeenLater
      <3> QED BY <1>2, <3>1, <3>7 DEF GetMemory, Quietly
    <2>2. CASE ~(Unexpired(call[c].id) /\ OwnerOf(c))
      BY <1>0, <1>2, <2>2, EndLater DEF GetMemory, Quietly
    <2> QED BY <2>1, <2>2
  <1>3. CASE GetUpdated(c)
    <2>1. Later(c, Stored(c), history)
      BY <1>0, <1>3, StoredLater DEF GetUpdated, Ended
    <2>2. Later(c, End(c, "error"), history)
      BY <1>0, EndLater
    <2> QED BY <1>3, <2>1, <2>2 DEF GetUpdated, Quietly
  <1> QED BY <1>1, <1>2, <1>3

LEMMA DeleteQuiet ==
    ASSUME IInv, NEW c \in DOMAIN call, derivations' = derivations,
           StartDelete(c) \/ StartDeleteAll(c) \/ SeeMemory(c) \/ AllDeleted(c)
    PROVE  Quietly(c)
  <1> USE DEF ReadOnly, At
  <1>0. CallsInv /\ RowsInv /\ PathOK(Op(c), call[c].pc)
    BY DEF IInv, CallsInv, CallOK, Op, Req
  <1>1. CASE StartDelete(c) \/ StartDeleteAll(c)
    <2>1. Onto(Op(c), call[c].pc, "next")
      BY <1>1 DEF StartDelete, StartDeleteAll, Starts, Onto, Early, NotSwept, Ended
    <2>2. \A x : Later(c, [Goto(c, "next") EXCEPT !.todo = x], history)
      BY <1>0, <2>1, FieldLater
    <2> QED BY <1>1, <2>2 DEF StartDelete, StartDeleteAll, Quietly
  <1>2. CASE SeeMemory(c)
    <2> DEFINE g == Goto(c, "delete")
               m(i) == Restrict(memory, DOMAIN memory \cap {i})
               s(i) == [g EXCEPT !.id = i, !.todo = @ \ {i}, !.cutoff = clock, !.seen = m(i)]
    <2>1. PICK i \in call[c].todo : Set(c, s(i))
      BY <1>2 DEF SeeMemory
    <2>2. Onto(Op(c), call[c].pc, "delete")
      BY <1>0, <1>2 DEF SeeMemory, Onto, Early, NotSwept, Ended, PathOK
    <2>3. Alike(c, g) /\ g.pc = "delete"
      BY <1>0, GotoAlike
    <2>4. \A j \in DOMAIN m(i) : Witnessed(j, m(i)[j], history)
      BY <1>0, ReadRows
    <2> HIDE DEF g, m
    <2>5. /\ CallFields \subseteq DOMAIN s(i) /\ s(i).req = Req(c) /\ s(i).pc = "delete"
          /\ s(i).seen = m(i) /\ s(i).removed = call[c].removed
      BY <2>3 DEF Alike, CallFields
    <2> HIDE DEF s
    <2>7. call[c].pc \in Early /\ call[c].removed = {}
      BY <1>0, <1>2 DEF SeeMemory, Early, CallsInv, CallOK
    <2>6. Later(c, s(i), history)
      BY <1>0, <2>2, <2>4, <2>5, <2>7, SeenLater
    <2> QED BY <1>2, <2>1, <2>6 DEF SeeMemory, Quietly
  <1>3. CASE AllDeleted(c)
    <2>1. Onto(Op(c), call[c].pc, "unlink")
      BY <1>3 DEF AllDeleted, Onto, Early, NotSwept, Ended
    <2>2. Later(c, Goto(c, "unlink"), history)
      BY <1>0, <2>1, GotoLater
    <2>3. Later(c, End(c, "ok"), history)
      BY <1>0, EndLater
    <2> QED BY <1>3, <2>2, <2>3 DEF AllDeleted, Quietly
  <1> QED BY <1>1, <1>2, <1>3

LEMMA SweepQuiet ==
    ASSUME IInv, NEW c \in DOMAIN call, derivations' = derivations,
           StartSweep(c) \/ CountSwept(c) \/ SweepFails(c) \/ SweepEnds(c) \/ Abandon(c)
    PROVE  Quietly(c)
  <1> USE DEF ReadOnly, At
  <1>0. CallsInv
    BY DEF IInv
  <1>1. CASE StartSweep(c)
    <2>1. Onto(Op(c), call[c].pc, "sweep")
      BY <1>1 DEF StartSweep, Starts, Onto, Early, NotSwept, Ended
    <2>3. call[c].pc \in Early
      BY <1>1 DEF StartSweep, Starts, Early
    <2>2. \A x, y : Later(c, [Goto(c, "sweep") EXCEPT !.cutoff = x, !.todo = y], history)
      BY <1>0, <2>1, <2>3, InstantLater
    <2> QED BY <1>1, <2>2 DEF StartSweep, Quietly
  <1>2. CASE CountSwept(c)
    <2> DEFINE i == call[c].id
               g == Goto(c, "sweep")
               s == [g EXCEPT !.todo = @ \ {i}, !.removed = IF Marker(c) THEN @ \cup {i} ELSE @]
    <2>1. Set(c, s)
      BY <1>2 DEF CountSwept
    <2>2. Onto(Op(c), call[c].pc, "sweep")
      BY <1>2 DEF CountSwept, Onto, Early, NotSwept, Ended
    <2>3. Alike(c, g) /\ g.pc = "sweep"
      BY <1>0, GotoAlike
    <2>4. Marker(c) => \E h \in history : /\ h.id = i /\ h.type = "deleted"
                                         /\ h.at = call[c].cutoff
      BY DEF Marker
    <2>5. \A j \in DOMAIN call[c].seen : Witnessed(j, call[c].seen[j], history)
      BY <1>0 DEF CallsInv, CallOK
    <2> HIDE DEF g, i
    <2>6. /\ CallFields \subseteq DOMAIN s /\ s.req = Req(c) /\ s.pc = "sweep"
          /\ s.seen = call[c].seen /\ s.cutoff = call[c].cutoff
          /\ s.removed = IF Marker(c) THEN call[c].removed \cup {i} ELSE call[c].removed
      BY <1>2, <2>3 DEF Alike, CallFields, CountSwept, Early
    <2> HIDE DEF s
    <2>7. \A j \in s.removed : \/ j \in call[c].removed
                               \/ \E h \in history : /\ h.id = j /\ h.type = "deleted"
                                                      /\ h.at = s.cutoff
      BY <2>4, <2>6
    <2>8. Later(c, s, history)
      BY <1>0, <2>2, <2>5, <2>6, <2>7, SeenLater DEF Early
    <2> QED BY <1>2, <2>1, <2>8 DEF CountSwept, Quietly
  <1>3. CASE SweepFails(c)
    <2>1. PICK i \in call[c].todo : Set(c, [call[c] EXCEPT !.todo = @ \ {i}])
      BY <1>3 DEF SweepFails
    <2> DEFINE s == [call[c] EXCEPT !.todo = @ \ {i}]
    <2>2. Alike(c, s) /\ s.pc = "sweep"
      BY <1>0, <1>3 DEF SweepFails, CallsInv, CallOK, Alike, CallFields, Req
    <2> HIDE DEF s
    <2>3. Onto(Op(c), call[c].pc, "sweep")
      BY <1>3 DEF SweepFails, Onto, Early, NotSwept, Ended
    <2>4. Later(c, s, history)
      BY <1>0, <2>2, <2>3, AlikeLater
    <2>5. Set(c, s)
      BY <2>1 DEF s
    <2> QED BY <1>3, <2>4, <2>5 DEF SweepFails, Quietly
  <1>4. CASE SweepEnds(c) \/ Abandon(c)
    <2>1. \A a : Later(c, End(c, a), history)
      BY <1>0, EndLater
    <2> QED BY <1>4, <2>1 DEF SweepEnds, Abandon, Quietly
  <1> QED BY <1>1, <1>2, <1>3, <1>4

\* Places where a call holds no memory and is to create none.
Plain == {"edit", "dropMap", "drop", "findStep", "createStep", "refetch",
          "setStep", "writeEntity"}

LEMMA PlainLater ==
    ASSUME CallsInv, NEW c \in DOMAIN call, NEW p \in Plain, call[c].pc \notin Ended
    PROVE  /\ Later(c, Goto(c, p), history)
           /\ \A x : Later(c, [Goto(c, p) EXCEPT !.id = x], history)
           /\ \A x : Later(c, [Goto(c, p) EXCEPT !.todo = x], history)
           /\ \A x : Later(c, [Goto(c, p) EXCEPT !.stream = x], history)
  <1>1. Onto(Op(c), call[c].pc, p) /\ p \notin {"published", "publish"}
    BY DEF Plain, Onto, Early, NotSwept, Ended
  <1> QED BY <1>1, GotoLater, FieldLater

LEMMA EndsLater ==
    ASSUME CallsInv, NEW c \in DOMAIN call
    PROVE  /\ \A a : Later(c, End(c, a), history)
           /\ \A a, x : Later(c, [End(c, a) EXCEPT !.id = x], history)
  <1>1. Onto(Op(c), call[c].pc, "done") /\ "done" \notin {"published", "publish"}
    BY DEF Onto, Early, NotSwept, Ended
  <1> QED BY <1>1, EndLater, FieldLater

LEMMA MapQuiet ==
    ASSUME IInv, NEW c \in DOMAIN call,
           \/ CreateMap(c) \/ ReadMap(c) \/ EditMap(c) \/ FindMap(c) \/ DropMap(c)
           \/ UnlinkMaps(c)
    PROVE  Quietly(c)
  <1> USE DEF DocsRead, StoreUnchanged, At, Ended, Plain
  <1>0. CallsInv
    BY DEF IInv
  <1>1. \A a : Later(c, End(c, a), history)
    BY <1>0, EndsLater
  <1>2. CASE CreateMap(c)
    BY <1>1, <1>2 DEF CreateMap, Quietly
  <1>3. CASE ReadMap(c)
    <2>1. \A x : Later(c, [Goto(c, "edit") EXCEPT !.id = x], history)
      BY <1>0, <1>3, PlainLater DEF ReadMap, Starts
    <2> QED BY <1>1, <1>3, <2>1 DEF ReadMap, Quietly
  <1>4. CASE EditMap(c)
    BY <1>1, <1>4 DEF EditMap, Quietly
  <1>5. CASE FindMap(c)
    <2>1. \A x : Later(c, [Goto(c, "dropMap") EXCEPT !.id = x], history)
      BY <1>0, <1>5, PlainLater DEF FindMap, Starts
    <2> QED BY <1>1, <1>5, <2>1 DEF FindMap, Quietly
  <1>6. CASE DropMap(c)
    BY <1>1, <1>6 DEF DropMap, Quietly
  <1>7. CASE UnlinkMaps(c)
    <2>1. Later(c, Goto(c, "drop"), history)
      BY <1>0, <1>7, PlainLater DEF UnlinkMaps
    <2> QED BY <1>7, <2>1 DEF UnlinkMaps, Quietly
  <1> QED BY <1>2, <1>3, <1>4, <1>5, <1>6, <1>7

LEMMA StepQuiet ==
    ASSUME IInv, NEW c \in DOMAIN call,
           \/ FindStreamOfStep(c) \/ FindStep(c) \/ CreateStep(c) \/ RefetchStep(c)
           \/ CompleteStep(c) \/ SetStep(c)
    PROVE  Quietly(c)
  <1> USE DEF DocsRead, StoreUnchanged, At, Ended, Plain
  <1>0. CallsInv
    BY DEF IInv
  <1>1. \A a : Later(c, End(c, a), history)
    BY <1>0, EndsLater
  <1>2. \A a, x : Later(c, [End(c, a) EXCEPT !.id = x], history)
    BY <1>0, EndsLater
  <1>3. CASE FindStreamOfStep(c)
    <2>1. \A x : Later(c, [Goto(c, "findStep") EXCEPT !.stream = x], history)
      BY <1>0, <1>3, PlainLater DEF FindStreamOfStep, Starts
    <2> QED BY <1>1, <1>3, <2>1 DEF FindStreamOfStep, Quietly
  <1>4. CASE FindStep(c)
    <2>1. Later(c, Goto(c, "createStep"), history)
      BY <1>0, <1>4, PlainLater DEF FindStep
    <2> QED BY <1>2, <1>4, <2>1 DEF FindStep, Quietly
  <1>5. CASE CreateStep(c)
    <2>1. Later(c, Goto(c, "refetch"), history)
      BY <1>0, <1>5, PlainLater DEF CreateStep
    <2> QED BY <1>2, <1>5, <2>1 DEF CreateStep, OnViolation, Quietly
  <1>6. CASE RefetchStep(c)
    BY <1>1, <1>2, <1>6 DEF RefetchStep, Quietly
  <1>7. CASE CompleteStep(c)
    <2>1. Later(c, Goto(c, "setStep"), history)
      BY <1>0, <1>7, PlainLater DEF CompleteStep, Starts
    <2> QED BY <1>1, <1>7, <2>1 DEF CompleteStep, Quietly
  <1>8. CASE SetStep(c)
    BY <1>1, <1>8 DEF SetStep, Quietly
  <1> QED BY <1>3, <1>4, <1>5, <1>6, <1>7, <1>8

LEMMA EntityQuiet ==
    ASSUME IInv, NEW c \in DOMAIN call,
           \/ CreateEntity(c) \/ CreateRelation(c) \/ DeleteRelation(c) \/ DeleteEntity(c)
           \/ ReadEntity(c) \/ UpdateEntity(c)
    PROVE  Quietly(c)
  <1> USE DEF DocsRead, StoreUnchanged, At, Ended, Plain
  <1>0. CallsInv
    BY DEF IInv
  <1>1. \A a : Later(c, End(c, a), history)
    BY <1>0, EndsLater
  <1>2. CASE CreateEntity(c) \/ CreateRelation(c) \/ DeleteRelation(c) \/ DeleteEntity(c)
    BY <1>1, <1>2 DEF CreateEntity, CreateRelation, DeleteRelation, DeleteEntity, Quietly
  <1>3. CASE ReadEntity(c)
    <2>1. Later(c, Goto(c, "writeEntity"), history)
      BY <1>0, <1>3, PlainLater DEF ReadEntity, Starts
    <2> QED BY <1>1, <1>3, <2>1 DEF ReadEntity, Quietly
  <1>4. CASE UpdateEntity(c)
    BY <1>1, <1>4 DEF UpdateEntity, Quietly
  <1> QED BY <1>2, <1>3, <1>4

LEMMA StreamQuiet ==
    ASSUME IInv, NEW c \in DOMAIN call,
           \/ CreateStream(c) \/ SetStatus(c) \/ StartAddTo(c) \/ SeeCounter(c)
           \/ StartDeleteStream(c) \/ ListMembers(c) \/ DropStream(c)
    PROVE  Quietly(c)
  <1> USE DEF StreamRead, ReadOnly, RowsUnchanged, At, Ended, Plain
  <1>0. CallsInv /\ PathOK(Op(c), call[c].pc)
    BY DEF IInv, CallsInv, CallOK, Op, Req
  <1>1. \A a : Later(c, End(c, a), history)
    BY <1>0, EndsLater
  <1>2. CASE CreateStream(c) \/ SetStatus(c) \/ DropStream(c)
    BY <1>1, <1>2 DEF CreateStream, SetStatus, DropStream, Quietly
  <1>3. CASE StartAddTo(c)
    <2>1. Onto(Op(c), call[c].pc, "search")
      BY <1>3 DEF StartAddTo, Starts, Onto, Early, NotSwept, Adds
    <2>2. \A x : Later(c, [Goto(c, "search") EXCEPT !.stream = x], history)
      BY <1>0, <2>1, FieldLater
    <2> QED BY <1>1, <1>3, <2>2 DEF StartAddTo, Quietly
  <1>4. CASE SeeCounter(c)
    <2>1. Onto(Op(c), call[c].pc, "load")
      BY <1>0, <1>4 DEF SeeCounter, PathOK, Onto, Early, NotSwept
    <2>2. \A x : Later(c, Summarizing(c, x), history)
      BY <1>0, <2>1, FieldLater DEF Summarizing
    <2> QED BY <1>1, <1>4, <2>2 DEF SeeCounter, Quietly
  <1>5. CASE StartDeleteStream(c)
    <2>1. Onto(Op(c), call[c].pc, "list")
      BY <1>5 DEF StartDeleteStream, Starts, Onto, Early, NotSwept
    <2>2. \A x : Later(c, [Goto(c, "list") EXCEPT !.stream = x], history)
      BY <1>0, <2>1, FieldLater
    <2> QED BY <1>1, <1>5, <2>2 DEF StartDeleteStream, Quietly
  <1>6. CASE ListMembers(c)
    <2>1. Onto(Op(c), call[c].pc, "next")
      BY <1>0, <1>6 DEF ListMembers, PathOK, Onto, Early, NotSwept
    <2>2. \A x : Later(c, [Goto(c, "next") EXCEPT !.todo = x], history)
      BY <1>0, <2>1, FieldLater
    <2> QED BY <1>6, <2>2 DEF ListMembers, Quietly
  <1> QED BY <1>2, <1>3, <1>4, <1>5, <1>6

-----------------------------------------------------------------------------
(* From the sources to the claims *)

\* What the gate lets through quotes the sources.
LEMMA GateQuotes ==
    ASSUME NEW src, NEW cands, NEW kept \in Gate(src, cands), NEW k \in kept,
           NEW e \in k.evidence, \A d \in cands : "evidence" \in DOMAIN d
    PROVE  InSource(src, e)
  <1> DEFINE valid == {Requalified(d) : d \in {x \in cands : Valid(src, x)}}
             claims == {Claim(src, d) : d \in valid}
  <1>1. kept \in Budgeted(claims)
    BY DEF Gate
  <1>2. k \in claims
    BY <1>1 DEF Budgeted
  <1>3. PICK v \in valid : k = Claim(src, v)
    BY <1>2
  <1>4. PICK d \in cands : Valid(src, d) /\ v = Requalified(d)
    BY <1>3
  <1>5. v.evidence = d.evidence
    BY <1>4 DEF Requalified
  <1>6. k.evidence = v.evidence
    BY <1>3 DEF Claim
  <1> QED BY <1>4, <1>5, <1>6 DEF Valid

LEMMA AcceptedQuotes ==
    ASSUME NEW c \in DOMAIN call, NEW kept \in Accepted(c), NEW k \in kept, NEW e \in k.evidence
    PROVE  InSource(call[c].seen, e)
  <1> DEFINE src == call[c].seen
  <1>1. PICK cands \in IF Req(c).provider THEN Proposed(src) ELSE {Extracted(src)} :
            kept \in Gate(src, cands)
    <2>1. Cardinality(Owners(c)) = 1
      BY DEF Accepted
    <2> QED BY <2>1 DEF Accepted
  <1>2. \A d \in Extracted(src) : "evidence" \in DOMAIN d
    BY DEF Extracted, Candidate
  <1>3. \A x \in Proposed(src) : \A d \in x : "evidence" \in DOMAIN d
    BY DEF Proposed, Candidate
  <1>4. \A d \in cands : "evidence" \in DOMAIN d
    BY <1>1, <1>2, <1>3
  <1> QED BY <1>1, <1>4, GateQuotes

LEMMA DerivedLater ==
    ASSUME CallsInv, NEW c \in DOMAIN call
    PROVE  \A a : Later(c, Derived(c, a), history)
  BY EndsLater DEF Derived

\* Whatever is selected is there.
LEMMA SourcesAreRows ==
    ASSUME NEW c \in DOMAIN call, NEW h \in Sources(c)
    PROVE  h \subseteq DOMAIN memory
  BY DEF Sources, kSubset

LEMMA DeriveQuiet ==
    ASSUME IInv, NEW c \in DOMAIN call,
           \/ StartCompress(c) \/ StartSummarize(c) \/ LoadStream(c) \/ SelectSources(c)
           \/ Generate(c) \/ CheckPublished(c) \/ Confirm(c)
    PROVE  Quietly(c)
  <1> USE DEF StreamRead, ReadOnly, At, Ended
  <1>0. CallsInv /\ RowsInv /\ PathOK(Op(c), call[c].pc)
    BY DEF IInv, CallsInv, CallOK, Op, Req
  <1>1. \A a : Later(c, Derived(c, a), history)
    BY <1>0, DerivedLater
  <1>2. CASE StartCompress(c)
    <2>1. Onto(Op(c), call[c].pc, "select")
      BY <1>2 DEF StartCompress, Starts, Onto, Early, NotSwept, Derives
    <2>2. \A x : Later(c, [Goto(c, "select") EXCEPT !.scope = x], history)
      BY <1>0, <2>1, FieldLater
    <2> QED BY <1>2, <2>2 DEF StartCompress, Quietly
  <1>8. CASE StartSummarize(c)
    <2>1. Onto(Op(c), call[c].pc, "load")
      BY <1>8 DEF StartSummarize, Starts, Onto, Early, NotSwept, Derives
    <2>2. \A x : Later(c, Summarizing(c, x), history)
      BY <1>0, <2>1, FieldLater DEF Summarizing
    <2>3. Later(c, End(c, "error"), history)
      BY <1>0, EndLater
    <2> QED BY <1>8, <2>2, <2>3 DEF StartSummarize, Quietly
  <1>3. CASE LoadStream(c)
    <2>1. Onto(Op(c), call[c].pc, "select")
      BY <1>0, <1>3 DEF LoadStream, PathOK, Onto, Early, NotSwept
    <2>2. \A x : Later(c, [Goto(c, "select") EXCEPT !.stream = x], history)
      BY <1>0, <2>1, FieldLater
    <2> QED BY <1>1, <1>3, <2>2 DEF LoadStream, Quietly
  <1>4. CASE SelectSources(c)
    <2>1. CASE Sources(c) = {}
      BY <1>1, <1>4, <2>1 DEF SelectSources, Quietly
    <2>2. CASE \E h \in Sources(c) :
                  Set(c, [Goto(c, "generate") EXCEPT !.seen = Restrict(memory, h)])
      <3>1. PICK h \in Sources(c) : Set(c, [Goto(c, "generate") EXCEPT !.seen = Restrict(memory, h)])
        BY <2>2
      <3> DEFINE g == Goto(c, "generate")
                 m == Restrict(memory, h)
                 s == [g EXCEPT !.seen = m]
      <3>2. Onto(Op(c), call[c].pc, "generate")
        BY <1>0, <1>4 DEF SelectSources, PathOK, Onto, Early, NotSwept
      <3>3. Alike(c, g) /\ g.pc = "generate"
        BY <1>0, GotoAlike
      <3>4. \A j \in DOMAIN m : Witnessed(j, m[j], history)
        BY <1>0, ReadRows, SourcesAreRows
      <3>5. Set(c, s)
        BY <3>1
      <3> HIDE DEF g, m
      <3>6. /\ CallFields \subseteq DOMAIN s /\ s.req = Req(c) /\ s.pc = "generate"
            /\ s.seen = m /\ s.removed = call[c].removed
            /\ s.cutoff = call[c].cutoff \/ call[c].pc \in Early
        BY <3>3 DEF Alike, CallFields
      <3> HIDE DEF s
      <3>8. \A i \in s.removed : i \in call[c].removed
        BY <3>6
      <3>7. Later(c, s, history)
        BY <1>0, <3>2, <3>4, <3>6, <3>8, SeenLater
      <3> QED BY <1>4, <3>5, <3>7 DEF SelectSources, Quietly
    <2> QED BY <1>4, <2>1, <2>2 DEF SelectSources
  <1>5. CASE Generate(c)
    <2>1. CASE Set(c, Derived(c, "deferred"))
      BY <1>1, <1>5, <2>1 DEF Generate, Quietly
    <2>2. CASE \E k \in Accepted(c) : Set(c, [Goto(c, "published") EXCEPT !.claims = k])
      <3>1. PICK k \in Accepted(c) : Set(c, [Goto(c, "published") EXCEPT !.claims = k])
        BY <2>2
      <3> DEFINE g == Goto(c, "published")
                 s == [g EXCEPT !.claims = k]
      <3>2. Onto(Op(c), call[c].pc, "published")
        BY <1>0, <1>5 DEF Generate, PathOK, Onto, Early, NotSwept
      <3>3. Alike(c, g) /\ g.pc = "published"
        BY <1>0, GotoAlike
      <3>4. Set(c, s)
        BY <3>1
      <3> HIDE DEF g
      <3>5. Alike(c, s) /\ s.pc = "published" /\ s.claims = k
        BY <3>3 DEF Alike, CallFields
      <3> HIDE DEF s
      <3>6. \A x \in s.claims : \A e \in x.evidence : InSource(s.seen, e)
        BY <3>1, <3>5, AcceptedQuotes DEF Alike
      <3>7. Later(c, s, history)
        BY <1>0, <3>2, <3>5, <3>6, AlikeLater
      <3> QED BY <1>5, <3>4, <3>7 DEF Generate, Quietly
    <2> QED BY <1>5, <2>1, <2>2 DEF Generate
  <1>6. CASE CheckPublished(c)
    <2> DEFINE g == Goto(c, "publish")
    <2>1. Onto(Op(c), call[c].pc, "publish")
      BY <1>0, <1>6 DEF CheckPublished, PathOK, Onto, Early, NotSwept
    <2>2. Alike(c, g) /\ g.pc = "publish" /\ g.claims = call[c].claims
      BY <1>0, GotoAlike DEF Goto, CallsInv, CallOK, CallFields
    <2>3. \A x \in call[c].claims : \A e \in x.evidence : InSource(call[c].seen, e)
      BY <1>0, <1>6 DEF CheckPublished, CallsInv, CallOK
    <2> HIDE DEF g
    <2>4. Later(c, g, history)
      BY <1>0, <2>1, <2>2, <2>3, AlikeLater DEF Alike
    <2>5. CASE Published(c)
      BY <1>1, <1>6, <2>5 DEF CheckPublished, Quietly
    <2>6. CASE ~Published(c)
      BY <1>6, <2>4, <2>6 DEF CheckPublished, Quietly, g
    <2> QED BY <2>5, <2>6
  <1>7. CASE Confirm(c)
    BY <1>1, <1>7 DEF Confirm, Quietly
  <1> QED BY <1>2, <1>3, <1>4, <1>5, <1>6, <1>7, <1>8

-----------------------------------------------------------------------------
(* Rows that are created *)

LEMMA NewMemoryRow ==
    ASSUME NEW c \in DOMAIN call
    PROVE  /\ RowFields \subseteq DOMAIN NewMemory(c)
           /\ NewMemory(c).version = 1 /\ NewMemory(c).text = Req(c).text
  BY DEF NewMemory, NewRow, RowFields

\* A new row under an id without a history, and the history row of its creation.
LEMMA CreateStepOK ==
    ASSUME IInv, CallsMove, NEW i, NEW row, NEW k, RowFields \subseteq DOMAIN row,
           row.version = 1, i \notin DOMAIN memory, \A h \in history : h.id # i,
           memory' = With(memory, i, row), derivations' = derivations,
           history' = history \cup {HistoryRow(i, 1, "created", row.text, k)},
           \A d \in DOMAIN call : ~Due(call'[d], i),
           i = k \/ \A d \in DOMAIN call : Op(d) = "index" => Req(d).key # i
    PROVE  IInv'
  <1> DEFINE new == HistoryRow(i, 1, "created", row.text, k)
  <1>1. /\ new.id = i /\ new.version = 1 /\ new.type = "created" /\ new.key = k
        /\ history' = history \cup {new}
    BY DEF HistoryRow
  <1>2. RowOK(i, row, history')
    <2>1. \A h \in history' : h.id = i => h = new
      BY <1>1
    <2> QED BY <1>1, <2>1, RowIsNew
  <1> HIDE DEF new
  <1>3. /\ DOMAIN memory' = DOMAIN memory \cup {i} /\ memory'[i] = row
        /\ \A j \in DOMAIN memory : memory'[j] = memory[j]
    BY DEF With
  <1>4. RowsInv'
    <2> SUFFICES ASSUME NEW j \in DOMAIN memory' PROVE RowOK(j, memory'[j], history')
      BY DEF RowsInv
    <2>1. CASE j = i
      BY <1>2, <1>3, <2>1
    <2>2. CASE j # i
      <3>1. j \in DOMAIN memory /\ memory'[j] = memory[j]
        BY <1>3, <2>2
      <3>2. RowOK(j, memory[j], history)
        BY <3>1 DEF IInv, RowsInv
      <3>3. \A h \in history' \ history : h.id # j
        BY <1>1, <2>2
      <3>4. history \subseteq history'
        BY <1>1
      <3> QED BY <3>1, <3>2, <3>3, <3>4, RowKept
    <2> QED BY <2>1, <2>2
  <1>5. history \subseteq history' /\ \A h \in history' \ history : h = new
    BY <1>1
  <1>6. CallsInv'
    BY <1>5, CallsKept DEF IInv
  <1>7. FreshInv'
    BY <1>1, <1>3, FreshKept DEF IInv
  <1>8. KeysInv'
    BY <1>1, <1>5, KeysKept DEF IInv
  <1>9. HistoryInv'
    BY <1>1 DEF IInv, HistoryInv
  <1>10. SummariesCiteWhatWas'
    BY <1>1, <1>5, SummariesKept DEF IInv
  <1>11. SweptInv'
    BY <1>1, <1>5, SweptKept DEF IInv, Swept
  <1> QED BY <1>4, <1>6, <1>7, <1>8, <1>9, <1>10, <1>11 DEF IInv

LEMMA InsertStep ==
    ASSUME IInv, NEW c \in DOMAIN call, InsertMemory(c), derivations' = derivations
    PROVE  IInv'
  <1> DEFINE g == Goto(c, "readback")
             i == Req(c).key
             s == [g EXCEPT !.id = i]
  <1>1. CallsInv /\ call[c].pc = "insert" /\ Op(c) \in Adds
    BY DEF IInv, CallsInv, CallOK, PathOK, InsertMemory, At, Op, Req
  <1>2. Set(c, s)
    BY DEF InsertMemory
  <1>3. Alike(c, g) /\ g.pc = "readback"
    BY <1>1, GotoAlike
  <1> HIDE DEF g
  <1>4. Alike(c, s) /\ s.pc = "readback"
    BY <1>3 DEF Alike, CallFields
  <1> HIDE DEF s
  <1>5. Onto(Op(c), call[c].pc, "readback")
    BY <1>1 DEF Onto, Early, NotSwept, Ended
  <1>6. history \subseteq history'
    BY DEF InsertMemory, Log
  <1>7. Later(c, s, history')
    BY <1>1, <1>4, <1>5, <1>6, AlikeLater
  <1>8. CallsMove
    BY <1>2, <1>7, SetMoves
  <1>9. Due(call[c], i)
    BY <1>1 DEF Due, DueKey, Op, Req
  <1>10. /\ i \notin DOMAIN memory /\ \A h \in history : h.id # i
         /\ \A d \in DOMAIN call \ {c} : ~Due(call[d], i)
         /\ \A d \in DOMAIN call : Op(d) = "index" => Req(d).key # i
    BY <1>9 DEF IInv, FreshInv
  <1>11. ~Due(s, i)
    BY <1>1, <1>4 DEF Due, DueKey, DueDigest, Derives, Adds, Alike, CallsInv, CallOK, Op, Req
  <1>12. \A d \in DOMAIN call : ~Due(call'[d], i)
    BY <1>2, <1>10, <1>11 DEF Set
  <1>13. RowFields \subseteq DOMAIN NewMemory(c) /\ NewMemory(c).version = 1
    BY NewMemoryRow
  <1>14. history' = history \cup {HistoryRow(i, 1, "created", NewMemory(c).text, c)}
    BY NewMemoryRow DEF InsertMemory, Log
  <1>15. memory' = With(memory, i, NewMemory(c))
    BY DEF InsertMemory, Insert
  <1> HIDE DEF i
  <1> QED BY <1>8, <1>10, <1>12, <1>13, <1>14, <1>15, CreateStepOK

LEMMA IndexStep ==
    ASSUME IInv, NEW c \in DOMAIN call, CreateIndexed(c), derivations' = derivations
    PROVE  IInv'
  <1> DEFINE i == Req(c).key
  <1>1. CallsInv /\ call[c].pc = "create" /\ Op(c) = "index"
    BY DEF IInv, CallsInv, CallOK, PathOK, CreateIndexed, At, Op, Req
  <1>2. Onto(Op(c), call[c].pc, "indexed") /\ Onto(Op(c), call[c].pc, "recheck")
    BY <1>1 DEF Onto, Early, NotSwept, Ended
  <1>3. CASE ~KeyFree(c)
    <2>1. Later(c, Goto(c, "recheck"), history)
      BY <1>1, <1>2, GotoLater
    <2>2. Quietly(c)
      BY <1>3, <2>1 DEF CreateIndexed, Quietly
    <2> QED BY <2>2, QuietCall
  <1>4. CASE KeyFree(c)
    <2>1. Set(c, Goto(c, "indexed")) /\ history \subseteq history'
      BY <1>4 DEF CreateIndexed, Log
    <2>2. Later(c, Goto(c, "indexed"), history')
      BY <1>1, <1>2, <2>1, GotoLater
    <2>3. CallsMove
      BY <2>1, <2>2, SetMoves
    <2>4. i \notin DOMAIN memory /\ \A h \in history : h.id # i
      BY <1>1, <1>4 DEF KeyFree, IInv, KeysInv
    <2>5. \A d \in DOMAIN call : ~Due(call[d], i)
      BY <1>1 DEF IInv, FreshInv
    <2>6. \A d \in DOMAIN call : ~Due(call'[d], i)
      BY <2>3, <2>5 DEF CallsMove, Later
    <2>7. RowFields \subseteq DOMAIN NewMemory(c) /\ NewMemory(c).version = 1
      BY NewMemoryRow
    <2>8. history' = history \cup {HistoryRow(i, 1, "created", NewMemory(c).text, i)}
      BY <1>4, NewMemoryRow DEF CreateIndexed, Log
    <2>9. memory' = With(memory, i, NewMemory(c))
      BY <1>4 DEF CreateIndexed, Insert
    <2> HIDE DEF i
    <2> QED BY <2>3, <2>4, <2>6, <2>7, <2>8, <2>9, CreateStepOK
  <1> QED BY <1>3, <1>4

-----------------------------------------------------------------------------
(* Rows that are updated and removed *)

LEMMA UpdateStep ==
    ASSUME IInv, NEW c \in DOMAIN call, WriteUpdate(c), derivations' = derivations
    PROVE  IInv'
  <1> DEFINE id == call[c].id
             v == memory[id].version + 1
             text == Req(c).text
             new == HistoryRow(id, v, "updated", text, c)
  <1>1. CallsInv /\ call[c].pc = "update"
    BY DEF IInv, WriteUpdate, At
  <1>2. CASE ~StillThere(c)
    <2>1. Later(c, End(c, "error"), history)
      BY <1>1, EndLater
    <2>2. Quietly(c)
      BY <1>2, <2>1 DEF WriteUpdate, Quietly
    <2> QED BY <2>2, QuietCall
  <1>3. CASE StillThere(c)
    <2>1. id \in DOMAIN memory
      BY <1>3 DEF StillThere
    <2>2. /\ memory' = [memory EXCEPT ![id].text = text, ![id].version = v]
          /\ history' = history \cup {new} /\ Set(c, Goto(c, "updated"))
      BY <1>3 DEF WriteUpdate, NextVersion, Log
    <2>3. RowOK(id, memory[id], history)
      BY <2>1 DEF IInv, RowsInv
    <2>4. /\ DOMAIN memory' = DOMAIN memory
          /\ \A j \in DOMAIN memory \ {id} : memory'[j] = memory[j]
          /\ RowFields \subseteq DOMAIN memory'[id]
          /\ memory'[id].version = v /\ memory'[id].text = text
      BY <2>1, <2>2, <2>3 DEF RowOK, RowFields
    <2>5. memory[id].version \in Nat
      BY <2>3 DEF RowOK, Witnessed
    <2>6. /\ new.id = id /\ new.version = v /\ new.type = "updated" /\ new.text = text
      BY DEF HistoryRow
    <2>7. v = memory[id].version + 1
      OBVIOUS
    <2>8. \A h \in history : h.id = id => h.version # v
      BY <2>3, <2>5 DEF RowOK, IInv, HistoryInv
    <2>9. \A h \in history : h.version \in Nat
      BY DEF IInv, HistoryInv
    <2> HIDE DEF new, v, text
    <2>10. history \subseteq history' /\ \A h \in history' \ history : h = new
      BY <2>2
    <2>11. RowsInv'
      <3> SUFFICES ASSUME NEW j \in DOMAIN memory' PROVE RowOK(j, memory'[j], history')
        BY DEF RowsInv
      <3>1. CASE j = id
        <4> DEFINE next == memory'[j]
                   row == memory[id]
        <4>1. /\ RowFields \subseteq DOMAIN next /\ next.version = row.version + 1
              /\ new.version = next.version /\ new.text = next.text /\ new.type # "deleted"
              /\ new \in history' /\ new.id = id /\ RowOK(id, row, history)
          BY <2>2, <2>3, <2>4, <2>6, <2>7, <3>1
        <4> HIDE DEF next, row, id
        <4>2. \A h \in history' \ history : h.id = id => h = new
          BY <2>10
        <4>3. RowOK(id, next, history')
          BY <4>1, <4>2, <2>9, <2>10, RowIsNext
        <4> QED BY <4>3, <3>1 DEF next
      <3>2. CASE j # id
        <4>1. j \in DOMAIN memory /\ memory'[j] = memory[j] /\ RowOK(j, memory[j], history)
          BY <2>4, <3>2 DEF IInv, RowsInv
        <4>2. \A h \in history' \ history : h.id # j
          BY <2>6, <2>10, <3>2
        <4> QED BY <4>1, <4>2, <2>10, RowKept
      <3> QED BY <3>1, <3>2
    <2>12. Onto(Op(c), call[c].pc, "updated")
      BY <1>1 DEF Onto, Early, NotSwept, Ended
    <2>13. Later(c, Goto(c, "updated"), history')
      BY <1>1, <2>10, <2>12, GotoLater
    <2>14. CallsMove
      BY <2>2, <2>13, SetMoves
    <2>15. CallsInv'
      BY <1>1, <2>10, <2>14, CallsKept
    <2>16. \E g \in history : g.id = id
      BY <2>3 DEF RowOK, Witnessed
    <2>17. FreshInv'
      BY <2>4, <2>6, <2>10, <2>14, <2>16, FreshKept DEF IInv
    <2>18. KeysInv'
      BY <2>6, <2>10, <2>14, <2>16, KeysKept DEF IInv
    <2>19. HistoryInv'
      BY <2>5, <2>6, <2>7, <2>9, <2>10 DEF HistoryInv
    <2>20. SummariesCiteWhatWas'
      BY <2>6, <2>8, <2>10, SummariesKept DEF IInv
    <2>21. SweptInv'
      BY <2>6, <2>10, <2>14, SweptKept DEF IInv, Swept
    <2> QED BY <2>11, <2>15, <2>17, <2>18, <2>19, <2>20, <2>21 DEF IInv
  <1> QED BY <1>2, <1>3

\* A row goes, and a history row of its id may come, of a sweep only if the row
\* was there.
LEMMA RemoveStep ==
    ASSUME IInv, CallsMove, NEW id, NEW new,
           memory' = Restrict(memory, DOMAIN memory \ {id}),
           derivations' = derivations, history \subseteq history',
           \A h \in history' \ history :
               /\ h = new /\ h.id = id /\ h.version \in Nat /\ h.type = "deleted"
               /\ \E g \in history : g.id = id
               /\ id \in DOMAIN memory \/ ~Swept(h)
    PROVE  IInv'
  <1>1. /\ DOMAIN memory' = DOMAIN memory \ {id}
        /\ \A j \in DOMAIN memory' : memory'[j] = memory[j]
    BY DEF Restrict
  <1>2. RowsInv'
    <2> SUFFICES ASSUME NEW j \in DOMAIN memory' PROVE RowOK(j, memory'[j], history')
      BY DEF RowsInv
    <2>1. j \in DOMAIN memory /\ j # id /\ memory'[j] = memory[j]
      BY <1>1
    <2>2. RowOK(j, memory[j], history)
      BY <2>1 DEF IInv, RowsInv
    <2> QED BY <2>1, <2>2, RowKept
  <1>3. CallsInv'
    BY CallsKept DEF IInv
  <1>4. FreshInv'
    BY <1>1, FreshKept DEF IInv
  <1>5. KeysInv'
    BY KeysKept DEF IInv
  <1>6. HistoryInv'
    BY DEF IInv, HistoryInv
  <1>7. SummariesCiteWhatWas'
    BY SummariesKept DEF IInv
  <1>8. id \in DOMAIN memory => \A g \in history : g.id = id => g.type # "deleted"
    BY DEF IInv, RowsInv, RowOK
  <1>9. SweptInv'
    BY <1>8, SweptKept DEF IInv
  <1> QED BY <1>2, <1>3, <1>4, <1>5, <1>6, <1>7, <1>9 DEF IInv

\* What an audit row says.
LEMMA DeletionRow ==
    ASSUME NEW id, NEW v, NEW text, NEW key, NEW at
    PROVE  LET h == Deletion(id, v, text, key, at) IN
           h.id = id /\ h.version = v /\ h.type = "deleted" /\ h.key = key /\ h.at = at
  BY DEF Deletion, HistoryRow

LEMMA DeleteOwnedStep ==
    ASSUME IInv, NEW c \in DOMAIN call, DeleteOwned(c), derivations' = derivations
    PROVE  IInv'
  <1> DEFINE id == call[c].id
             new == Deletion(id, memory[id].version + 1, memory[id].text, c, call[c].cutoff)
  <1>1. CallsInv
    BY DEF IInv
  <1>2. CASE ~StillThere(c)
    <2>1. Later(c, End(c, "error"), history)
      BY <1>1, EndLater
    <2>2. Quietly(c)
      BY <1>2, <2>1 DEF DeleteOwned, Quietly
    <2> QED BY <2>2, QuietCall
  <1>3. CASE StillThere(c)
    <2>1. id \in DOMAIN memory
      BY <1>3 DEF StillThere
    <2>2. /\ memory' = Restrict(memory, DOMAIN memory \ {id})
          /\ history' = history \cup {new} /\ Set(c, End(c, "ok"))
      BY <1>3 DEF DeleteOwned, Remove, NextVersion, Log
    <2>3. RowOK(id, memory[id], history)
      BY <2>1 DEF IInv, RowsInv
    <2>4. /\ memory[id].version + 1 \in Nat
          /\ \E g \in history : g.id = id
      BY <2>3 DEF RowOK, Witnessed
    <2>5. new.id = id /\ new.version \in Nat /\ new.type = "deleted"
      BY <2>4, DeletionRow
    <2> HIDE DEF new
    <2>6. history \subseteq history' /\ \A h \in history' \ history : h = new
      BY <2>2
    <2>7. Later(c, End(c, "ok"), history')
      BY <1>1, <2>6, EndLater
    <2>8. CallsMove
      BY <2>2, <2>7, SetMoves
    <2> QED BY <2>1, <2>2, <2>4, <2>5, <2>6, <2>8, RemoveStep
  <1> QED BY <1>2, <1>3

LEMMA WriteDeleteStep ==
    ASSUME IInv, NEW c \in DOMAIN call, WriteDelete(c), derivations' = derivations
    PROVE  IInv'
  <1> DEFINE id == call[c].id
             seen == call[c].seen
             new == Deletion(id, seen[id].version + 1, seen[id].text, c, call[c].cutoff)
  <1>1. CallsInv /\ call[c].pc = "delete" /\ Op(c) # "sweep"
    BY DEF IInv, WriteDelete, At, CallsInv, CallOK, PathOK, NotSwept, Op
  <1>2. memory' = Restrict(memory, DOMAIN memory \ {id}) /\ Set(c, Goto(c, "next"))
    BY DEF WriteDelete, Remove
  <1>3. history' = IF id \in DOMAIN seen THEN history \cup {new} ELSE history
    BY DEF WriteDelete, Log
  <1>4. id \in DOMAIN seen => Witnessed(id, seen[id], history)
    BY <1>1 DEF CallsInv, CallOK
  <1>5. id \in DOMAIN seen => seen[id].version + 1 \in Nat /\ \E g \in history : g.id = id
    BY <1>4 DEF Witnessed
  <1>6. /\ new.id = id /\ new.type = "deleted" /\ new.key = c
        /\ id \in DOMAIN seen => new.version \in Nat
    BY <1>5, DeletionRow
  <1> HIDE DEF new
  <1>7. history \subseteq history' /\ \A h \in history' \ history : h = new /\ id \in DOMAIN seen
    BY <1>3
  <1>8. Onto(Op(c), call[c].pc, "next")
    BY <1>1 DEF Onto, Early, NotSwept, Ended
  <1>9. Later(c, Goto(c, "next"), history')
    BY <1>1, <1>7, <1>8, GotoLater
  <1>10. CallsMove
    BY <1>2, <1>9, SetMoves
  <1>11. \A h \in history' \ history :
           /\ h = new /\ h.id = id /\ h.version \in Nat /\ h.type = "deleted"
           /\ \E g \in history : g.id = id
           /\ ~Swept(h)
    BY <1>1, <1>5, <1>6, <1>7 DEF Swept
  <1> HIDE DEF id, seen
  <1> QED BY <1>2, <1>7, <1>10, <1>11, RemoveStep

LEMMA SweepStep ==
    ASSUME IInv, NEW c \in DOMAIN call, SweepOne(c), derivations' = derivations
    PROVE  IInv'
  <1>1. CallsInv /\ call[c].pc = "sweep"
    BY DEF IInv, SweepOne, At
  <1>2. Onto(Op(c), call[c].pc, "marker")
    BY <1>1 DEF Onto, Early, NotSwept, Ended
  <1>3. PICK i \in call[c].todo :
            /\ IF StillExpired(c, i)
               THEN /\ Remove(i)
                    /\ Log(Deletion(i, memory[i].version + 1, memory[i].text, c, call[c].cutoff))
               ELSE memory' = memory /\ history' = history
            /\ Set(c, [Goto(c, "marker") EXCEPT !.id = i])
    BY DEF SweepOne
  <1> DEFINE g == Goto(c, "marker")
             s == [g EXCEPT !.id = i]
             new == Deletion(i, memory[i].version + 1, memory[i].text, c, call[c].cutoff)
  <1>4. Alike(c, g) /\ g.pc = "marker"
    BY <1>1, GotoAlike
  <1>5. Set(c, s)
    BY <1>3
  <1> HIDE DEF g
  <1>6. Alike(c, s) /\ s.pc = "marker"
    BY <1>4 DEF Alike, CallFields
  <1> HIDE DEF s
  <1>7. CASE StillExpired(c, i)
    <2>1. memory' = Restrict(memory, DOMAIN memory \ {i}) /\ history' = history \cup {new}
      BY <1>3, <1>7 DEF Remove, Log
    <2>2. RowOK(i, memory[i], history)
      BY <1>7 DEF IInv, RowsInv, StillExpired
    <2>3. memory[i].version + 1 \in Nat /\ \E h \in history : h.id = i
      BY <2>2 DEF RowOK, Witnessed
    <2>4. new.id = i /\ new.version \in Nat /\ new.type = "deleted"
      BY <2>3, DeletionRow
    <2> HIDE DEF new
    <2>5. history \subseteq history' /\ \A h \in history' \ history : h = new
      BY <2>1
    <2>6. Later(c, s, history')
      BY <1>1, <1>2, <1>6, <2>5, AlikeLater
    <2>7. CallsMove
      BY <1>5, <2>6, SetMoves
    <2>8. i \in DOMAIN memory
      BY <1>7 DEF StillExpired
    <2> QED BY <2>1, <2>3, <2>4, <2>5, <2>7, <2>8, RemoveStep
  <1>8. CASE ~StillExpired(c, i)
    <2>1. memory' = memory /\ history' = history
      BY <1>3, <1>8
    <2>2. Later(c, s, history)
      BY <1>1, <1>2, <1>6, AlikeLater
    <2>3. Quietly(c)
      BY <1>5, <2>1, <2>2 DEF Quietly
    <2> QED BY <2>3, QuietCall
  <1> QED BY <1>7, <1>8

-----------------------------------------------------------------------------
(* The publication of a summary *)

\* The history row of source i.
Archival(c, i) ==
    HistoryRow(i, call[c].seen[i].version + 1, "summarized", call[c].seen[i].text, c)

\* Without drift the sources say what was read and nothing has followed.
LEMMA SourcesAsRead ==
    ASSUME IInv, NEW c \in DOMAIN call, ~SourceDrift(c), NEW i \in DOMAIN call[c].seen
    PROVE  /\ i \in DOMAIN memory
           /\ memory[i].version = call[c].seen[i].version /\ memory[i].version \in Nat
           /\ memory[i].text = call[c].seen[i].text
           /\ \A h \in history : h.id = i => h.version # memory[i].version + 1
           /\ \E h \in history : h.id = i /\ h.version = memory[i].version /\ h.text = memory[i].text
           /\ Archival(c, i).id = i /\ Archival(c, i).type = "summarized"
           /\ Archival(c, i).version = memory[i].version + 1
           /\ Archival(c, i).text = memory[i].text /\ Archival(c, i).key = c
  <1> DEFINE old == call[c].seen[i]
             row == memory[i]
  <1>1. i \in DOMAIN memory /\ row.version = old.version
    BY DEF SourceDrift
  <1>2. RowOK(i, row, history)
    BY <1>1 DEF IInv, RowsInv
  <1>3. Witnessed(i, old, history)
    BY DEF IInv, CallsInv, CallOK
  <1> HIDE DEF old, row
  <1>4. PICK g \in history : g.id = i /\ g.version = old.version /\ g.text = old.text
    BY <1>3 DEF Witnessed
  <1>5. PICK h \in history : h.id = i /\ h.version = row.version /\ h.text = row.text
    BY <1>2 DEF RowOK, Witnessed
  <1>6. g = h
    BY <1>1, <1>2, <1>4, <1>5 DEF RowOK
  <1>7. row.text = old.text /\ row.version \in Nat
    BY <1>2, <1>4, <1>5, <1>6 DEF RowOK, Witnessed
  <1>8. \A x \in history : x.id = i => x.version # row.version + 1
    BY <1>2, <1>7 DEF RowOK, IInv, HistoryInv
  <1>9. /\ Archival(c, i).id = i /\ Archival(c, i).type = "summarized"
        /\ Archival(c, i).version = row.version + 1
        /\ Archival(c, i).text = row.text /\ Archival(c, i).key = c
    BY <1>1, <1>7 DEF Archival, HistoryRow, old
  <1> QED BY <1>1, <1>5, <1>7, <1>8, <1>9 DEF old, row

LEMMA SummaryRow ==
    ASSUME NEW c \in DOMAIN call
    PROVE  RowFields \subseteq DOMAIN Summary(c) /\ Summary(c).version = 1
  BY DEF Summary, NewRow, RowFields

\* What Publish writes, if no source has drifted.
Publishes(c) ==
    /\ call[c].pc = "publish" /\ ~SourceDrift(c)
    /\ memory' = With(Archived(c), Req(c).digest, Summary(c))
    /\ history' = history \cup {Archival(c, i) : i \in DOMAIN call[c].seen}
                          \cup {HistoryRow(Req(c).digest, 1, "created", Summary(c).text, c)}
    /\ derivations' = derivations \cup
           {[key |-> DerivationKey(c), summary |-> Req(c).digest, by |-> c,
             claims |-> call[c].claims]}
    /\ Set(c, Goto(c, "confirm"))

\* The new history rows: one for each source, and that of the summary.
LEMMA PublishedHistory ==
    ASSUME IInv, NEW c \in DOMAIN call, Publishes(c)
    PROVE  /\ history \subseteq history'
           /\ \A i \in DOMAIN call[c].seen : Archival(c, i) \in history'
           /\ \A h \in history' \ history :
                 \/ \E i \in DOMAIN call[c].seen : h = Archival(c, i)
                 \/ h = HistoryRow(Req(c).digest, 1, "created", Summary(c).text, c)
  BY DEF Publishes

LEMMA DigestIsFresh ==
    ASSUME IInv, NEW c \in DOMAIN call, call[c].pc = "publish"
    PROVE  /\ Req(c).digest \notin DOMAIN memory
           /\ \A h \in history : h.id # Req(c).digest
           /\ \A d \in DOMAIN call \ {c} : ~Due(call[d], Req(c).digest)
           /\ \A d \in DOMAIN call : Op(d) = "index" => Req(d).key # Req(c).digest
  <1>1. Op(c) \in Derives
    BY DEF IInv, CallsInv, CallOK, PathOK, Op, Req
  <1>2. Due(call[c], Req(c).digest)
    BY <1>1 DEF Due, DueDigest, Ended, Op, Req
  <1> QED BY <1>2 DEF IInv, FreshInv

LEMMA PublishedRows ==
    ASSUME IInv, NEW c \in DOMAIN call, Publishes(c)
    PROVE  RowsInv'
  <1> DEFINE digest == Req(c).digest
             seen == call[c].seen
             first == HistoryRow(digest, 1, "created", Summary(c).text, c)
  <1>1. /\ history \subseteq history'
        /\ \A i \in DOMAIN seen : Archival(c, i) \in history'
        /\ \A h \in history' \ history : \/ \E i \in DOMAIN seen : h = Archival(c, i)
                                        \/ h = first
        /\ first \in history'
    BY PublishedHistory DEF Publishes
  <1>2. digest \notin DOMAIN memory /\ \A h \in history : h.id # digest
    BY DigestIsFresh DEF Publishes
  <1>3. \A i \in DOMAIN seen : i \in DOMAIN memory /\ Archival(c, i).id = i
    BY SourcesAsRead DEF Publishes
  <1>4. first.id = digest
    BY DEF HistoryRow
  <1>5. DOMAIN Archived(c) = DOMAIN memory
    BY DEF Archived
  <1>6. /\ DOMAIN memory' = DOMAIN memory \cup {digest}
        /\ memory'[digest] = Summary(c)
        /\ \A j \in DOMAIN memory : memory'[j] = Archived(c)[j]
    BY <1>2, <1>5 DEF Publishes, With
  <1> HIDE DEF digest
  <1> SUFFICES ASSUME NEW j \in DOMAIN memory' PROVE RowOK(j, memory'[j], history')
    BY DEF RowsInv
  <1>7. CASE j = digest
    <2>1. \A h \in history' : h.id = digest => h = first
      BY <1>1, <1>2, <1>3
    <2>2. RowFields \subseteq DOMAIN Summary(c) /\ Summary(c).version = 1
      BY SummaryRow
    <2>3. RowOK(digest, Summary(c), history')
      BY <1>1, <2>1, <2>2, RowIsNew
    <2> QED BY <1>6, <1>7, <2>3
  <1>8. CASE j \in DOMAIN seen
    <2> DEFINE row == memory[j]
               next == memory'[j]
               new == Archival(c, j)
    <2>1. /\ j \in DOMAIN memory /\ row.version \in Nat
          /\ new.id = j /\ new.type = "summarized" /\ new.version = row.version + 1
          /\ new.text = row.text
      BY <1>8, SourcesAsRead DEF Publishes
    <2>2. RowOK(j, row, history)
      BY <2>1 DEF IInv, RowsInv
    <2>3. next = [row EXCEPT !.active = FALSE, !.version = @ + 1]
      BY <1>6, <1>8, <2>1 DEF Archived
    <2>4. new \in history' /\ \A h \in history' \ history : h.id = j => h = new
      BY <1>1, <1>2, <1>3, <1>4, <1>8, <2>1
    <2> HIDE DEF new, row, next, first
    <2>5. /\ RowFields \subseteq DOMAIN next /\ next.version = row.version + 1
          /\ next.text = row.text
      BY <2>2, <2>3 DEF RowOK, RowFields
    <2>6. \A h \in history : h.version \in Nat
      BY DEF IInv, HistoryInv
    <2>7. RowOK(j, next, history')
      BY <1>1, <2>1, <2>2, <2>4, <2>5, <2>6, RowIsNext
    <2> QED BY <2>7 DEF next
  <1>9. CASE j # digest /\ j \notin DOMAIN seen
    <2>1. j \in DOMAIN memory /\ memory'[j] = memory[j]
      BY <1>6, <1>9 DEF Archived
    <2>2. RowOK(j, memory[j], history)
      BY <2>1 DEF IInv, RowsInv
    <2>3. \A h \in history' \ history : h.id # j
      BY <1>1, <1>3, <1>4, <1>9
    <2> QED BY <1>1, <2>1, <2>2, <2>3, RowKept
  <1> QED BY <1>7, <1>8, <1>9

LEMMA PublishedSummaries ==
    ASSUME IInv, NEW c \in DOMAIN call, Publishes(c)
    PROVE  SummariesCiteWhatWas'
  <1> DEFINE seen == call[c].seen
             digest == Req(c).digest
             first == HistoryRow(digest, 1, "created", Summary(c).text, c)
             new == [key |-> DerivationKey(c), summary |-> digest, by |-> c,
                     claims |-> call[c].claims]
  <1>1. /\ history \subseteq history'
        /\ \A i \in DOMAIN seen : Archival(c, i) \in history'
        /\ \A h \in history' \ history : \/ \E i \in DOMAIN seen : h = Archival(c, i)
                                        \/ h = first
    BY PublishedHistory
  <1>2. \A i \in DOMAIN seen :
          /\ Archival(c, i).id = i /\ Archival(c, i).type = "summarized"
          /\ Archival(c, i).version = seen[i].version + 1 /\ Archival(c, i).key = c
          /\ \A h \in history : h.id = i => h.version # seen[i].version + 1
    BY SourcesAsRead DEF Publishes
  <1>3. first.type = "created"
    BY DEF HistoryRow
  <1>4. new.key.sources = {<<i, seen[i].version>> : i \in DOMAIN seen}
    BY DEF DerivationKey
  <1>5. new.by = c /\ new.claims = call[c].claims
    OBVIOUS
  <1>6. derivations' = derivations \cup {new}
    BY DEF Publishes
  <1>7. \A k \in call[c].claims : \A e \in k.evidence : InSource(seen, e)
    BY DEF IInv, CallsInv, CallOK, Publishes
  <1>8. \A i \in DOMAIN seen : Witnessed(i, seen[i], history)
    BY DEF IInv, CallsInv, CallOK
  <1>9. \A h \in history' \ history : h.type # "updated"
    BY <1>1, <1>2, <1>3
  <1> HIDE DEF new, first, digest
  \* Nothing in the history follows what was read.
  <1>10. ASSUME NEW s \in new.key.sources
         PROVE  /\ \E i \in DOMAIN seen : s[1] = i /\ s[2] = seen[i].version
                /\ \A h \in history : h.id = s[1] => h.version # s[2] + 1
    <2>1. PICK i \in DOMAIN seen : s = <<i, seen[i].version>>
      BY <1>4, <1>10
    <2> QED BY <1>2, <2>1
  <1>11. ASSUME NEW d \in derivations, NEW s \in d.key.sources
         PROVE  /\ \E h \in history : /\ h.id = s[1] /\ h.version = s[2] + 1
                                      /\ h.type = "summarized" /\ h.key = d.by
                /\ \A h \in history : h.id = s[1] /\ h.version = s[2] + 1 => h.type # "updated"
                /\ \A e \in derivations : s \in e.key.sources => e = d
    BY <1>11 DEF IInv, SummariesCiteWhatWas
  <1>12. ASSUME NEW d \in derivations'
         PROVE  /\ \A s \in d.key.sources :
                     /\ \E h \in history' : /\ h.id = s[1] /\ h.version = s[2] + 1
                                            /\ h.type = "summarized" /\ h.key = d.by
                     /\ \A h \in history' : h.id = s[1] /\ h.version = s[2] + 1
                                             => h.type # "updated"
                     /\ \A e \in derivations' : s \in e.key.sources => e = d
                /\ \A k \in d.claims : \A e \in k.evidence :
                     \E h \in history' : /\ h.id = e.id /\ h.version = e.version
                                         /\ e.quote \in h.text
    <2>1. CASE d = new
      <3>1. ASSUME NEW s \in d.key.sources
            PROVE  /\ \E h \in history' : /\ h.id = s[1] /\ h.version = s[2] + 1
                                          /\ h.type = "summarized" /\ h.key = d.by
                   /\ \A h \in history' : h.id = s[1] /\ h.version = s[2] + 1
                                           => h.type # "updated"
                   /\ \A e \in derivations' : s \in e.key.sources => e = d
        <4>1. PICK i \in DOMAIN seen : s[1] = i /\ s[2] = seen[i].version
          BY <1>10, <2>1, <3>1
        <4>2. \A h \in history : h.id = s[1] => h.version # s[2] + 1
          BY <1>10, <2>1, <3>1
        <4>3. \E h \in history' : /\ h.id = s[1] /\ h.version = s[2] + 1
                                  /\ h.type = "summarized" /\ h.key = d.by
          BY <1>1, <1>2, <1>5, <2>1, <4>1
        <4>4. \A e \in derivations : s \notin e.key.sources
          BY <1>11, <4>2
        <4> QED BY <1>6, <1>9, <2>1, <4>2, <4>3, <4>4
      <3>2. ASSUME NEW k \in d.claims, NEW e \in k.evidence
            PROVE  \E h \in history' : h.id = e.id /\ h.version = e.version /\ e.quote \in h.text
        <4>1. InSource(seen, e)
          BY <1>5, <1>7, <2>1, <3>2
        <4>2. Witnessed(e.id, seen[e.id], history)
          BY <1>8, <4>1 DEF InSource
        <4> QED BY <1>1, <4>1, <4>2 DEF InSource, Witnessed
      <3> QED BY <3>1, <3>2
    <2>2. CASE d \in derivations
      <3>1. ASSUME NEW s \in d.key.sources
            PROVE  /\ \E h \in history' : /\ h.id = s[1] /\ h.version = s[2] + 1
                                          /\ h.type = "summarized" /\ h.key = d.by
                   /\ \A h \in history' : h.id = s[1] /\ h.version = s[2] + 1
                                           => h.type # "updated"
                   /\ \A e \in derivations' : s \in e.key.sources => e = d
        <4>1. /\ \E h \in history : /\ h.id = s[1] /\ h.version = s[2] + 1
                                    /\ h.type = "summarized" /\ h.key = d.by
              /\ \A h \in history : h.id = s[1] /\ h.version = s[2] + 1 => h.type # "updated"
              /\ \A e \in derivations : s \in e.key.sources => e = d
          BY <1>11, <2>2, <3>1
        <4>2. s \notin new.key.sources
          BY <1>10, <4>1
        <4> QED BY <1>1, <1>6, <1>9, <4>1, <4>2
      <3>2. \A k \in d.claims : \A e \in k.evidence :
              \E h \in history : h.id = e.id /\ h.version = e.version /\ e.quote \in h.text
        BY <2>2 DEF IInv, SummariesCiteWhatWas
      <3> QED BY <1>1, <3>1, <3>2
    <2> QED BY <1>6, <1>12, <2>1, <2>2
  <1> QED BY <1>12 DEF SummariesCiteWhatWas

LEMMA PublishStep ==
    ASSUME IInv, NEW c \in DOMAIN call, Publish(c)
    PROVE  IInv'
  <1>1. CallsInv /\ call[c].pc = "publish"
    BY DEF IInv, Publish, At
  <1>2. Onto(Op(c), call[c].pc, "thrown") /\ Onto(Op(c), call[c].pc, "confirm")
    BY <1>1 DEF Onto, Early, NotSwept, Ended
  <1>3. CASE SourceDrift(c)
    <2>1. Later(c, Goto(c, "thrown"), history)
      BY <1>1, <1>2, GotoLater
    <2>2. Quietly(c)
      BY <1>3, <2>1 DEF Publish, Quietly
    <2> QED BY <2>2, QuietCall
  <1>4. CASE ~SourceDrift(c)
    <2> DEFINE digest == Req(c).digest
               seen == call[c].seen
    <2>1. Publishes(c)
      BY <1>1, <1>4 DEF Publish, Publishes, Archival
    <2>2. RowsInv' /\ SummariesCiteWhatWas'
      BY <2>1, PublishedRows, PublishedSummaries
    <2>3. /\ history \subseteq history'
          /\ \A h \in history' \ history :
               \/ \E i \in DOMAIN seen : h = Archival(c, i)
               \/ h = HistoryRow(digest, 1, "created", Summary(c).text, c)
      BY <2>1, PublishedHistory
    <2>4. \A i \in DOMAIN seen :
            /\ i \in DOMAIN memory /\ Archival(c, i).id = i /\ Archival(c, i).version \in Nat
            /\ \E g \in history : g.id = i
      BY <1>4, SourcesAsRead
    <2>5. \A h \in history' \ history :
            /\ h.version \in Nat
            /\ \/ h.id = digest
               \/ h.id \in DOMAIN memory /\ \E g \in history : g.id = h.id
      BY <2>3, <2>4 DEF HistoryRow
    <2>6. Later(c, Goto(c, "confirm"), history')
      BY <1>1, <1>2, <2>3, GotoLater
    <2>7. CallsMove
      BY <2>1, <2>6, SetMoves DEF Publishes
    <2>8. CallsInv'
      BY <1>1, <2>3, <2>7, CallsKept
    <2>9. /\ \A d \in DOMAIN call \ {c} : ~Due(call[d], digest)
          /\ \A d \in DOMAIN call : Op(d) = "index" => Req(d).key # digest
      BY <1>1, DigestIsFresh
    <2>10. ~Due(Goto(c, "confirm"), digest)
      <3>1. Goto(c, "confirm").pc = "confirm"
        BY <1>1, GotoAlike
      <3> QED BY <3>1 DEF Due, DueKey, DueDigest, Ended
    <2>11. \A d \in DOMAIN call : ~Due(call'[d], digest)
      BY <2>1, <2>9, <2>10 DEF Publishes, Set
    <2>12. DOMAIN memory' = DOMAIN memory \cup {digest}
      BY <2>1 DEF Publishes, Archived, With
    <2> HIDE DEF digest
    <2>13. FreshInv'
      BY <2>5, <2>7, <2>11, <2>12, FreshKept DEF IInv
    <2>14. KeysInv'
      BY <2>3, <2>5, <2>7, <2>9, KeysKept DEF IInv
    <2>15. HistoryInv'
      BY <2>5 DEF IInv, HistoryInv
    <2>16. \A h \in history' \ history : h.type # "deleted"
      BY <2>3 DEF Archival, HistoryRow
    <2>17. SweptInv'
      BY <2>7, <2>16, SweptKept DEF IInv, Swept
    <2> QED BY <2>2, <2>8, <2>13, <2>14, <2>15, <2>17 DEF IInv
  <1> QED BY <1>3, <1>4

-----------------------------------------------------------------------------
(* The calls of a storage *)

\* Where calls write memories, apart from publications.
Writes(c) == \/ InsertMemory(c) \/ WriteUpdate(c) \/ DeleteOwned(c) \/ WriteDelete(c)
             \/ SweepOne(c) \/ CreateIndexed(c)

LEMMA CallStepCases ==
    ASSUME IInv, NEW c \in DOMAIN call, CallStep(c)
    PROVE  Quietly(c) \/ (Writes(c) /\ derivations' = derivations) \/ Publish(c)
  <1>1. CASE MemoryStep(c) /\ derivations' = derivations
    <2>1. CASE \/ StartAdd(c) \/ SearchDuplicates(c) \/ Readback(c) \/ StartIndexed(c)
               \/ GetIndexed(c)
      BY <1>1, <2>1, AddQuiet
    <2>2. CASE StartGet(c) \/ GetMemory(c) \/ GetUpdated(c)
      BY <1>1, <2>2, GetQuiet
    <2>3. CASE StartDelete(c) \/ StartDeleteAll(c) \/ SeeMemory(c) \/ AllDeleted(c)
      BY <1>1, <2>3, DeleteQuiet
    <2>4. CASE StartSweep(c) \/ CountSwept(c) \/ SweepFails(c) \/ SweepEnds(c)
      BY <1>1, <2>4, SweepQuiet
    <2>5. CASE Writes(c)
      BY <1>1, <2>5
    <2> QED BY <1>1, <2>1, <2>2, <2>3, <2>4, <2>5 DEF MemoryStep, Writes
  <1>2. CASE Abandon(c) /\ derivations' = derivations
    BY <1>2, SweepQuiet
  <1>3. CASE StreamStep(c)
    <2>1. CASE \/ CreateStream(c) \/ SetStatus(c) \/ StartAddTo(c) \/ SeeCounter(c)
               \/ StartDeleteStream(c) \/ ListMembers(c) \/ DropStream(c)
      BY <2>1, StreamQuiet
    <2>2. CASE \/ StartCompress(c) \/ StartSummarize(c) \/ LoadStream(c) \/ SelectSources(c)
               \/ Generate(c) \/ CheckPublished(c) \/ Confirm(c)
      BY <2>2, DeriveQuiet
    <2> QED BY <1>3, <2>1, <2>2 DEF StreamStep
  <1>4. CASE DocumentStep(c)
    BY <1>4, MapQuiet, StepQuiet, EntityQuiet DEF DocumentStep
  <1> QED BY <1>1, <1>2, <1>3, <1>4 DEF CallStep

LEMMA EndKeeps ==
    ASSUME IInv, NEW c \in DOMAIN call, NEW a
    PROVE  End(c, a).req = call[c].req /\ End(c, a).pc = "done"
  BY DEF IInv, CallsInv, CallOK, CallFields, End

\* A call moves to pc p with the rest as it was.
LEMMA GoesTo ==
    ASSUME IInv, NEW c \in DOMAIN call, NEW p
    PROVE  /\ Goto(c, p).req = call[c].req /\ Goto(c, p).pc = p
           /\ Goto(c, p).todo = call[c].todo /\ Goto(c, p).id = call[c].id
           /\ CallFields \subseteq DOMAIN Goto(c, p)
  BY DEF IInv, CallsInv, CallOK, CallFields, Goto

LEMMA SetsOne ==
    ASSUME NEW c \in DOMAIN call, NEW s, Set(c, s)
    PROVE  /\ DOMAIN call' = DOMAIN call /\ call'[c] = s
           /\ \A d \in DOMAIN call \ {c} : call'[d] = call[d]
  BY DEF Set

\* Every step of a call in the storage is one of its own record.
LEMMA SetsSome ==
    ASSUME IInv, NEW c \in DOMAIN call, CallStep(c)
    PROVE  \E s : Set(c, s)
  <1>1. CASE Quietly(c)
    BY <1>1 DEF Quietly
  <1>2. CASE Writes(c)
    BY <1>2 DEF Writes, InsertMemory, WriteUpdate, DeleteOwned, WriteDelete, SweepOne, CreateIndexed
  <1>3. CASE Publish(c)
    BY <1>3 DEF Publish
  <1> QED BY <1>1, <1>2, <1>3, CallStepCases

LEMMA CallStepOK ==
    ASSUME IInv, NEW c \in DOMAIN call, CallStep(c)
    PROVE  IInv'
  <1>1. CASE Quietly(c)
    BY <1>1, QuietCall
  <1>2. CASE Writes(c) /\ derivations' = derivations
    BY <1>2, InsertStep, UpdateStep, DeleteOwnedStep, WriteDeleteStep, SweepStep, IndexStep
       DEF Writes
  <1>3. CASE Publish(c)
    BY <1>3, PublishStep
  <1> QED BY <1>1, <1>2, <1>3, CallStepCases

-----------------------------------------------------------------------------
(* The server around them *)

\* The server touches the record of one call, or none.
LEMMA OneCall ==
    ASSUME IInv, NEW h, NEW rec, OnlyCall(h, rec),
           h \in DOMAIN call => rec = call[h] \/ Later(h, rec, history)
    PROVE  IInv'
  <1>1. /\ call' = [call EXCEPT ![h] = rec]
        /\ memory' = memory /\ history' = history /\ derivations' = derivations
    BY DEF OnlyCall, StorageUnchangedBut
  <1>2. CallsMove
    BY <1>1 DEF CallsMove
  <1> QED BY <1>1, <1>2, QuietStep

LEMMA NoCall ==
    ASSUME IInv, StorageUnchangedBut(call)
    PROVE  IInv'
  <1>1. /\ call' = call
        /\ memory' = memory /\ history' = history /\ derivations' = derivations
    BY DEF StorageUnchangedBut
  <1>2. CallsMove
    BY <1>1 DEF CallsMove
  <1> QED BY <1>1, <1>2, QuietStep

LEMMA StartStepOK ==
    ASSUME IInv, NEW h \in DOMAIN start, StartStep(h)
    PROVE  IInv'
  <1>0. h \in DOMAIN call => \A a : Later(h, End(h, a), history)
    BY EndsLater DEF IInv
  <1>1. CASE Statement(h) \/ Inspect(h) \/ Normalise(h) \/ RecordVersion(h) \/ Validate(h)
    BY <1>1, NoCall DEF Statement, Inspect, Normalise, RecordVersion, Validate
  <1>2. CASE Succeeds(h)
    <2>1. \/ StorageUnchangedBut(call)
          \/ OnlyCall(h, End(h, "ok"))
          \/ OnlyCall(h, call[h])
      BY <1>2 DEF Succeeds, EndOfMain, EndOfRepair, EndOfRequest
    <2> QED BY <1>0, <2>1, NoCall, OneCall
  <1>3. CASE Fails(h)
    <2>1. \/ StorageUnchangedBut(call)
          \/ OnlyCall(h, End(h, "error"))
          \/ OnlyCall(h, End(h, "unavailable"))
      BY <1>3 DEF Fails, EndOfMain, EndOfRepair, EndOfRequest
    <2> QED BY <1>0, <2>1, NoCall, OneCall
  <1> QED BY <1>1, <1>2, <1>3 DEF StartStep

LEMMA HandleOK ==
    ASSUME IInv, NEW c \in DOMAIN call, Handle(c)
    PROVE  IInv'
  <1> DEFINE r == call[c]
             op == OpFor(c)
             owner == OwnerFor(c)
             s == [r EXCEPT !.req.op = op, !.req.owner = owner]
  <1>1. CallsInv /\ CallOK(c, r, history)
    BY DEF IInv, CallsInv
  <1>2. OnlyCall(c, End(c, "error")) \/ OnlyCall(c, s)
    BY DEF Handle
  <1>3. \/ op = Op(c)
        \/ Op(c) = "update" /\ op = "updateOwned"
        \/ Op(c) = "delete" /\ op = "deleteOwned"
    BY DEF OpFor
  <1>4. Op(c) = r.req.op /\ Req(c) = r.req
    BY DEF Op, Req
  <1> HIDE DEF op, owner, r
  <1>5. /\ CallFields \subseteq DOMAIN s /\ ReqFields \subseteq DOMAIN s.req
        /\ s.pc = r.pc /\ s.seen = r.seen /\ s.removed = r.removed /\ s.claims = r.claims
        /\ s.cutoff = r.cutoff
        /\ s.req.op = op /\ s.req.key = r.req.key /\ s.req.digest = r.req.digest
    BY <1>1 DEF CallOK, CallFields, ReqFields
  <1> HIDE DEF s
  <1>6. CallOK(c, s, history)
    BY <1>1, <1>3, <1>4, <1>5 DEF CallOK, PathOK, Adds, Derives
  <1>7. \A i : Due(s, i) => Due(r, i)
    BY <1>3, <1>4, <1>5 DEF Due, DueKey, DueDigest, Adds, Derives
  <1>8. Later(c, s, history)
    BY <1>3, <1>4, <1>5, <1>6, <1>7 DEF Later, r
  <1> QED BY <1>1, <1>2, <1>8, OneCall, EndLater

LEMMA RefusedOK ==
    ASSUME IInv, NEW c \in DOMAIN call, IndexRefuses(c)
    PROVE  IInv'
  <1>1. CallsInv
    BY DEF IInv
  <1>2. /\ At(c, "create") => Later(c, Goto(c, "recheck"), history)
        /\ At(c, "publish") => Later(c, Goto(c, "thrown"), history)
    BY <1>1, GotoLater DEF At, Onto, Early, NotSwept, Ended
  <1>3. Later(c, End(c, "error"), history)
    BY <1>1, EndLater
  <1>4. \/ At(c, "create") /\ OnlyCall(c, Goto(c, "recheck"))
        \/ At(c, "publish") /\ OnlyCall(c, Goto(c, "thrown"))
        \/ OnlyCall(c, End(c, "error"))
    BY DEF IndexRefuses, At
  <1> QED BY <1>2, <1>3, <1>4, OneCall

LEMMA CrashOK ==
    ASSUME IInv, NEW p \in Processes, Crash(p)
    PROVE  IInv'
  <1>1. PICK lost : call' = [c \in DOMAIN call |-> IF c \in lost THEN End(c, "dropped") ELSE call[c]]
    BY DEF Crash, StorageUnchangedBut
  <1>2. memory' = memory /\ history' = history /\ derivations' = derivations
    BY DEF Crash, StorageUnchangedBut
  <1>3. \A c \in DOMAIN call : Later(c, End(c, "dropped"), history)
    BY EndsLater DEF IInv
  <1>4. CallsMove
    BY <1>1, <1>2, <1>3 DEF CallsMove
  <1> QED BY <1>2, <1>4, QuietStep

LEMMA Step ==
    ASSUME IInv, [Next]_vars
    PROVE  IInv'
  <1>1. ASSUME NEW c \in DOMAIN call,
               \/ Serve(c) \/ IndexRefuses(c) \/ Authenticate(c) \/ RequestStep(c)
               \/ Disconnect(c) \/ BeginSweep(c) \/ StartRepair(c)
        PROVE  IInv'
    <2>0. \A a : Later(c, End(c, a), history)
      BY EndsLater DEF IInv
    <2>1. CASE Serve(c)
      BY <2>1, CallStepOK DEF Serve
    <2>2. CASE IndexRefuses(c)
      BY <2>2, RefusedOK
    <2>3. CASE Authenticate(c)
      <3>1. OnlyCall(c, call[c]) \/ OnlyCall(c, End(c, "refused"))
        BY <2>3 DEF Authenticate
      <3> QED BY <2>0, <3>1, OneCall
    <2>4. CASE Initialise(c) \/ Resolve(c)
      BY <2>4, NoCall DEF Initialise, Resolve
    <2>5. CASE Handle(c)
      BY <2>5, HandleOK
    <2>6. CASE Disconnect(c)
      BY <2>0, <2>6, OneCall DEF Disconnect
    <2>7. CASE BeginSweep(c) \/ StartRepair(c)
      BY <2>7, NoCall DEF BeginSweep, StartRepair
    <2> QED BY <1>1, <2>1, <2>2, <2>3, <2>4, <2>5, <2>6, <2>7 DEF RequestStep
  <1>2. ASSUME NEW h \in DOMAIN start, StartStep(h) PROVE IInv'
    BY <1>2, StartStepOK
  <1>3. ASSUME NEW p \in Processes, Boot(p) \/ Crash(p) PROVE IInv'
    <2>1. CASE Boot(p)
      BY <2>1, NoCall DEF Boot
    <2>2. CASE Crash(p)
      BY <2>2, CrashOK
    <2> QED BY <1>3, <2>1, <2>2
  <1>4. CASE Tick /\ UNCHANGED <<derivations, docVars, serverVars>>
    <2>1. CallsMove /\ memory' = memory /\ history' = history /\ derivations' = derivations
      BY <1>4 DEF Tick, CallsMove
    <2> QED BY <2>1, QuietStep
  <1>5. CASE UNCHANGED vars
    <2>1. CallsMove /\ memory' = memory /\ history' = history /\ derivations' = derivations
      BY <1>5 DEF vars, storageVars, storeVars, CallsMove
    <2> QED BY <2>1, QuietStep
  <1> QED BY <1>1, <1>2, <1>3, <1>4, <1>5 DEF Next

-----------------------------------------------------------------------------
(* The first state *)

LEMMA Start == Init => IInv
  <1> SUFFICES ASSUME Init PROVE IInv
    OBVIOUS
  <1>1. PICK w \in Workloads :
          /\ memory = w.memory /\ derivations = {}
          /\ history = {HistoryRow(i, 1, "created", w.memory[i].text, i) : i \in DOMAIN w.memory}
          /\ call = [c \in DOMAIN w.calls |-> NewCall(w.calls[c])]
    BY DEF Init, InitStorage, InitStore
  <1>2. /\ \A i \in DOMAIN w.memory : RowFields \subseteq DOMAIN w.memory[i] /\ w.memory[i].version = 1
        /\ \A c \in DOMAIN w.calls : ReqFields \subseteq DOMAIN w.calls[c] /\ Fresh(w, c)
    BY <1>1, StoreAssumption DEF RowFields, ReqFields
  <1>3. \A h \in history : /\ h.id \in DOMAIN memory /\ h.version = 1 /\ h.key = h.id
                           /\ h = HistoryRow(h.id, 1, "created", memory[h.id].text, h.id)
    BY <1>1 DEF HistoryRow
  <1>4. RowsInv
    <2> SUFFICES ASSUME NEW i \in DOMAIN memory PROVE RowOK(i, memory[i], history)
      BY DEF RowsInv
    <2>1. RowFields \subseteq DOMAIN memory[i] /\ memory[i].version = 1
      BY <1>1, <1>2
    <2>2. HistoryRow(i, 1, "created", memory[i].text, i) \in history
      BY <1>1
    <2>3. \A h \in history : h.id = i => h = HistoryRow(i, 1, "created", memory[i].text, i)
      BY <1>3
    <2> QED BY <2>1, <2>2, <2>3, RowIsNew
  <1>5. ASSUME NEW c \in DOMAIN call
        PROVE  /\ call[c].req = w.calls[c] /\ c \in DOMAIN w.calls /\ call[c].pc = "start"
               /\ CallFields \subseteq DOMAIN call[c]
               /\ call[c].seen = << >> /\ call[c].removed = {}
    BY <1>1 DEF NewCall, CallFields
  <1>6. CallsInv
    <2> SUFFICES ASSUME NEW c \in DOMAIN call PROVE CallOK(c, call[c], history)
      BY DEF CallsInv
    <2>1. DOMAIN << >> = {}
      OBVIOUS
    <2>2. ReqFields \subseteq DOMAIN w.calls[c]
          /\ (w.calls[c].op = "addTo" => w.calls[c].key # w.calls[c].digest)
      BY <1>2, <1>5 DEF Fresh
    <2> QED BY <1>5, <2>1, <2>2 DEF CallOK, PathOK, NotSwept
  <1>7. FreshInv
    <2>1. ASSUME NEW c \in DOMAIN call, NEW i, Due(call[c], i)
          PROVE  i \in Draws(w.calls[c])
      BY <1>5, <2>1 DEF Due, DueKey, DueDigest, Draws, Adds, Derives
    <2>2. \A c \in DOMAIN w.calls :
            /\ \A d \in DOMAIN w.calls : d # c => Draws(w.calls[c]) \cap Draws(w.calls[d]) = {}
            /\ \A d \in DOMAIN w.calls : w.calls[d].op = "index" => w.calls[d].key \notin Draws(w.calls[c])
            /\ Draws(w.calls[c]) \cap DOMAIN w.memory = {}
      BY <1>2 DEF Fresh
    <2> SUFFICES ASSUME NEW c \in DOMAIN call, NEW i, Due(call[c], i)
                 PROVE  /\ i \notin DOMAIN memory
                        /\ \A h \in history : h.id # i
                        /\ \A d \in DOMAIN call \ {c} : ~Due(call[d], i)
                        /\ \A d \in DOMAIN call : Op(d) = "index" => Req(d).key # i
      BY DEF FreshInv
    <2>3. i \in Draws(w.calls[c]) /\ c \in DOMAIN w.calls
      BY <2>1, <1>5
    <2>4. i \notin DOMAIN memory /\ \A h \in history : h.id # i
      BY <1>1, <1>3, <2>2, <2>3
    <2>5. \A d \in DOMAIN call \ {c} : ~Due(call[d], i)
      BY <1>5, <2>1, <2>2, <2>3
    <2>6. \A d \in DOMAIN call : Op(d) = "index" => Req(d).key # i
      BY <1>5, <2>2, <2>3 DEF Op, Req
    <2> QED BY <2>4, <2>5, <2>6
  <1>8. KeysInv
    BY <1>3 DEF KeysInv
  <1>9. HistoryInv
    BY <1>3 DEF HistoryInv
  <1>10. SummariesCiteWhatWas
    BY <1>1 DEF SummariesCiteWhatWas
  <1>11. SweptInv
    BY <1>1 DEF SweptInv, Swept, HistoryRow
  <1> QED BY <1>4, <1>6, <1>7, <1>8, <1>9, <1>10, <1>11 DEF IInv

-----------------------------------------------------------------------------
(* The theorems *)

\* The invariant the theorems below rest on: what is witnessed in the history of
\* every row and of everything a call has read, and which ids are still to come.
THEOREM StorageInductive == Spec => []IInv
  <1>1. Init => IInv
    BY Start
  <1>2. IInv /\ [Next]_vars => IInv'
    BY Step
  <1> QED BY <1>1, <1>2, PTL DEF Spec

\* The versions of a memory that is there are 1 up to its own, each with one
\* history row, however updates, derivations, retried stores and crashes of
\* processes interleave (update_memory, publish, store_indexed_memory).
THEOREM HistoriesAreComplete == Spec => []HistoryIsComplete
  <1>1. IInv => HistoryIsComplete
    <2> SUFFICES ASSUME IInv, NEW i \in DOMAIN memory
                 PROVE  /\ \A v \in 1..memory[i].version :
                             Cardinality({h \in history : h.id = i /\ h.version = v}) = 1
                        /\ \A h \in history : h.id = i => h.version <= memory[i].version
      BY DEF HistoryIsComplete
    <2>1. RowOK(i, memory[i], history)
      BY DEF IInv, RowsInv
    <2>2. ASSUME NEW v \in 1..memory[i].version
          PROVE  Cardinality({h \in history : h.id = i /\ h.version = v}) = 1
      <3>1. PICK g \in history : g.id = i /\ g.version = v
        BY <2>1, <2>2 DEF RowOK
      <3>2. {h \in history : h.id = i /\ h.version = v} = {g}
        BY <2>1, <3>1 DEF RowOK
      <3> QED BY <3>2, FS_Singleton
    <2> QED BY <2>1, <2>2 DEF RowOK
  <1> QED BY <1>1, StorageInductive, PTL

\* A memory that was deleted, by a client, with its stream or by a sweep, never
\* comes back: neither by a late update nor by the replay of an operation.
THEOREM DeletedStaysDeleted == Spec => []NoResurrection
  <1>1. IInv => NoResurrection
    BY DEF IInv, RowsInv, RowOK, NoResurrection
  <1> QED BY <1>1, StorageInductive, PTL

\* Two sweeps report one memory as removed only if they began at one instant or a
\* client deleted it at the instant of one of them (delete_if_still_expired): of
\* one memory one sweep at most has written an audit row.
THEOREM SweepsAreCountedOnce == Spec => []SweptOnce
  <1>1. IInv => SweptOnce
    <2> SUFFICES ASSUME IInv, NEW c \in DOMAIN call, NEW d \in DOMAIN call,
                        NEW i \in call[c].removed \cap call[d].removed,
                        \A h \in history : h.id = i /\ h.type = "deleted" /\ ~Swept(h) =>
                            h.at \notin {call[c].cutoff, call[d].cutoff}
                 PROVE  call[c].cutoff = call[d].cutoff
      BY DEF SweptOnce
    <2>1. PICK g \in history : g.id = i /\ g.type = "deleted" /\ g.at = call[c].cutoff
      BY DEF IInv, CallsInv, CallOK
    <2>2. PICK h \in history : h.id = i /\ h.type = "deleted" /\ h.at = call[d].cutoff
      BY DEF IInv, CallsInv, CallOK
    <2>3. Swept(g) /\ Swept(h)
      BY <2>1, <2>2
    <2> QED BY <2>1, <2>2, <2>3 DEF IInv, SweptInv
  <1> QED BY <1>1, StorageInductive, PTL

\* A published summary archived exactly what it read, and its claims quote what
\* the sources said at the versions they name, whatever happened to the sources
\* while the summarizer ran and whichever other derivation had the same ones.
THEOREM SummariesAreHonest == Spec => []SummariesCiteWhatWas
  <1>1. IInv => SummariesCiteWhatWas
    BY DEF IInv
  <1> QED BY <1>1, StorageInductive, PTL
=============================================================================
