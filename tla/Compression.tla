---------------------------- MODULE Compression ----------------------------
(***************************************************************************)
(* From memories to claims (crates/surreal-memory/src/compression): a      *)
(* summarizer proposes claims that quote the sources, the gate validates   *)
(* them and fits them into a budget, promotion decides which may act as    *)
(* guidance, lineage counts the independent evidence.  All of it is pure.  *)
(*                                                                         *)
(* A text is a set of sentences.  What the cue lists of summarizer.rs find *)
(* in a sentence is given: what it claims, its kind, whether it is         *)
(* negated, hedged or validated, and its tokens.  Sentences that make one  *)
(* claim have the content words that support one another.                  *)
(***************************************************************************)
EXTENDS Integers, FiniteSets, FiniteSetsExt, Functions, TLC

CONSTANTS
    Sentence,      \* [claim, kind, negated, qualifiers, validated, tokens] of each
    Header,        \* the first line of a rendered summary, a sentence of kind "none"
    MaxOutput      \* limits.max_output_tokens

ASSUME SentenceAssumption ==
    /\ IsFiniteSet(DOMAIN Sentence) /\ Header \in DOMAIN Sentence
    /\ \A s \in DOMAIN Sentence : Sentence[s].tokens \in Nat

\* The sum of a function to the naturals: each x of its domain stands for f[x] units.
Units(f) == UNION {{x} \X (1..f[x]) : x \in DOMAIN f}
SumOf(f) == Cardinality(Units(f))

\* estimate_tokens, taken as additive over the sentences.
Tokens(text) == SumOf([s \in text |-> Sentence[s].tokens])

\* The tokens of the rows ids, each by itself.
Total(rows, ids) == SumOf([i \in ids |-> Tokens(rows[i].text)])

Kinds == {"decision", "constraint", "lesson", "open_question", "conflict", "fact"}
IsGuidance(kind)  == kind \in {"decision", "constraint", "lesson"}
IsProtected(kind) == kind \in {"constraint", "open_question", "conflict"}
DropPriority(kind) == CASE kind = "fact" -> 0 [] kind = "lesson" -> 1
                        [] kind = "decision" -> 2 [] OTHER -> 3

\* A source is a memory as it was read; src is a function from ids to rows.
Evidence(src, i, quote) == [id |-> i, version |-> src[i].version, quote |-> quote]

Candidate(text, kind, validated, evidence) ==
    [text |-> text, kind |-> kind, qualifiers |-> Sentence[text].qualifiers,
     validated |-> validated, evidence |-> evidence]

-----------------------------------------------------------------------------
(* The summarizers *)

\* A hedged or failed statement without a kind is kept as a fact.
KindOf(s) == IF Sentence[s].kind # "none" THEN Sentence[s].kind
             ELSE IF Sentence[s].qualifiers \cap {"uncertain", "failed_approach"} # {}
             THEN "fact" ELSE "none"

\* extract_candidates: every sentence that counts, with all who say it.
Extracted(src) ==
    {Candidate(s, KindOf(s), Sentence[s].validated,
               {Evidence(src, i, s) : i \in {j \in DOMAIN src : s \in src[j].text}})
       : s \in {t \in UNION {src[i].text : i \in DOMAIN src} : KindOf(t) # "none"}}

\* parse_claims: a model may say and quote what it likes; the version is that of
\* the source it names, 0 for one that was not sent.
Proposed(src) ==
    {{Candidate(s, KindOf(s), Sentence[s].validated,
        {[id |-> i, version |-> IF i \in DOMAIN src THEN src[i].version ELSE 0,
          quote |-> q]})}
       : s \in {t \in DOMAIN Sentence : KindOf(t) # "none"},
         q \in DOMAIN Sentence, i \in DOMAIN src \cup {"unknown"}}

-----------------------------------------------------------------------------
(* The gate *)

Quotes(cand) == {e.quote : e \in cand.evidence}

Supported(cand) == \A q \in Quotes(cand) : Sentence[q].claim = Sentence[cand.text].claim

\* Mutant: the quote is taken on trust.
QuoteUnread(src, e) == e.id \in DOMAIN src /\ src[e.id].version = e.version

InSource(src, e) ==
    /\ e.id \in DOMAIN src /\ src[e.id].version = e.version
    /\ e.quote \in src[e.id].text

Valid(src, cand) ==
    /\ cand.evidence # {}
    /\ \A e \in cand.evidence : InSource(src, e)
    /\ Supported(cand)
    /\ Sentence[cand.text].negated = (\E q \in Quotes(cand) : Sentence[q].negated)

\* The wording of the quotes counts, not what the provider says of it.
Requalified(cand) ==
    [cand EXCEPT
        !.qualifiers = @ \cup UNION {Sentence[q].qualifiers : q \in Quotes(cand)},
        !.validated  = @ /\ \E q \in Quotes(cand) : Sentence[q].validated]

\* independent_roots: identical raw memories count once, a summary contributes
\* the roots it was built from.
RootsOf(src, ids) ==
    LET raw == {i \in ids : src[i].roots = {}} IN
    {CHOOSE i \in raw : src[i].text = t : t \in {src[i].text : i \in raw}}
    \cup UNION {src[i].roots : i \in ids}

\* promotion::decide
Status(cand, roots, origins) ==
    IF ~IsGuidance(cand.kind) THEN "candidate"
    ELSE IF cand.qualifiers \cap {"quoted_instruction", "uncertain",
                                  "failed_approach", "one_off"} # {} THEN "quarantined"
    ELSE IF origins \cap {"user", "assistant"} = {} THEN "quarantined"
    ELSE IF cand.validated \/ Cardinality(roots) >= 2 THEN "promoted"
    ELSE "candidate"

Claim(src, cand) ==
    LET ids == {e.id : e \in cand.evidence}  roots == RootsOf(src, ids) IN
    [text |-> cand.text, kind |-> cand.kind, evidence |-> cand.evidence, roots |-> roots,
     status |-> Status(cand, roots, {src[i].origin : i \in ids})]

Rendered(claims) == {Header} \cup {c.text : c \in claims}

\* Over the budget the claim of the lowest priority goes, the last one first,
\* until it fits; a protected one never.
Fits(claims) == Tokens(Rendered(claims)) <= MaxOutput
Budgeted(claims) ==
    {kept \in SUBSET claims :
        LET dropped == claims \ kept IN
        /\ Fits(kept)
        /\ \A d \in dropped : ~IsProtected(d.kind)
        /\ \A d \in dropped, k \in kept :
             IsProtected(k.kind) \/ DropPriority(d.kind) <= DropPriority(k.kind)
        /\ dropped # {} => \E d \in dropped :
             /\ \A e \in dropped : DropPriority(e.kind) <= DropPriority(d.kind)
             /\ ~Fits(kept \cup {d})}

\* min_reduction = 0.2
Reduced(src, claims) ==
    5 * Tokens(Rendered(claims)) <= 4 * Total(src, DOMAIN src)

\* gate::run: the claims that may be published; none at all means deferred.
Gate(src, cands) ==
    LET valid == {Requalified(c) : c \in {d \in cands : Valid(src, d)}} IN
    {k \in Budgeted({Claim(src, c) : c \in valid}) : k # {} /\ Reduced(src, k)}
=============================================================================
