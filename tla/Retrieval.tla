----------------------------- MODULE Retrieval -----------------------------
(***************************************************************************)
(* One CatenaService.Answer call: serve/service.py, retrieval.select and   *)
(* generate's account of a completion, after the gateway's profile load    *)
(* has found every corpus ingested, with the corpus tables changing        *)
(* underneath.  The search is one statement and each contested ruling one  *)
(* of its own.  What is selected goes to the model in the prompt and to    *)
(* the gateway, which records it, in the trace.                            *)
(*                                                                         *)
(* A ruling pointer with no corpus or no locator, which the code skips, is *)
(* a pointer that resolves to nothing: no chunk has a blank locator.       *)
(***************************************************************************)
EXTENDS Integers, Sequences, SequencesExt

CONSTANTS
    Corpora, Locators, LocusNames,
    Texts,        \* chunk texts
    Size(_),      \* len(text), in characters
    Score(_),     \* similarity of a text's vector to the query's
    Requests,     \* what the gateway may ask
    Editions,     \* what one commit of ingestion leaves of a corpus
    Stored,       \* the corpus tables a call may find
    Budget,       \* passage_budget_chars
    DefaultTopK,  \* DEFAULT_TOP_K
    MaxWrites,    \* bound on ingestion's commits during the call
    None

Ref  == [corpus : Corpora, locator : Locators]
Tier == {"binding", "governing", "advisory", "contrary", "excluded"}

\* A row of corpus.chunks.  The id counts the rows its locator has had.
Row == [id : Nat, text : Texts \cup {None}]

Locus == [locus : LocusNames, ruling : Ref]

Request == [tiers : UNION {[S -> Tier] : S \in SUBSET Corpora}, loci : Seq(Locus),
            topK : Nat, attempt : Nat]

Edition == [corpus : Corpora, texts : [Locators -> Texts \cup {None}]]

Tables == {t \in [rows : [Ref -> Row], embedded : SUBSET Ref] :
              \A r \in t.embedded : t.rows[r].text # None}

ASSUME TextsAssumption == /\ None \notin Texts
                          /\ \A t \in Texts : Size(t) \in Nat /\ Score(t) \in Int
ASSUME InputsAssumption == Requests \subseteq Request /\ Stored \subseteq Tables
\* The profile loader refuses a ruling outside the profile's corpora.
ASSUME RulingsAssumption ==
    \A q \in Requests : \A i \in DOMAIN q.loci : q.loci[i].ruling.corpus \in DOMAIN q.tiers
ASSUME EditionsAssumption == Editions \subseteq Edition
ASSUME BoundsAssumption == /\ Budget \in Nat /\ MaxWrites \in Nat
                           /\ DefaultTopK \in Nat \ {0}

VARIABLES
    rows,       \* corpus.chunks
    embedded,   \* refs with a row in corpus.chunk_embeddings
    writes,     \* ingestion commits so far, at most MaxWrites
    request,    \* the AnswerRequest
    pc,         \* where the gateway's load, then the call, is
    unprobed,   \* corpora the gateway's profile load has yet to find
    hits,       \* what the search returned, best first
    asked,      \* loci whose ruling has been looked up
    pinned,     \* rulings that resolved, in the order of their loci
    ordered,    \* retrieval.select: hits not yet considered, pinned ones first
    used,       \* characters of the budget spent
    passages,   \* what reaches the model
    candidates, \* what reaches the trace
    response    \* what the gateway receives, None before

tables == <<rows, embedded, writes>>
found  == <<hits, asked, pinned>>
chosen == <<ordered, used, passages, candidates>>
vars   == <<tables, request, pc, unprobed, found, chosen, response>>

Calling == {"receive", "search", "rulings", "select", "generate"}
Ended   == {"refused", "replied", "failed"}

---------------------------------------------------------------------------
(* The corpus tables, as ingestion leaves them.                            *)

\* An update keeps the row's id, an insert takes a new one.
CommitText(e) ==
    /\ writes < MaxWrites
    /\ writes' = writes + 1
    /\ rows' = [r \in Ref |->
          IF r.corpus # e.corpus THEN rows[r]
          ELSE [id   |-> IF rows[r].text = None /\ e.texts[r.locator] # None
                         THEN rows[r].id + 1 ELSE rows[r].id,
                text |-> e.texts[r.locator]]]
    /\ embedded' = {r \in embedded : rows'[r].text = rows[r].text}
    /\ UNCHANGED <<request, pc, unprobed, found, chosen, response>>

CommitVectors(corpus) ==
    /\ writes < MaxWrites
    /\ writes' = writes + 1
    /\ \E batch \in SUBSET {r \in Ref \ embedded : r.corpus = corpus /\ rows[r].text # None} :
          batch # {} /\ embedded' = embedded \cup batch
    /\ UNCHANGED <<rows, request, pc, unprobed, found, chosen, response>>

---------------------------------------------------------------------------
(* The gateway, before it asks.                                            *)

Exists(corpus) == \E r \in embedded : r.corpus = corpus

ProbeCorpus(corpus) ==
    /\ pc = "load"
    /\ corpus \in unprobed
    /\ Exists(corpus)
    /\ unprobed' = unprobed \ {corpus}
    /\ pc' = IF unprobed' = {} THEN "receive" ELSE "load"
    /\ UNCHANGED <<tables, request, found, chosen, response>>

LoadFails ==
    /\ pc = "load"
    /\ pc' = "refused"
    /\ UNCHANGED <<tables, request, unprobed, found, chosen, response>>

---------------------------------------------------------------------------
(* Retrieval.                                                              *)

Receive ==
    /\ pc = "receive"
    /\ pc' = IF request.attempt \in {0, 1, 2} /\ DOMAIN request.tiers # {}
             THEN "search" ELSE "failed"
    /\ UNCHANGED <<tables, request, unprobed, found, chosen, response>>

\* `spec.top_k or DEFAULT_TOP_K`.
TopK == IF request.topK = 0 THEN DefaultTopK ELSE request.topK

HitOf(ref, isPinned) == [ref |-> ref, id |-> rows[ref].id, text |-> rows[ref].text,
                         score |-> Score(rows[ref].text), pinned |-> isPinned]

Searchable == {HitOf(r, FALSE) : r \in {r \in embedded : r.corpus \in DOMAIN request.tiers}}

\* Variant: room is asked for the rulings, which the search may return as well.
SearchWithSpares ==
    /\ pc = "search"
    /\ \E n \in 0..(TopK + Len(request.loci)) : \E s \in [1..n -> Searchable] :
          /\ \A i, j \in 1..n : i < j => s[i] # s[j] /\ s[i].score >= s[j].score
          /\ hits' = s
    /\ pc' = "rulings"
    /\ UNCHANGED <<tables, request, unprobed, asked, pinned, chosen, response>>

\* The index is approximate: which rows it finds is left open.  The scan is in
\* strict order, so their order is not.
Search ==
    /\ pc = "search"
    /\ \E n \in 0..TopK : \E s \in [1..n -> Searchable] :
          /\ \A i, j \in 1..n : i < j => s[i] # s[j] /\ s[i].score >= s[j].score
          /\ hits' = s
    /\ pc' = "rulings"
    /\ UNCHANGED <<tables, request, unprobed, asked, pinned, chosen, response>>

\* Variant: a ruling that does not resolve is waited for.
ResolveRulingRetries ==
    /\ pc = "rulings"
    /\ asked < Len(request.loci)
    /\ LET ruling == request.loci[asked + 1].ruling IN
       IF ruling \in embedded
       THEN /\ asked' = asked + 1
            /\ pinned' = Append(pinned, HitOf(ruling, TRUE))
            /\ pc' = pc
       ELSE /\ asked' = 0
            /\ pinned' = <<>>
            /\ pc' = "search"
    /\ UNCHANGED <<tables, request, unprobed, hits, chosen, response>>

\* by_locator joins the vectors: a ruling without one does not resolve, and is
\* dropped rather than fatal.
ResolveRuling ==
    /\ pc = "rulings"
    /\ asked < Len(request.loci)
    /\ asked' = asked + 1
    /\ LET ruling == request.loci[asked'].ruling IN
       pinned' = IF ruling \in embedded THEN Append(pinned, HitOf(ruling, TRUE)) ELSE pinned
    /\ UNCHANGED <<tables, request, pc, unprobed, hits, chosen, response>>

\* Variant: the sort is by score, ascending.
BeginSelectionAscending ==
    /\ pc = "rulings"
    /\ asked = Len(request.loci)
    /\ ordered' = pinned \o Reverse(hits)
    /\ pc' = "select"
    /\ UNCHANGED <<tables, request, unprobed, found, used, passages, candidates, response>>

\* retrieval.select begins: pinned first, then the hits by score.
BeginSelection ==
    /\ pc = "rulings"
    /\ asked = Len(request.loci)
    /\ ordered' = pinned \o hits
    /\ pc' = "select"
    /\ UNCHANGED <<tables, request, unprobed, found, used, passages, candidates, response>>

Candidate(hit, included, reason) ==
    [ref |-> hit.ref, id |-> hit.id, score |-> hit.score, included |-> included,
     exclusion_reason |-> reason]

\* chunk ids are unique over the table; a locator's are its own.
Seen(hit) == \E i \in DOMAIN candidates : /\ candidates[i].ref = hit.ref
                                          /\ candidates[i].id = hit.id

\* Variant: a ruling has to fit like anything else.
FitsLikeAny(hit) == used + Size(hit.text) <= Budget

Fits(hit) == hit.pinned \/ used + Size(hit.text) <= Budget

\* Variant: a ruling is beside the budget rather than ahead of it.
CostUnlessPinned(hit) == IF hit.pinned THEN 0 ELSE Size(hit.text)

Cost(hit) == Size(hit.text)

\* Variant: only what survived is recorded.
ExcludedSilently(hit, reason) ==
    UNCHANGED <<used, passages, candidates>>

Excluded(hit, reason) ==
    /\ candidates' = Append(candidates, Candidate(hit, FALSE, reason))
    /\ UNCHANGED <<used, passages>>

\* Variant: a ruling that overruns the budget says so.
IncludedWithReason(hit) ==
    /\ used' = used + Cost(hit)
    /\ passages' = Append(passages, [ref |-> hit.ref, id |-> hit.id, text |-> hit.text,
                                     tier |-> request.tiers[hit.ref.corpus],
                                     score |-> hit.score, pinned |-> hit.pinned])
    /\ candidates' = Append(candidates,
                            Candidate(hit, TRUE, IF used + Size(hit.text) > Budget
                                                 THEN "context budget" ELSE ""))

Included(hit) ==
    /\ used' = used + Cost(hit)
    /\ passages' = Append(passages, [ref |-> hit.ref, id |-> hit.id, text |-> hit.text,
                                     tier |-> request.tiers[hit.ref.corpus],
                                     score |-> hit.score, pinned |-> hit.pinned])
    /\ candidates' = Append(candidates, Candidate(hit, TRUE, ""))

\* Why a hit is kept from the model; "" when it is not.
Reason(hit) ==
    IF hit.ref.corpus \notin DOMAIN request.tiers THEN "corpus not in the filter spec"
    ELSE IF ~Fits(hit) THEN "context budget" ELSE ""

\* The loop of retrieval.select, once per hit; a chunk seen before is skipped.
Consider ==
    /\ pc = "select"
    /\ ordered # <<>>
    /\ ordered' = Tail(ordered)
    /\ LET hit == Head(ordered) IN
       \/ Seen(hit) /\ UNCHANGED <<used, passages, candidates>>
       \/ ~Seen(hit) /\ Reason(hit) # "" /\ Excluded(hit, Reason(hit))
       \/ ~Seen(hit) /\ Reason(hit) = "" /\ Included(hit)
    /\ UNCHANGED <<tables, request, pc, unprobed, found, response>>

Prompt ==
    /\ pc = "select"
    /\ ordered = <<>>
    /\ pc' = "generate"
    /\ UNCHANGED <<tables, request, unprobed, found, chosen, response>>

---------------------------------------------------------------------------
(* Generation, and what becomes of a completion.                           *)

\* "foreign" is an object that is no AnswerObject, or that carries a confidence.
Completion == [choices : BOOLEAN, finish_reason : {"stop", "length"},
               content : {"answer", "foreign", "not an object", "not json"}]

\* The order of the tests is the code's: a completion cut short is a failure
\* even where what was written of it happens to parse.
Outcome(completion) ==
    IF ~completion.choices THEN "empty"
    ELSE IF completion.finish_reason = "length" THEN "truncated"
    ELSE IF completion.content = "not json" THEN "not_json"
    ELSE IF completion.content = "not an object" THEN "not_an_object"
    ELSE completion.content

Trace == [candidates |-> candidates, top_k |-> TopK]

\* A reported failure carries the retrieval it followed; an object the contract
\* does not know is an error and carries nothing.
Generate(completion) ==
    /\ pc = "generate"
    /\ IF Outcome(completion) = "foreign"
       THEN pc' = "failed" /\ response' = response
       ELSE /\ pc' = "replied"
            /\ response' = [result |-> Outcome(completion), trace |-> Trace]
    /\ UNCHANGED <<tables, request, unprobed, found, chosen>>

\* The encoder, the database, a passage that cannot be framed, a model that is
\* unreachable or times out: the call is aborted, and the trace goes with it.
CallFails ==
    /\ pc \in Calling
    /\ pc' = "failed"
    /\ UNCHANGED <<tables, request, unprobed, found, chosen, response>>

---------------------------------------------------------------------------
Init ==
    /\ \E t \in Stored : rows = t.rows /\ embedded = t.embedded
    /\ writes = 0
    /\ request \in Requests
    /\ pc = "load"
    /\ unprobed = DOMAIN request.tiers
    /\ hits = <<>> /\ asked = 0 /\ pinned = <<>>
    /\ ordered = <<>> /\ used = 0 /\ passages = <<>> /\ candidates = <<>>
    /\ response = None

Ingestion == \/ \E e \in Editions : CommitText(e)
             \/ \E corpus \in Corpora : CommitVectors(corpus)

Load == (\E corpus \in Corpora : ProbeCorpus(corpus)) \/ LoadFails

Call == \/ Receive \/ Search \/ ResolveRuling
        \/ BeginSelection \/ Consider \/ Prompt
        \/ \E completion \in Completion : Generate(completion)
        \/ CallFails

Next == Ingestion \/ Load \/ Call

Spec == Init /\ [][Next]_vars

\* A worker goes on, or gives up: the encoder returns, statements return or err,
\* and the request to the model carries a timeout.
FairSpec == Spec /\ WF_vars(Call)

---------------------------------------------------------------------------
(* Types.                                                                  *)

Hit == [ref : Ref, id : Nat, text : Texts, score : Int, pinned : BOOLEAN]

Passage == [ref : Ref, id : Nat, text : Texts, tier : Tier, score : Int,
            pinned : BOOLEAN]

Reasons == {"", "corpus not in the filter spec", "context budget"}

TraceCandidate == [ref : Ref, id : Nat, score : Int, included : BOOLEAN,
                   exclusion_reason : Reasons]

TypeOK ==
    /\ rows \in [Ref -> Row]
    /\ embedded \subseteq {r \in Ref : rows[r].text # None}
    /\ writes \in 0..MaxWrites
    /\ request \in Requests
    /\ pc \in {"load"} \cup Calling \cup Ended
    /\ unprobed \subseteq DOMAIN request.tiers
    /\ hits \in Seq(Hit) /\ Len(hits) <= TopK
    /\ asked \in 0..Len(request.loci)
    /\ pinned \in Seq(Hit) /\ Len(pinned) <= asked
    /\ ordered \in Seq(Hit)
    /\ used \in Nat
    /\ passages \in Seq(Passage)
    /\ candidates \in Seq(TraceCandidate)
    /\ response \in [result : {"answer", "empty", "truncated", "not_json", "not_an_object"},
                     trace : [candidates : Seq(TraceCandidate), top_k : Nat]] \cup {None}

---------------------------------------------------------------------------
(* What reaches the model.                                                 *)

\* Every ruling that resolved is before the model in the words a lookup of it
\* found, however little room there is and whatever the search, an earlier
\* statement, returned of the same chunk (retrieval.py, select: pinned).
RulingsReachTheModel ==
    pc = "generate" =>
        \A i \in DOMAIN pinned :
            \E k \in DOMAIN passages : \E j \in DOMAIN pinned :
                /\ passages[k].ref = pinned[i].ref
                /\ pinned[j].ref = pinned[i].ref /\ passages[k].text = pinned[j].text

AddUp(costs) == LET upto[k \in 0..Len(costs)] == IF k = 0 THEN 0 ELSE upto[k - 1] + costs[k]
                IN  upto[Len(costs)]

\* Characters of the passages at places K.
Total(passed, K) == AddUp([k \in DOMAIN passed |-> IF k \in K THEN Size(passed[k].text) ELSE 0])

\* Past the budget a model's server truncates the prompt in silence.  Rulings
\* alone may overrun it; with any other passage in the prompt, all of it, the
\* rulings included, fits (retrieval.py, select).
BudgetHeld ==
    (\E k \in DOMAIN passages : ~passages[k].pinned) => Total(passages, DOMAIN passages) <= Budget

\* A chunk found and kept from the model was kept from it by rulings and by
\* chunks at least as close to the question, and would not have fitted with
\* them: never by a worse one (retrieval.py, select: highest score first).
LeftOutForBetter ==
    \A i \in DOMAIN hits : \A c \in DOMAIN candidates :
        (/\ candidates[c].ref = hits[i].ref /\ candidates[c].id = hits[i].id
         /\ ~candidates[c].included)
        => Total(passages, {k \in DOMAIN passages : \/ passages[k].pinned
                                                     \/ passages[k].score >= hits[i].score})
               + Size(hits[i].text) > Budget

---------------------------------------------------------------------------
(* What reaches the trace.                                                 *)

\* Every chunk either statement returned is accounted for once, and as included
\* exactly when the model saw it: "a trace that recorded only what survived
\* would hide the drop entirely" (retrieval.py).
EveryHitHasOneFate ==
    pc = "generate" =>
        \A i \in DOMAIN (pinned \o hits) :
            LET hit == (pinned \o hits)[i]
                fates == {k \in DOMAIN candidates : /\ candidates[k].ref = hit.ref
                                                    /\ candidates[k].id = hit.id}
            IN  \E k \in fates :
                   /\ fates = {k}
                   /\ candidates[k].included
                         <=> \E p \in DOMAIN passages : /\ passages[p].ref = hit.ref
                                                        /\ passages[p].id = hit.id

\* The gateway's trace.validate accepts every trace Catena sends, that of a
\* failed generation included: otherwise the turn is verified and then lost
\* (store.go, validate).
TraceIsRecordable ==
    response # None =>
        /\ response.trace.top_k > 0
        /\ \A k \in DOMAIN response.trace.candidates :
              LET candidate == response.trace.candidates[k] IN
              candidate.included <=> candidate.exclusion_reason = ""

\* Every call received is answered or aborted.
CallEnds == pc = "receive" ~> pc \in Ended

---------------------------------------------------------------------------
(* What a test says and the code does not keep.                            *)

\* test_serve_service.py:202 says a ruling that is not ingested is refused by the
\* gateway's profile load: so past it every ruling resolves.
AdmittedRulingsResolve == pc \in Calling => Len(pinned) = asked
=============================================================================
