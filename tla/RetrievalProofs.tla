-------------------------- MODULE RetrievalProofs --------------------------
(***************************************************************************)
(* Proofs about Retrieval, for every corpus, request, budget and size of a *)
(* passage, whatever the search finds and whatever ingestion commits while *)
(* the call runs.                                                          *)
(***************************************************************************)
EXTENDS Retrieval, ProofLemmas

---------------------------------------------------------------------------
(* Adding up.                                                              *)

\* Whatever adds up like the sum is the sum.
LEMMA SumIs ==
    ASSUME NEW costs \in Seq(Nat), NEW upto \in [0..Len(costs) -> Nat], upto[0] = 0,
           \A k \in 1..Len(costs) : upto[k] = upto[k - 1] + costs[k]
    PROVE  AddUp(costs) = upto[Len(costs)]
  <1> DEFINE step(f) == [k \in 0..Len(costs) |-> IF k = 0 THEN 0 ELSE f[k - 1] + costs[k]]
             sums == CHOOSE f : f = step(f)
  <1>1. AddUp(costs) = sums[Len(costs)]
    BY DEF AddUp
  <1>2. upto = step(upto)
    <2>1. upto = [k \in 0..Len(costs) |-> upto[k]]
      OBVIOUS
    <2>2. \A k \in 0..Len(costs) : upto[k] = IF k = 0 THEN 0 ELSE upto[k - 1] + costs[k]
      OBVIOUS
    <2> QED
      BY <2>1, <2>2
  <1>3. sums = step(sums)
    BY <1>2
  <1> HIDE DEF sums
  <1>4. \A k \in 0..Len(costs) : sums[k] = upto[k]
    <2> DEFINE T == {k \in 0..Len(costs) : sums[k] # upto[k]}
    <2>1. SUFFICES ASSUME T # {} PROVE FALSE
      OBVIOUS
    <2>2. T \subseteq Nat
      OBVIOUS
    <2>3. PICK k \in T : \A j \in T : k <= j
      <3> HIDE DEF T
      <3> QED
        BY <2>1, <2>2, LeastNat
    <2>4. k # 0 /\ k \in 1..Len(costs)
      BY <1>3
    <2>5. k - 1 \in 0..Len(costs) /\ k - 1 \notin T
      BY <2>3, <2>4
    <2>6. sums[k - 1] = upto[k - 1]
      BY <2>5
    <2>7. sums[k] = sums[k - 1] + costs[k]
      BY <1>3, <2>4
    <2> QED
      BY <2>4, <2>6, <2>7
  <1> QED
    BY <1>1, <1>4

AddsUp(upto, costs, n) ==
    /\ upto \in [0..n -> Nat] /\ upto[0] = 0
    /\ \A k \in 1..n : upto[k] = upto[k - 1] + costs[k]

\* Any costs add up.
LEMMA PartialSums ==
    ASSUME NEW costs \in Seq(Nat)
    PROVE  \E upto : AddsUp(upto, costs, Len(costs))
  <1> DEFINE T == {n \in 0..Len(costs) : ~\E upto : AddsUp(upto, costs, n)}
  <1>1. SUFFICES ASSUME T # {} PROVE FALSE
    <2>1. Len(costs) \in 0..Len(costs)
      OBVIOUS
    <2> QED
      BY <2>1
  <1>2. PICK n \in T : \A j \in T : n <= j
    <2>1. T \subseteq Nat
      OBVIOUS
    <2> HIDE DEF T
    <2> QED
      BY <1>1, <2>1, LeastNat
  <1>3. n # 0
    <2>1. AddsUp([k \in 0..0 |-> 0], costs, 0)
      BY DEF AddsUp
    <2> QED
      BY <1>2, <2>1
  <1>4. PICK upto : AddsUp(upto, costs, n - 1)
    <2>1. n - 1 \in 0..Len(costs) /\ n - 1 \notin T
      BY <1>2, <1>3
    <2> QED
      BY <2>1
  <1> DEFINE more == [k \in 0..n |-> IF k = n THEN upto[n - 1] + costs[n] ELSE upto[k]]
  <1>5. n \in 1..Len(costs) /\ costs[n] \in Nat /\ upto[n - 1] \in Nat
    BY <1>3, <1>4 DEF AddsUp
  <1>6. AddsUp(more, costs, n)
    BY <1>4, <1>5 DEF AddsUp
  <1> QED
    BY <1>6

LEMMA SumAppend ==
    ASSUME NEW costs \in Seq(Nat), NEW x \in Nat
    PROVE  AddUp(costs) \in Nat /\ AddUp(Append(costs, x)) = AddUp(costs) + x
  <1>1. PICK upto : AddsUp(upto, costs, Len(costs))
    BY PartialSums
  <1>2. AddUp(costs) = upto[Len(costs)] /\ upto[Len(costs)] \in Nat
    BY <1>1, SumIs DEF AddsUp
  <1> DEFINE n == Len(costs) + 1
             all == Append(costs, x)
             more == [k \in 0..n |-> IF k = n THEN upto[n - 1] + x ELSE upto[k]]
  <1>3. all \in Seq(Nat) /\ Len(all) = n /\ all[n] = x /\ \A k \in 1..Len(costs) : all[k] = costs[k]
    OBVIOUS
  <1>4. more \in [0..n -> Nat] /\ more[0] = 0 /\ more[n] = upto[n - 1] + x
    BY <1>1 DEF AddsUp
  <1>5. \A k \in 1..n : more[k] = more[k - 1] + all[k]
    BY <1>1, <1>3 DEF AddsUp
  <1> HIDE DEF all, more
  <1>6. AddUp(all) = more[n]
    BY <1>3, <1>4, <1>5, SumIs
  <1> QED
    BY <1>2, <1>4, <1>6 DEF all

LEMMA SumEmpty == AddUp(<<>>) = 0
  <1> DEFINE upto == [k \in 0..0 |-> 0]
  <1>1. <<>> \in Seq(Nat) /\ Len(<<>>) = 0 /\ upto \in [0..0 -> Nat] /\ upto[0] = 0
        /\ \A k \in 1..Len(<<>>) : upto[k] = upto[k - 1] + <<>>[k]
    OBVIOUS
  <1> HIDE DEF upto
  <1> QED
    BY <1>1, SumIs

---------------------------------------------------------------------------
(* Types.                                                                  *)

LEMMA HeadAndTail ==
    ASSUME NEW S, NEW s \in Seq(S), s # <<>>
    PROVE  /\ Head(s) = s[1] /\ 1 \in DOMAIN s /\ Head(s) \in S
           /\ Tail(s) \in Seq(S) /\ Len(Tail(s)) = Len(s) - 1
           /\ \A k \in DOMAIN Tail(s) : k + 1 \in DOMAIN s /\ Tail(s)[k] = s[k + 1]
    OBVIOUS

LEMMA RequestType ==
    ASSUME TypeOK
    PROVE  /\ request \in Request /\ request.loci \in Seq(Locus) /\ Len(request.loci) \in Nat
           /\ DOMAIN request.tiers \subseteq Corpora
           /\ \A c \in DOMAIN request.tiers : request.tiers[c] \in Tier
           /\ \A i \in DOMAIN request.loci : /\ request.loci[i].ruling \in Ref
                                             /\ request.loci[i].ruling.corpus \in DOMAIN request.tiers
           /\ TopK \in Nat \ {0}
  <1>1. request \in Request /\ request \in Requests
    BY InputsAssumption DEF TypeOK
  <1>2. TopK \in Nat \ {0}
    BY <1>1, BoundsAssumption DEF TopK, Request
  <1>3. request.loci \in Seq(Locus) /\ Len(request.loci) \in Nat
    BY <1>1 DEF Request
  <1>4. ASSUME NEW i \in DOMAIN request.loci PROVE request.loci[i].ruling \in Ref
    <2>1. request.loci[i] \in Locus
      BY <1>3
    <2> QED
      BY <2>1 DEF Locus
  <1>5. PICK S \in SUBSET Corpora : request.tiers \in [S -> Tier]
    BY <1>1 DEF Request
  <1> QED
    BY <1>1, <1>2, <1>3, <1>4, <1>5, RulingsAssumption

LEMMA HitType ==
    ASSUME TypeOK, NEW r \in embedded, NEW isPinned \in BOOLEAN
    PROVE  HitOf(r, isPinned) \in Hit /\ r \in Ref
  <1>1. r \in Ref /\ rows[r] \in Row /\ rows[r].text # None
    BY DEF TypeOK
  <1>2. rows[r].id \in Nat /\ rows[r].text \in Texts
    BY <1>1 DEF Row
  <1>3. Score(rows[r].text) \in Int
    BY <1>2, TextsAssumption
  <1> QED
    BY <1>1, <1>2, <1>3 DEF HitOf, Hit

LEMMA TypeCommitText ==
    ASSUME TypeOK, NEW e \in Editions, CommitText(e)
    PROVE  TypeOK'
  <1>1. e \in Edition
    BY EditionsAssumption
  <1>2. \A r \in Ref : r.locator \in Locators
    BY DEF Ref
  <1>3. \A r \in Ref : rows[r].id \in Nat /\ rows[r] \in Row
    BY DEF TypeOK, Row
  <1>4. rows' \in [Ref -> Row]
    BY <1>1, <1>2, <1>3 DEF CommitText, Edition, Row
  <1>5. embedded' \subseteq {r \in Ref : rows'[r].text # None}
    BY DEF CommitText, TypeOK
  <1>6. writes' \in 0..MaxWrites
    BY BoundsAssumption DEF CommitText, TypeOK
  <1> QED
    BY <1>4, <1>5, <1>6 DEF CommitText, TypeOK, found, chosen, TopK

LEMMA TypeCommitVectors ==
    ASSUME TypeOK, NEW corpus \in Corpora, CommitVectors(corpus)
    PROVE  TypeOK'
  <1>1. embedded' \subseteq {r \in Ref : rows[r].text # None}
    BY DEF CommitVectors, TypeOK
  <1>2. writes' \in 0..MaxWrites
    BY BoundsAssumption DEF CommitVectors, TypeOK
  <1> QED
    BY <1>1, <1>2 DEF CommitVectors, TypeOK, found, chosen, TopK

LEMMA TypeCallBegins ==
    ASSUME TypeOK, (\E corpus \in Corpora : ProbeCorpus(corpus)) \/ LoadFails \/ Receive
    PROVE  TypeOK'
    BY DEF ProbeCorpus, LoadFails, Receive, TypeOK, tables, found, chosen, TopK, Calling, Ended

LEMMA TypeSearch ==
    ASSUME TypeOK, Search
    PROVE  TypeOK'
  <1>1. PICK n \in 0..TopK : \E s \in [1..n -> Searchable] : hits' = s
    BY DEF Search
  <1>2. Searchable \subseteq Hit
    BY HitType DEF Searchable
  <1>3. hits' \in [1..n -> Hit] /\ n \in Nat
    BY <1>1, <1>2, RequestType
  <1>4. hits' \in Seq(Hit) /\ Len(hits') <= TopK
    BY <1>1, <1>3, RequestType
  <1> QED
    BY <1>4 DEF Search, TypeOK, tables, chosen, TopK, Calling

LEMMA TypeResolveRuling ==
    ASSUME TypeOK, ResolveRuling
    PROVE  TypeOK'
  <1>1. asked' = asked + 1 /\ asked < Len(request.loci) /\ asked \in Nat
    BY RequestType DEF ResolveRuling, TypeOK
  <1>2. request.loci[asked'].ruling \in embedded =>
           HitOf(request.loci[asked'].ruling, TRUE) \in Hit
    BY HitType
  <1>3. pinned' \in Seq(Hit) /\ Len(pinned') <= asked'
    <2>1. pinned \in Seq(Hit) /\ Len(pinned) \in Nat /\ Len(pinned) <= asked
      BY DEF TypeOK
    <2>2. CASE pinned' = pinned
      BY <1>1, <2>1, <2>2
    <2>3. ASSUME NEW hit \in Hit, pinned' = Append(pinned, hit)
          PROVE  pinned' \in Seq(Hit) /\ Len(pinned') <= asked'
      BY <1>1, <2>1, <2>3
    <2> QED
      BY <1>2, <2>2, <2>3 DEF ResolveRuling
  <1>4. asked' \in 0..Len(request.loci)
    BY <1>1, RequestType
  <1> QED
    BY <1>3, <1>4 DEF ResolveRuling, TypeOK, tables, chosen, TopK

LEMMA TypeSelect ==
    ASSUME TypeOK, BeginSelection \/ Prompt
    PROVE  TypeOK'
  <1>1. pinned \o hits \in Seq(Hit)
    BY DEF TypeOK
  <1> QED
    BY <1>1 DEF BeginSelection, Prompt, TypeOK, tables, found, chosen, TopK, Calling

\* What a hit let in is recorded with (the empty string stops the SMT backend).
NoReason == ""

\* What a hit is recorded as, and what the model is given of it.
PassageOf(hit, tier) == [ref |-> hit.ref, id |-> hit.id, text |-> hit.text, tier |-> tier,
                         score |-> hit.score, pinned |-> hit.pinned]

LEMMA CandidateType ==
    ASSUME NEW hit \in Hit, NEW included \in BOOLEAN, NEW reason \in Reasons
    PROVE  Candidate(hit, included, reason) \in TraceCandidate
    BY DEF Candidate, TraceCandidate, Hit

LEMMA PassageType ==
    ASSUME NEW hit \in Hit, NEW tier \in Tier
    PROVE  PassageOf(hit, tier) \in Passage /\ Size(hit.text) \in Nat
    BY TextsAssumption DEF PassageOf, Passage, Hit

\* The three things that can become of the hit considered.
LEMMA Considered ==
    ASSUME TypeOK, Consider
    PROVE  LET hit  == Head(ordered)
               tier == request.tiers[hit.ref.corpus]
           IN  /\ hit \in Hit /\ ordered' \in Seq(Hit) /\ ordered' = Tail(ordered)
               /\ pc = "select" /\ ordered # <<>>
               /\ UNCHANGED <<tables, request, pc, unprobed, found, response>>
               /\ \/ Seen(hit) /\ UNCHANGED <<used, passages, candidates>>
                  \/ \E reason \in Reasons \ {NoReason} :
                        /\ ~Seen(hit) /\ reason = Reason(hit)
                        /\ candidates' = Append(candidates, Candidate(hit, FALSE, reason))
                        /\ Candidate(hit, FALSE, reason) \in TraceCandidate
                        /\ UNCHANGED <<used, passages>>
                  \/ /\ ~Seen(hit) /\ tier \in Tier /\ Fits(hit)
                     /\ Size(hit.text) \in Nat /\ used' = used + Size(hit.text)
                     /\ PassageOf(hit, tier) \in Passage
                     /\ passages' = Append(passages, PassageOf(hit, tier))
                     /\ candidates' = Append(candidates, Candidate(hit, TRUE, NoReason))
                     /\ Candidate(hit, TRUE, NoReason) \in TraceCandidate
  <1> DEFINE hit  == Head(ordered)
             tier == request.tiers[hit.ref.corpus]
  <1>1. hit \in Hit /\ ordered' \in Seq(Hit)
    BY HeadAndTail DEF Consider, TypeOK
  <1>2. \/ Seen(hit) /\ UNCHANGED <<used, passages, candidates>>
        \/ ~Seen(hit) /\ Reason(hit) # NoReason /\ Excluded(hit, Reason(hit))
        \/ ~Seen(hit) /\ Reason(hit) = NoReason /\ Included(hit)
    BY DEF Consider, NoReason
  <1>3. /\ ordered' = Tail(ordered) /\ pc = "select" /\ ordered # <<>>
        /\ UNCHANGED <<tables, request, pc, unprobed, found, response>>
    BY DEF Consider
  <1> HIDE DEF hit
  <1>4. Reason(hit) \in Reasons
    BY DEF Reason, Reasons
  <1>5. CASE ~Seen(hit) /\ Reason(hit) # NoReason /\ Excluded(hit, Reason(hit))
    <2>1. Candidate(hit, FALSE, Reason(hit)) \in TraceCandidate
      BY <1>1, <1>4, CandidateType
    <2>2. /\ candidates' = Append(candidates, Candidate(hit, FALSE, Reason(hit)))
          /\ UNCHANGED <<used, passages>>
      BY <1>5 DEF Excluded
    <2> QED
      BY <1>1, <1>3, <1>4, <1>5, <2>1, <2>2 DEF hit
  <1>6. CASE ~Seen(hit) /\ Reason(hit) = NoReason /\ Included(hit)
    <2>1. tier \in Tier /\ Fits(hit)
      BY <1>6, RequestType DEF Reason, NoReason
    <2>2. Candidate(hit, TRUE, NoReason) \in TraceCandidate
      BY <1>1, CandidateType DEF Reasons, NoReason
    <2>3. PassageOf(hit, tier) \in Passage /\ Size(hit.text) \in Nat
      BY <1>1, <2>1, PassageType
    <2>4. /\ used' = used + Size(hit.text)
          /\ passages' = Append(passages, PassageOf(hit, tier))
          /\ candidates' = Append(candidates, Candidate(hit, TRUE, NoReason))
      BY <1>6 DEF Included, Cost, PassageOf, NoReason
    <2> QED
      BY <1>1, <1>3, <1>6, <2>1, <2>2, <2>3, <2>4 DEF hit
  <1> QED
    BY <1>1, <1>2, <1>3, <1>5, <1>6 DEF hit

LEMMA TypeConsider ==
    ASSUME TypeOK, Consider
    PROVE  TypeOK'
  <1>1. used' \in Nat /\ passages' \in Seq(Passage) /\ candidates' \in Seq(TraceCandidate)
    <2>1. used \in Nat /\ passages \in Seq(Passage) /\ candidates \in Seq(TraceCandidate)
      BY DEF TypeOK
    <2>2. /\ used' = used \/ \E n \in Nat : used' = used + n
          /\ passages' = passages \/ \E p \in Passage : passages' = Append(passages, p)
          /\ \/ candidates' = candidates
             \/ \E c \in TraceCandidate : candidates' = Append(candidates, c)
      BY Considered
    <2>3. used' \in Nat
      BY <2>1, <2>2
    <2>4. passages' \in Seq(Passage)
      BY <2>1, <2>2
    <2>5. candidates' \in Seq(TraceCandidate)
      BY <2>1, <2>2
    <2> QED
      BY <2>3, <2>4, <2>5
  <1>2. ordered' \in Seq(Hit)
    BY Considered
  <1> QED
    BY <1>1, <1>2 DEF Consider, TypeOK, tables, found, TopK

LEMMA TypeCallEnds ==
    ASSUME TypeOK, (\E completion \in Completion : Generate(completion)) \/ CallFails
    PROVE  TypeOK'
  <1>1. ASSUME NEW completion \in Completion, Outcome(completion) # "foreign"
        PROVE  Outcome(completion) \in {"answer", "empty", "truncated", "not_json", "not_an_object"}
    BY <1>1 DEF Outcome, Completion
  <1>2. Trace \in [candidates : Seq(TraceCandidate), top_k : Nat]
    BY RequestType DEF Trace, TypeOK
  <1>3. response' \in [result : {"answer", "empty", "truncated", "not_json", "not_an_object"},
                       trace : [candidates : Seq(TraceCandidate), top_k : Nat]] \cup {None}
    BY <1>1, <1>2 DEF Generate, CallFails, TypeOK
  <1> QED
    BY <1>3 DEF Generate, CallFails, TypeOK, tables, found, chosen, TopK, Ended

LEMMA TypeInit == Init => TypeOK
  <1> SUFFICES ASSUME Init PROVE TypeOK
    OBVIOUS
  <1>1. /\ rows \in [Ref -> Row] /\ embedded \subseteq {r \in Ref : rows[r].text # None}
    BY InputsAssumption DEF Init, Tables
  <1>2. request \in Request
    BY InputsAssumption DEF Init
  <1>3. Len(request.loci) \in Nat /\ TopK \in Nat
    BY <1>2, BoundsAssumption DEF Request, TopK
  <1> QED
    BY <1>1, <1>3, BoundsAssumption DEF Init, TypeOK

LEMMA TypeNext == TypeOK /\ [Next]_vars => TypeOK'
  <1> SUFFICES ASSUME TypeOK, [Next]_vars PROVE TypeOK'
    OBVIOUS
  <1>1. CASE UNCHANGED vars
    BY <1>1 DEF vars, tables, found, chosen, TypeOK, TopK
  <1> QED
    BY <1>1, TypeCommitText, TypeCommitVectors, TypeCallBegins, TypeSearch, TypeResolveRuling,
       TypeSelect, TypeConsider, TypeCallEnds
    DEF Next, Ingestion, Load, Call

\* A call's hits, passages, trace and response keep their types; the search returns
\* no more than top_k hits and the rulings looked up are those of the loci, in order
\* (serve/service.py, Answer).
THEOREM RetrievalTypeOKHolds == Spec => []TypeOK
  <1> QED
    BY TypeInit, TypeNext, PTL DEF Spec

---------------------------------------------------------------------------
(* What selection keeps while it goes through the hits.                    *)

\* One chunk, whatever it was found as.
Same(a, b) == a.ref = b.ref /\ a.id = b.id

\* Pinned ones first, then by score.
Before(a, b) == a.pinned \/ (~b.pinned /\ a.score >= b.score)

Retrieved(hit) == \/ \E i \in DOMAIN pinned : pinned[i] = hit
                  \/ \E i \in DOMAIN hits : hits[i] = hit

Empty == ordered = <<>> /\ passages = <<>> /\ candidates = <<>> /\ used = 0

\* What the two kinds of statement return, and that nothing is selected before.
Returned ==
    /\ pc \in {"load", "receive", "search", "rulings"} => Empty
    /\ \A i \in DOMAIN hits : ~hits[i].pinned /\ hits[i].ref.corpus \in DOMAIN request.tiers
    /\ \A i, j \in DOMAIN hits :
          i < j => hits[i].score >= hits[j].score /\ hits[i].ref # hits[j].ref
    /\ \A i \in DOMAIN pinned : pinned[i].pinned /\ pinned[i].ref.corpus \in DOMAIN request.tiers

\* What is still to be considered comes after everything that has been.
Queued ==
    /\ \A k \in DOMAIN ordered : Retrieved(ordered[k])
    /\ \A k, l \in DOMAIN ordered : k < l => Before(ordered[k], ordered[l])
    /\ \A p \in DOMAIN passages : \A l \in DOMAIN ordered : Before(passages[p], ordered[l])
    /\ \A c \in DOMAIN candidates : \A l \in DOMAIN ordered :
          ~candidates[c].included => ~ordered[l].pinned

\* One candidate for each chunk, and the passages are those included.
Matched ==
    /\ \A c, d \in DOMAIN candidates : Same(candidates[c], candidates[d]) => c = d
    /\ \A c \in DOMAIN candidates :
          candidates[c].included <=> \E p \in DOMAIN passages : Same(candidates[c], passages[p])
    /\ \A p \in DOMAIN passages : \E c \in DOMAIN candidates : Same(candidates[c], passages[p])
    /\ \A c \in DOMAIN candidates :
          candidates[c].included <=> candidates[c].exclusion_reason = NoReason
    /\ \A p \in DOMAIN passages :
          passages[p].pinned => \E j \in DOMAIN pinned : /\ Same(pinned[j], passages[p])
                                                         /\ pinned[j].text = passages[p].text

\* A ruling is before the model, in words that a lookup of it found.
Reached(hit) == \E k \in DOMAIN passages : \E j \in DOMAIN pinned :
    passages[k].ref = hit.ref /\ pinned[j].ref = hit.ref /\ passages[k].text = pinned[j].text

Waiting(hit) == \E k \in DOMAIN ordered : ordered[k] = hit

\* Nothing retrieved is lost on the way.
Gathered ==
    /\ pc = "generate" => ordered = <<>>
    /\ pc \in {"select", "generate"} =>
          /\ \A i \in DOMAIN hits : Waiting(hits[i]) \/ Seen(hits[i])
          /\ \A i \in DOMAIN pinned :
                Waiting(pinned[i]) \/ (Seen(pinned[i]) /\ Reached(pinned[i]))

Counted == used = Total(passages, DOMAIN passages)
InBudget == (\E k \in DOMAIN passages : ~passages[k].pinned) => used <= Budget

Selected == Returned /\ Queued /\ Matched /\ Gathered
Roomy == Counted /\ InBudget /\ LeftOutForBetter

SelectionVars == <<request, hits, pinned, ordered, used, passages, candidates>>

\* A step that selects nothing: ingestion's, or a turn of the call.
LEMMA KeptSelection ==
    ASSUME Selected, UNCHANGED SelectionVars,
           pc' = pc \/ pc' \in Ended
           \/ (pc \in {"load", "receive"} /\ pc' \in {"load", "receive", "search"})
           \/ (pc = "select" /\ pc' = "generate" /\ ordered = <<>>)
    PROVE  Selected'
  <1> USE DEF SelectionVars
  <1>1. Returned' /\ Queued' /\ Matched'
    BY DEF Selected, Returned, Empty, Queued, Retrieved, Matched, Ended
  <1>2. Gathered'
    BY DEF Selected, Gathered, Waiting, Seen, Reached, Ended
  <1> QED
    BY <1>1, <1>2 DEF Selected

LEMMA KeptRoom ==
    ASSUME Roomy, UNCHANGED SelectionVars
    PROVE  Roomy'
    BY DEF SelectionVars, Roomy, Counted, InBudget, LeftOutForBetter

\* No more than one hit for each row: all are rows of one snapshot.
LEMMA SelectedSearch ==
    ASSUME TypeOK, Selected, Search
    PROVE  Selected'
  <1>1. /\ pc = "search" /\ pc' = "rulings" /\ Empty
        /\ UNCHANGED <<request, pinned, ordered, used, passages, candidates>>
    BY DEF Search, Selected, Returned, chosen
  <1>2. PICK n \in 0..TopK : \E s \in [1..n -> Searchable] :
           /\ \A i, j \in 1..n : i < j => s[i] # s[j] /\ s[i].score >= s[j].score
           /\ hits' = s
    BY DEF Search
  <1>3. PICK s \in [1..n -> Searchable] :
           /\ \A i, j \in 1..n : i < j => s[i] # s[j] /\ s[i].score >= s[j].score
           /\ hits' = s
    BY <1>2
  <1>4. \A i \in 1..n : s[i] = HitOf(s[i].ref, FALSE) /\ ~s[i].pinned
                        /\ s[i].ref.corpus \in DOMAIN request.tiers
    <2> TAKE i \in 1..n
    <2>1. PICK r \in embedded : r.corpus \in DOMAIN request.tiers /\ s[i] = HitOf(r, FALSE)
      BY <1>3 DEF Searchable
    <2> QED
      BY <2>1 DEF HitOf
  <1>5. \A i, j \in 1..n : i < j => s[i].ref # s[j].ref
    BY <1>3, <1>4
  <1>6. DOMAIN hits' = 1..n
    BY <1>3
  <1>7. Returned'
    <2>1. \A i, j \in DOMAIN hits' :
             i < j => hits'[i].score >= hits'[j].score /\ hits'[i].ref # hits'[j].ref
      BY <1>3, <1>5, <1>6
    <2>2. \A i \in DOMAIN hits' : ~hits'[i].pinned /\ hits'[i].ref.corpus \in DOMAIN request'.tiers
      BY <1>1, <1>3, <1>4, <1>6
    <2> QED
      BY <1>1, <2>1, <2>2 DEF Selected, Returned, Empty
  <1>8. Queued' /\ Matched' /\ Gathered'
    BY <1>1 DEF Queued, Matched, Gathered, Empty
  <1> QED
    BY <1>7, <1>8 DEF Selected

LEMMA SelectedRuling ==
    ASSUME TypeOK, Selected, ResolveRuling
    PROVE  Selected'
  <1>1. /\ pc = "rulings" /\ pc' = pc /\ Empty
        /\ UNCHANGED <<request, hits, ordered, used, passages, candidates>>
    BY DEF ResolveRuling, Selected, Returned, chosen
  <1>2. Queued' /\ Matched' /\ Gathered'
    BY <1>1 DEF Queued, Matched, Gathered, Empty
  <1>3. \A i \in DOMAIN pinned' :
           pinned'[i].pinned /\ pinned'[i].ref.corpus \in DOMAIN request.tiers
    <2>1. \A i \in DOMAIN pinned : pinned[i].pinned /\ pinned[i].ref.corpus \in DOMAIN request.tiers
      BY DEF Selected, Returned
    <2>2. CASE pinned' = pinned
      BY <2>1, <2>2
    <2>3. CASE /\ request.loci[asked'].ruling \in embedded
               /\ pinned' = Append(pinned, HitOf(request.loci[asked'].ruling, TRUE))
      <3> DEFINE ruling == request.loci[asked'].ruling
                 hit == HitOf(ruling, TRUE)
      <3>1. asked' \in DOMAIN request.loci
        BY RequestType DEF ResolveRuling, TypeOK
      <3>2. ruling.corpus \in DOMAIN request.tiers /\ hit \in Hit
        BY <2>3, <3>1, RequestType, HitType
      <3>3. hit.pinned /\ hit.ref = ruling
        BY DEF HitOf
      <3> HIDE DEF ruling, hit
      <3>4. pinned' = Append(pinned, hit) /\ pinned \in Seq(Hit)
        BY <2>3 DEF hit, ruling, TypeOK
      <3> QED
        BY <2>1, <3>2, <3>3, <3>4, Appended
    <2> QED
      BY <2>2, <2>3 DEF ResolveRuling
  <1>4. Returned'
    BY <1>1, <1>3 DEF Selected, Returned, Empty
  <1> QED
    BY <1>2, <1>4 DEF Selected

\* Where each element of two sequences is in the one after the other.
LEMMA Joined ==
    ASSUME NEW S, NEW s \in Seq(S), NEW t \in Seq(S)
    PROVE  /\ \A k \in DOMAIN (s \o t) :
                 \/ k \in DOMAIN s /\ (s \o t)[k] = s[k]
                 \/ k - Len(s) \in DOMAIN t /\ k > Len(s) /\ (s \o t)[k] = t[k - Len(s)]
           /\ \A i \in DOMAIN s : i \in DOMAIN (s \o t) /\ (s \o t)[i] = s[i] /\ i <= Len(s)
           /\ \A i \in DOMAIN t :
                 i + Len(s) \in DOMAIN (s \o t) /\ (s \o t)[i + Len(s)] = t[i]
           /\ Len(s) \in Nat /\ DOMAIN (s \o t) \subseteq Nat
    OBVIOUS

LEMMA SelectedBegins ==
    ASSUME TypeOK, Selected, BeginSelection
    PROVE  Selected'
  <1>1. /\ pc = "rulings" /\ pc' = "select" /\ Empty /\ ordered' = pinned \o hits
        /\ UNCHANGED <<request, hits, pinned, used, passages, candidates>>
    BY DEF BeginSelection, Selected, Returned, found
  <1>2. pinned \in Seq(Hit) /\ hits \in Seq(Hit)
    BY DEF TypeOK
  <1>3. Returned'
    BY <1>1 DEF Selected, Returned
  <1>4. \A k \in DOMAIN ordered' :
           \/ k \in DOMAIN pinned /\ ordered'[k] = pinned[k]
           \/ /\ k - Len(pinned) \in DOMAIN hits /\ k > Len(pinned)
              /\ ordered'[k] = hits[k - Len(pinned)]
    BY <1>1, <1>2, Joined
  <1>5. Len(pinned) \in Nat /\ DOMAIN ordered' \subseteq Nat
        /\ \A i \in DOMAIN pinned : i <= Len(pinned)
    BY <1>1, <1>2, Joined
  <1>6. Queued'
    <2>1. \A k \in DOMAIN ordered' : \/ \E i \in DOMAIN pinned' : pinned'[i] = ordered'[k]
                                    \/ \E i \in DOMAIN hits' : hits'[i] = ordered'[k]
      BY <1>1, <1>4
    <2>2. ASSUME NEW k \in DOMAIN ordered', NEW l \in DOMAIN ordered', k < l
          PROVE  Before(ordered'[k], ordered'[l])
      <3>1. CASE k \in DOMAIN pinned /\ ordered'[k] = pinned[k]
        BY <3>1 DEF Before, Selected, Returned
      <3>2. CASE /\ k - Len(pinned) \in DOMAIN hits /\ k > Len(pinned)
                 /\ ordered'[k] = hits[k - Len(pinned)]
        <4>1. /\ l - Len(pinned) \in DOMAIN hits /\ ordered'[l] = hits[l - Len(pinned)]
              /\ k - Len(pinned) < l - Len(pinned)
          BY <1>4, <1>5, <2>2, <3>2
        <4> QED
          BY <3>2, <4>1 DEF Before, Selected, Returned
      <3> QED
        BY <1>4, <3>1, <3>2
    <2>3. DOMAIN passages' = {} /\ DOMAIN candidates' = {}
      BY <1>1 DEF Empty
    <2> QED
      BY <2>1, <2>2, <2>3 DEF Queued, Retrieved
  <1>7. Matched'
    BY <1>1 DEF Matched, Empty
  <1>8. Gathered'
    <2>1. \A i \in DOMAIN hits : \E k \in DOMAIN ordered' : ordered'[k] = hits[i]
      <3> TAKE i \in DOMAIN hits
      <3>1. /\ i + Len(pinned) \in DOMAIN ordered'
            /\ ordered'[i + Len(pinned)] = hits[i]
        BY <1>1, <1>2, Joined
      <3> QED
        BY <3>1
    <2>2. \A i \in DOMAIN pinned : \E k \in DOMAIN ordered' : ordered'[k] = pinned[i]
      BY <1>1, <1>2, Joined
    <2> QED
      BY <1>1, <2>1, <2>2 DEF Gathered, Waiting
  <1> QED
    BY <1>3, <1>6, <1>7, <1>8 DEF Selected

---------------------------------------------------------------------------
(* The hit considered is skipped, left out or let in.                      *)

Skipped(hit) == Seen(hit) /\ UNCHANGED <<used, passages, candidates>>

LeftOut(hit) == \E c \in TraceCandidate :
    /\ ~Seen(hit) /\ Same(c, hit) /\ ~c.included /\ c.exclusion_reason # NoReason
    /\ candidates' = Append(candidates, c)
    /\ ~hit.pinned /\ used + Size(hit.text) > Budget
    /\ UNCHANGED <<used, passages>>

LetIn(hit) == \E c \in TraceCandidate, p \in Passage :
    /\ ~Seen(hit) /\ Same(c, hit) /\ c.included /\ c.exclusion_reason = NoReason
    /\ Same(p, hit) /\ p.text = hit.text /\ p.score = hit.score /\ p.pinned = hit.pinned
    /\ candidates' = Append(candidates, c) /\ passages' = Append(passages, p)
    /\ hit.pinned \/ used + Size(p.text) <= Budget
    /\ used' = used + Size(p.text)

LEMMA Outcomes ==
    ASSUME TypeOK, Selected, Consider
    PROVE  /\ pc = "select" /\ UNCHANGED <<request, pc, hits, pinned, response>>
           /\ 1 \in DOMAIN ordered /\ DOMAIN ordered \subseteq Nat
           /\ DOMAIN ordered' \subseteq Nat \ {0}
           /\ ordered[1] \in Hit /\ Retrieved(ordered[1])
           /\ \A k \in DOMAIN ordered' : k + 1 \in DOMAIN ordered /\ ordered'[k] = ordered[k + 1]
           /\ \A k \in DOMAIN ordered : k = 1 \/ \E m \in DOMAIN ordered' : ordered'[m] = ordered[k]
           /\ Skipped(ordered[1]) \/ LeftOut(ordered[1]) \/ LetIn(ordered[1])
  <1> DEFINE hit == Head(ordered)
             tier == request.tiers[hit.ref.corpus]
  <1>1. /\ pc = "select" /\ UNCHANGED <<request, pc, hits, pinned, response>>
        /\ ordered # <<>> /\ ordered' = Tail(ordered) /\ ordered \in Seq(Hit)
    BY Considered DEF found, TypeOK
  <1>0. DOMAIN ordered' \subseteq Nat \ {0}
    <2>1. ordered' \in Seq(Hit)
      BY <1>1
    <2> QED
      BY <2>1
  <1>2. /\ 1 \in DOMAIN ordered /\ DOMAIN ordered \subseteq Nat /\ hit = ordered[1] /\ hit \in Hit
        /\ \A k \in DOMAIN ordered' : k + 1 \in DOMAIN ordered /\ ordered'[k] = ordered[k + 1]
    BY <1>1, HeadAndTail
  <1>3. \A k \in DOMAIN ordered : k = 1 \/ \E m \in DOMAIN ordered' : ordered'[m] = ordered[k]
    <2>1. ASSUME NEW k \in DOMAIN ordered, k # 1
          PROVE  k - 1 \in DOMAIN ordered' /\ ordered'[k - 1] = ordered[k]
      BY <1>1, <2>1
    <2> QED
      BY <2>1
  <1>4. Retrieved(hit) /\ hit.ref.corpus \in DOMAIN request.tiers
    <2>1. Retrieved(hit)
      BY <1>2 DEF Selected, Queued
    <2> QED
      BY <2>1 DEF Retrieved, Selected, Returned
  <1>5. Skipped(hit) \/ LeftOut(hit) \/ LetIn(hit)
    <2>1. \/ Skipped(hit)
          \/ \E reason \in Reasons \ {NoReason} :
                /\ ~Seen(hit) /\ reason = Reason(hit)
                /\ candidates' = Append(candidates, Candidate(hit, FALSE, reason))
                /\ Candidate(hit, FALSE, reason) \in TraceCandidate
                /\ UNCHANGED <<used, passages>>
          \/ /\ ~Seen(hit) /\ tier \in Tier /\ Fits(hit)
             /\ used' = used + Size(hit.text)
             /\ PassageOf(hit, tier) \in Passage
             /\ passages' = Append(passages, PassageOf(hit, tier))
             /\ candidates' = Append(candidates, Candidate(hit, TRUE, NoReason))
             /\ Candidate(hit, TRUE, NoReason) \in TraceCandidate
      BY Considered DEF Skipped
    <2> HIDE DEF hit, tier
    <2>2. ASSUME NEW reason \in Reasons \ {NoReason}, ~Seen(hit), reason = Reason(hit),
                 candidates' = Append(candidates, Candidate(hit, FALSE, reason)),
                 Candidate(hit, FALSE, reason) \in TraceCandidate, UNCHANGED <<used, passages>>
          PROVE  LeftOut(hit)
      <3>1. ~Fits(hit)
        BY <1>4, <2>2 DEF Reason, NoReason
      <3>2. Size(hit.text) \in Nat /\ used \in Nat
        BY <1>2, TextsAssumption DEF Hit, TypeOK, hit
      <3>3. ~hit.pinned /\ used + Size(hit.text) > Budget
        <4>1. ~hit.pinned
          BY <3>1 DEF Fits
        <4>2. ~(used + Size(hit.text) <= Budget)
          BY <3>1 DEF Fits
        <4>3. used + Size(hit.text) > Budget
          BY <3>2, <4>2, BoundsAssumption
        <4> QED
          BY <4>1, <4>3
      <3> DEFINE c == Candidate(hit, FALSE, reason)
      <3>4. Same(c, hit) /\ ~c.included /\ c.exclusion_reason # NoReason
        BY DEF Candidate, Same
      <3> QED
        BY <2>2, <3>3, <3>4 DEF LeftOut
    <2>3. ASSUME ~Seen(hit), Fits(hit), used' = used + Size(hit.text),
                 PassageOf(hit, tier) \in Passage,
                 passages' = Append(passages, PassageOf(hit, tier)),
                 candidates' = Append(candidates, Candidate(hit, TRUE, NoReason)),
                 Candidate(hit, TRUE, NoReason) \in TraceCandidate
          PROVE  LetIn(hit)
      <3> DEFINE c == Candidate(hit, TRUE, NoReason)
                 p == PassageOf(hit, tier)
      <3>1. Same(c, hit) /\ c.included /\ c.exclusion_reason = NoReason
        BY DEF Candidate, Same
      <3>2. Same(p, hit) /\ p.text = hit.text /\ p.score = hit.score /\ p.pinned = hit.pinned
        BY DEF PassageOf, Same
      <3>3. hit.pinned \/ used + Size(p.text) <= Budget
        BY <2>3, <3>2 DEF Fits
      <3> HIDE DEF c, p
      <3>4. /\ c \in TraceCandidate /\ p \in Passage
            /\ candidates' = Append(candidates, c) /\ passages' = Append(passages, p)
            /\ used' = used + Size(p.text)
        BY <2>3, <3>2 DEF c, p
      <3> QED
        BY <2>3, <3>1, <3>2, <3>3, <3>4 DEF LetIn
    <2> QED
      BY <2>1, <2>2, <2>3
  <1> QED
    BY <1>0, <1>1, <1>2, <1>3, <1>4, <1>5

LEMMA AppendedTo ==
    ASSUME NEW S, NEW s \in Seq(S), NEW e \in S, NEW t, t = Append(s, e)
    PROVE  /\ DOMAIN t = DOMAIN s \cup {Len(s) + 1}
           /\ \A i \in DOMAIN s : t[i] = s[i]
           /\ t[Len(s) + 1] = e
    BY Appended

LEMMA ConsideredQueue ==
    ASSUME TypeOK, Selected, Consider
    PROVE  Queued'
  <1> DEFINE hit == ordered[1]
  <1>1. /\ 1 \in DOMAIN ordered /\ DOMAIN ordered \subseteq Nat /\ hit \in Hit
        /\ UNCHANGED <<hits, pinned>>
        /\ \A k \in DOMAIN ordered' : k + 1 \in DOMAIN ordered /\ ordered'[k] = ordered[k + 1]
        /\ Skipped(hit) \/ LeftOut(hit) \/ LetIn(hit)
    BY Outcomes
  <1>2. DOMAIN ordered' \subseteq Nat \ {0}
    BY Outcomes
  <1>3. Queued
    BY DEF Selected
  <1>4. ASSUME NEW k \in DOMAIN ordered' PROVE Before(hit, ordered'[k])
    <2>1. k + 1 \in DOMAIN ordered /\ 1 < k + 1 /\ ordered'[k] = ordered[k + 1]
      BY <1>1, <1>2
    <2> QED
      BY <1>1, <1>3, <2>1 DEF Queued
  <1>5. \A k \in DOMAIN ordered' : Retrieved(ordered'[k])
    BY <1>1, <1>3 DEF Queued
  <1>6. \A k, l \in DOMAIN ordered' : k < l => Before(ordered'[k], ordered'[l])
    <2> TAKE k \in DOMAIN ordered', l \in DOMAIN ordered'
    <2>1. /\ k + 1 \in DOMAIN ordered /\ ordered'[k] = ordered[k + 1]
          /\ l + 1 \in DOMAIN ordered /\ ordered'[l] = ordered[l + 1]
          /\ k < l => k + 1 < l + 1
      BY <1>1, <1>2
    <2> QED
      BY <1>3, <2>1 DEF Queued
  <1>7. \A p \in DOMAIN passages : \A k \in DOMAIN ordered' : Before(passages[p], ordered'[k])
    BY <1>1, <1>3 DEF Queued
  <1>8. \A c \in DOMAIN candidates : \A k \in DOMAIN ordered' :
           ~candidates[c].included => ~ordered'[k].pinned
    BY <1>1, <1>3 DEF Queued
  <1> HIDE DEF hit
  <1>9. \A p \in DOMAIN passages' : \A k \in DOMAIN ordered' : Before(passages'[p], ordered'[k])
    <2>1. CASE UNCHANGED passages
      BY <1>7, <2>1
    <2>2. CASE LetIn(hit)
      <3>1. PICK p \in Passage : /\ p.score = hit.score /\ p.pinned = hit.pinned
                                 /\ passages' = Append(passages, p)
        BY <2>2 DEF LetIn
      <3>2. \A k \in DOMAIN ordered' : Before(p, ordered'[k])
        BY <1>4, <3>1 DEF Before
      <3> QED
        BY <1>7, <3>1, <3>2, Appended DEF TypeOK
    <2> QED
      BY <1>1, <2>1, <2>2 DEF Skipped, LeftOut
  <1>10. \A c \in DOMAIN candidates' : \A k \in DOMAIN ordered' :
            ~candidates'[c].included => ~ordered'[k].pinned
    <2>1. CASE UNCHANGED candidates
      BY <1>8, <2>1
    <2>2. CASE LeftOut(hit) \/ LetIn(hit)
      <3>1. PICK c \in TraceCandidate : /\ candidates' = Append(candidates, c)
                                        /\ ~c.included => ~hit.pinned
        BY <2>2 DEF LetIn, LeftOut
      <3>2. \A k \in DOMAIN ordered' : ~c.included => ~ordered'[k].pinned
        BY <1>4, <3>1 DEF Before
      <3> QED
        BY <1>8, <3>1, <3>2, Appended DEF TypeOK
    <2> QED
      BY <1>1, <2>1, <2>2 DEF Skipped
  <1> QED
    BY <1>1, <1>5, <1>6, <1>9, <1>10 DEF Queued, Retrieved

LEMMA ConsideredMatched ==
    ASSUME TypeOK, Selected, Consider
    PROVE  Matched'
  <1> DEFINE hit == ordered[1]
  <1>1. /\ Matched /\ UNCHANGED pinned /\ hit \in Hit /\ Retrieved(hit)
        /\ Skipped(hit) \/ LeftOut(hit) \/ LetIn(hit)
    BY Outcomes DEF Selected
  <1>2. \A i \in DOMAIN hits : ~hits[i].pinned
    BY DEF Selected, Returned
  <1>6. candidates \in Seq(TraceCandidate) /\ passages \in Seq(Passage)
    BY DEF TypeOK
  <1>7. \A p \in DOMAIN passages : \E d \in DOMAIN candidates : Same(candidates[d], passages[p])
    BY <1>1 DEF Matched
  <1>8. \A d, e \in DOMAIN candidates : Same(candidates[d], candidates[e]) => d = e
    BY <1>1 DEF Matched
  <1>9. \A d \in DOMAIN candidates :
           /\ candidates[d].included <=> \E p \in DOMAIN passages : Same(candidates[d], passages[p])
           /\ candidates[d].included <=> candidates[d].exclusion_reason = NoReason
    BY <1>1 DEF Matched
  <1> HIDE DEF hit
  <1>3. CASE Skipped(hit)
    BY <1>1, <1>3 DEF Skipped, Matched
  <1>4. CASE LeftOut(hit)
    <2>1. PICK c \in TraceCandidate :
             /\ ~Seen(hit) /\ Same(c, hit) /\ ~c.included /\ c.exclusion_reason # NoReason
             /\ candidates' = Append(candidates, c) /\ UNCHANGED passages
      BY <1>4 DEF LeftOut
    <2>2. \A d \in DOMAIN candidates : ~Same(candidates[d], c)
      BY <2>1 DEF Seen, Same
    <2>3. \A p \in DOMAIN passages : ~Same(c, passages[p])
      BY <1>7, <2>2 DEF Same
    <2>4. /\ DOMAIN candidates' = DOMAIN candidates \cup {Len(candidates) + 1}
          /\ \A i \in DOMAIN candidates : candidates'[i] = candidates[i]
          /\ candidates'[Len(candidates) + 1] = c
      BY <1>6, <2>1, AppendedTo
    <2>5. \A d, e \in DOMAIN candidates' : Same(candidates'[d], candidates'[e]) => d = e
      BY <1>8, <2>2, <2>4 DEF Same
    <2>6. \A d \in DOMAIN candidates' :
             /\ candidates'[d].included
                   <=> \E p \in DOMAIN passages' : Same(candidates'[d], passages'[p])
             /\ candidates'[d].included <=> candidates'[d].exclusion_reason = NoReason
      BY <1>9, <2>1, <2>3, <2>4
    <2>7. \A p \in DOMAIN passages' : \E d \in DOMAIN candidates' : Same(candidates'[d], passages'[p])
      BY <1>7, <2>1, <2>4
    <2> QED
      BY <1>1, <2>1, <2>5, <2>6, <2>7 DEF Matched
  <1>5. CASE LetIn(hit)
    <2>1. PICK c \in TraceCandidate, p \in Passage :
             /\ ~Seen(hit) /\ Same(c, hit) /\ c.included /\ c.exclusion_reason = NoReason
             /\ Same(p, hit) /\ p.text = hit.text /\ p.pinned = hit.pinned
             /\ candidates' = Append(candidates, c) /\ passages' = Append(passages, p)
      BY <1>5 DEF LetIn
    <2>2. \A d \in DOMAIN candidates : ~Same(candidates[d], c) /\ ~Same(candidates[d], p)
      BY <2>1 DEF Seen, Same
    <2>3. Same(c, p)
      BY <2>1 DEF Same
    <2>4. /\ DOMAIN candidates' = DOMAIN candidates \cup {Len(candidates) + 1}
          /\ \A i \in DOMAIN candidates : candidates'[i] = candidates[i]
          /\ candidates'[Len(candidates) + 1] = c
      BY <1>6, <2>1, AppendedTo
    <2>5. /\ DOMAIN passages' = DOMAIN passages \cup {Len(passages) + 1}
          /\ \A i \in DOMAIN passages : passages'[i] = passages[i]
          /\ passages'[Len(passages) + 1] = p
      BY <1>6, <2>1, AppendedTo
    <2>6. \A d, e \in DOMAIN candidates' : Same(candidates'[d], candidates'[e]) => d = e
      BY <1>8, <2>2, <2>4 DEF Same
    <2>7. \A d \in DOMAIN candidates' :
             /\ candidates'[d].included
                   <=> \E q \in DOMAIN passages' : Same(candidates'[d], passages'[q])
             /\ candidates'[d].included <=> candidates'[d].exclusion_reason = NoReason
      BY <1>7, <1>9, <2>1, <2>2, <2>3, <2>4, <2>5
    <2>8. \A q \in DOMAIN passages' : \E d \in DOMAIN candidates' : Same(candidates'[d], passages'[q])
      BY <1>7, <2>3, <2>4, <2>5
    <2>9. \A q \in DOMAIN passages' :
             passages'[q].pinned => \E j \in DOMAIN pinned : /\ Same(pinned[j], passages'[q])
                                                             /\ pinned[j].text = passages'[q].text
      <3>1. p.pinned => \E j \in DOMAIN pinned : Same(pinned[j], p) /\ pinned[j].text = p.text
        BY <1>1, <1>2, <2>1 DEF Retrieved, Same
      <3> QED
        BY <1>1, <2>5, <3>1 DEF Matched
    <2> QED
      BY <1>1, <2>6, <2>7, <2>8, <2>9 DEF Matched
  <1> QED
    BY <1>1, <1>3, <1>4, <1>5

LEMMA ConsideredGathered ==
    ASSUME TypeOK, Selected, Consider
    PROVE  Gathered'
  <1> DEFINE hit == ordered[1]
  <1>1. /\ pc = "select" /\ UNCHANGED <<pc, hits, pinned>>
        /\ 1 \in DOMAIN ordered /\ hit \in Hit /\ Retrieved(hit)
        /\ \A k \in DOMAIN ordered : k = 1 \/ \E m \in DOMAIN ordered' : ordered'[m] = ordered[k]
        /\ Skipped(hit) \/ LeftOut(hit) \/ LetIn(hit)
    BY Outcomes
  <1>2. candidates \in Seq(TraceCandidate) /\ passages \in Seq(Passage)
    BY DEF TypeOK
  <1>3. /\ \A i \in DOMAIN hits : Waiting(hits[i]) \/ Seen(hits[i])
        /\ \A i \in DOMAIN pinned :
              Waiting(pinned[i]) \/ (Seen(pinned[i]) /\ Reached(pinned[i]))
    BY <1>1 DEF Selected, Gathered
  <1>4. \A h : Waiting(h) => h = hit \/ \E k \in DOMAIN ordered' : ordered'[k] = h
    BY <1>1 DEF Waiting
  <1>5. hit.pinned => \E j \in DOMAIN pinned : pinned[j] = hit
    BY <1>1 DEF Retrieved, Selected, Returned
  <1>6. /\ \A p \in DOMAIN passages : Before(passages[p], hit)
        /\ \A c \in DOMAIN candidates : ~candidates[c].included => ~hit.pinned
    BY <1>1 DEF Selected, Queued
  <1> HIDE DEF hit
  <1>7. /\ \A d \in DOMAIN candidates : d \in DOMAIN candidates' /\ candidates'[d] = candidates[d]
        /\ \A p \in DOMAIN passages : p \in DOMAIN passages' /\ passages'[p] = passages[p]
    <2>1. candidates' = candidates \/ \E c \in TraceCandidate : candidates' = Append(candidates, c)
      BY <1>1 DEF Skipped, LeftOut, LetIn
    <2>2. passages' = passages \/ \E p \in Passage : passages' = Append(passages, p)
      BY <1>1 DEF Skipped, LeftOut, LetIn
    <2>3. ASSUME NEW c \in TraceCandidate, candidates' = Append(candidates, c)
          PROVE  \A d \in DOMAIN candidates : d \in DOMAIN candidates' /\ candidates'[d] = candidates[d]
      BY <1>2, <2>3, AppendedTo
    <2>4. ASSUME NEW p \in Passage, passages' = Append(passages, p)
          PROVE  \A q \in DOMAIN passages : q \in DOMAIN passages' /\ passages'[q] = passages[q]
      BY <1>2, <2>4, AppendedTo
    <2> QED
      BY <2>1, <2>2, <2>3, <2>4
  <1>8. \E d \in DOMAIN candidates' : Same(candidates'[d], hit)
    <2>1. CASE Skipped(hit)
      BY <1>7, <2>1 DEF Skipped, Seen, Same
    <2>2. CASE LeftOut(hit) \/ LetIn(hit)
      <3>1. PICK c \in TraceCandidate : Same(c, hit) /\ candidates' = Append(candidates, c)
        BY <2>2 DEF LeftOut, LetIn
      <3> QED
        BY <1>2, <3>1, AppendedTo
    <2> QED
      BY <1>1, <2>1, <2>2
  <1> DEFINE Given(h) == \E k \in DOMAIN passages' : \E j \in DOMAIN pinned :
                 /\ passages'[k].ref = h.ref /\ pinned[j].ref = h.ref
                 /\ passages'[k].text = pinned[j].text
  <1>9. ASSUME hit.pinned PROVE Given(hit)
    <2>1. CASE Skipped(hit)
      <3>1. PICK d \in DOMAIN candidates : Same(candidates[d], hit) /\ candidates[d].included
        BY <1>6, <1>9, <2>1 DEF Skipped, Seen, Same
      <3>2. PICK q \in DOMAIN passages : Same(candidates[d], passages[q])
        BY <3>1 DEF Selected, Matched
      <3>3. passages[q].pinned
        BY <1>6, <1>9 DEF Before
      <3>4. PICK j \in DOMAIN pinned : /\ Same(pinned[j], passages[q])
                                       /\ pinned[j].text = passages[q].text
        BY <3>3 DEF Selected, Matched
      <3> QED
        BY <1>7, <3>1, <3>2, <3>4 DEF Same
    <2>2. CASE LetIn(hit)
      <3>1. PICK p \in Passage : /\ Same(p, hit) /\ p.text = hit.text
                                 /\ passages' = Append(passages, p)
        BY <2>2 DEF LetIn
      <3>2. \E k \in DOMAIN passages' : passages'[k] = p
        BY <1>2, <3>1, AppendedTo
      <3> QED
        BY <1>5, <1>9, <3>1, <3>2 DEF Same
    <2> QED
      BY <1>1, <1>9, <2>1, <2>2 DEF LeftOut
  <1>10. \A i \in DOMAIN hits : \/ \E k \in DOMAIN ordered' : ordered'[k] = hits[i]
                                \/ \E d \in DOMAIN candidates' : Same(candidates'[d], hits[i])
    BY <1>3, <1>4, <1>7, <1>8 DEF Seen, Same
  <1>11. ASSUME NEW i \in DOMAIN pinned
         PROVE  \/ \E k \in DOMAIN ordered' : ordered'[k] = pinned[i]
                \/ /\ \E d \in DOMAIN candidates' : Same(candidates'[d], pinned[i])
                   /\ Given(pinned[i])
    <2>1. CASE Waiting(pinned[i])
      <3>1. pinned[i].pinned
        BY DEF Selected, Returned
      <3> QED
        BY <1>4, <1>8, <1>9, <2>1, <3>1
    <2>2. CASE Seen(pinned[i]) /\ Reached(pinned[i])
      <3>1. \E d \in DOMAIN candidates' : Same(candidates'[d], pinned[i])
        BY <1>7, <2>2 DEF Seen, Same
      <3>2. Given(pinned[i])
        BY <1>7, <2>2 DEF Reached
      <3> QED
        BY <3>1, <3>2
    <2> QED
      BY <1>3, <2>1, <2>2
  <1> QED
    BY <1>1, <1>10, <1>11 DEF Gathered, Waiting, Seen, Same, Reached

LEMMA SelectedConsider ==
    ASSUME TypeOK, Selected, Consider
    PROVE  Selected'
  <1>1. Returned'
    <2>1. pc = "select" /\ UNCHANGED <<request, pc, hits, pinned>>
      BY Outcomes
    <2> QED
      BY <2>1 DEF Selected, Returned
  <1> QED
    BY <1>1, ConsideredQueue, ConsideredMatched, ConsideredGathered DEF Selected

LEMMA SelectedInit == Init => Selected
    BY DEF Init, Selected, Returned, Empty, Queued, Matched, Gathered

\* The steps that leave the selection as it is.
Aside == \/ \E e \in Editions : CommitText(e)
         \/ \E corpus \in Corpora : CommitVectors(corpus)
         \/ \E corpus \in Corpora : ProbeCorpus(corpus)
         \/ LoadFails \/ Receive \/ Prompt \/ CallFails
         \/ \E completion \in Completion : Generate(completion)
         \/ UNCHANGED vars

LEMMA StepsOfCall ==
    ASSUME [Next]_vars
    PROVE  Aside \/ Search \/ ResolveRuling \/ BeginSelection \/ Consider
    BY DEF Next, Ingestion, Load, Call, Aside

LEMMA AsideKeeps ==
    ASSUME Aside
    PROVE  /\ UNCHANGED SelectionVars
           /\ \/ pc' = pc \/ pc' \in Ended
              \/ pc \in {"load", "receive"} /\ pc' \in {"load", "receive", "search"}
              \/ pc = "select" /\ pc' = "generate" /\ ordered = <<>>
  <1> USE DEF SelectionVars, found, chosen, Ended
  <1>1. CASE (\E e \in Editions : CommitText(e)) \/ (\E corpus \in Corpora : CommitVectors(corpus))
    BY <1>1 DEF CommitText, CommitVectors
  <1>2. CASE (\E corpus \in Corpora : ProbeCorpus(corpus)) \/ LoadFails
    BY <1>2 DEF ProbeCorpus, LoadFails
  <1>3. CASE Receive \/ Prompt \/ CallFails
    BY <1>3 DEF Receive, Prompt, CallFails
  <1>4. CASE \E completion \in Completion : Generate(completion)
    BY <1>4 DEF Generate
  <1>5. CASE UNCHANGED vars
    BY <1>5 DEF vars
  <1> QED
    BY <1>1, <1>2, <1>3, <1>4, <1>5 DEF Aside

LEMMA SelectedNext ==
    ASSUME TypeOK, Selected, [Next]_vars
    PROVE  Selected'
    BY StepsOfCall, AsideKeeps, KeptSelection, SelectedSearch, SelectedRuling, SelectedBegins,
       SelectedConsider

---------------------------------------------------------------------------
(* Room.                                                                   *)

LEMMA CostsType ==
    ASSUME NEW ps \in Seq(Passage), NEW K
    PROVE  [k \in DOMAIN ps |-> IF k \in K THEN Size(ps[k].text) ELSE 0] \in Seq(Nat)
  <1>1. DOMAIN ps = 1..Len(ps) /\ Len(ps) \in Nat
    OBVIOUS
  <1>2. \A k \in DOMAIN ps : Size(ps[k].text) \in Nat
    <2> TAKE k \in DOMAIN ps
    <2>1. ps[k] \in Passage
      OBVIOUS
    <2> QED
      BY <2>1, TextsAssumption DEF Passage
  <1>3. \A k \in DOMAIN ps : (IF k \in K THEN Size(ps[k].text) ELSE 0) \in Nat
    BY <1>2
  <1> QED
    BY <1>1, <1>3

\* What one more passage adds to a total, when it is asked for.
LEMMA TotalAppend ==
    ASSUME NEW ps \in Seq(Passage), NEW p \in Passage, NEW K, NEW L,
           \A k \in DOMAIN ps : k \in L <=> k \in K
    PROVE  /\ Total(ps, K) \in Nat /\ Size(p.text) \in Nat
           /\ Total(Append(ps, p), L)
                 = Total(ps, K) + (IF Len(ps) + 1 \in L THEN Size(p.text) ELSE 0)
  <1> DEFINE costs == [k \in DOMAIN ps |-> IF k \in K THEN Size(ps[k].text) ELSE 0]
             qs == Append(ps, p)
             more == [k \in DOMAIN qs |-> IF k \in L THEN Size(qs[k].text) ELSE 0]
             x == IF Len(ps) + 1 \in L THEN Size(p.text) ELSE 0
  <1>1. Size(p.text) \in Nat /\ x \in Nat
    BY TextsAssumption DEF Passage
  <1>2. costs \in Seq(Nat) /\ Len(costs) = Len(ps) /\ DOMAIN costs = DOMAIN ps
    <2>1. costs \in Seq(Nat)
      BY CostsType
    <2>2. DOMAIN costs = DOMAIN ps
      OBVIOUS
    <2> HIDE DEF costs
    <2> QED
      BY <2>1, <2>2
  <1>3. /\ DOMAIN qs = DOMAIN ps \cup {Len(ps) + 1}
        /\ \A i \in DOMAIN ps : i # Len(ps) + 1 /\ qs[i] = ps[i]
        /\ qs[Len(ps) + 1] = p
    BY Appended
  <1>4. /\ \A k \in DOMAIN ps : more[k] = costs[k]
        /\ more[Len(ps) + 1] = x
        /\ DOMAIN more = DOMAIN qs
    <2> HIDE DEF qs
    <2> QED
      BY <1>3
  <1>5. more \in Seq(Nat)
    <2>1. qs \in Seq(Passage)
      OBVIOUS
    <2> HIDE DEF qs
    <2> QED
      BY <2>1, CostsType
  <1> HIDE DEF qs, x, more, costs
  <1>6. more = Append(costs, x)
    <2>1. Append(costs, x) \in Seq(Nat) /\ Len(Append(costs, x)) = Len(ps) + 1
      BY <1>1, <1>2
    <2>2. \A i \in DOMAIN costs : Append(costs, x)[i] = costs[i]
      BY <1>1, <1>2
    <2>3. Append(costs, x)[Len(ps) + 1] = x
      BY <1>1, <1>2
    <2>4. DOMAIN Append(costs, x) = DOMAIN ps \cup {Len(ps) + 1}
      BY <1>1, <1>2
    <2>5. DOMAIN more = DOMAIN Append(costs, x)
      BY <1>3, <1>4, <2>4
    <2>6. \A i \in DOMAIN more : more[i] = Append(costs, x)[i]
      BY <1>2, <1>3, <1>4, <2>2, <2>3
    <2>7. Len(more) = Len(Append(costs, x))
      BY <1>5, <2>1, <2>5
    <2> QED
      BY <1>5, <2>1, <2>5, <2>6, <2>7
  <1>7. AddUp(costs) \in Nat /\ AddUp(more) = AddUp(costs) + x
    BY <1>1, <1>2, <1>6, SumAppend
  <1>8. Total(ps, K) = AddUp(costs) /\ Total(qs, L) = AddUp(more)
    BY DEF Total, costs, more
  <1> QED
    BY <1>1, <1>7, <1>8 DEF qs, x

LEMMA TotalEmpty ==
    ASSUME NEW K
    PROVE  Total(<<>>, K) = 0
  <1>1. [k \in DOMAIN <<>> |-> IF k \in K THEN Size(<<>>[k].text) ELSE 0] = <<>>
    OBVIOUS
  <1> QED
    BY <1>1, SumEmpty DEF Total

LEMMA RoomyEmpty ==
    ASSUME used = 0, passages = <<>>, candidates = <<>>
    PROVE  Roomy
    BY TotalEmpty DEF Roomy, Counted, InBudget, LeftOutForBetter

LEMMA RoomyBefore ==
    ASSUME Selected, Search \/ ResolveRuling \/ BeginSelection
    PROVE  Roomy'
  <1>1. used' = 0 /\ passages' = <<>> /\ candidates' = <<>>
    BY DEF Selected, Returned, Empty, Search, ResolveRuling, BeginSelection, chosen
  <1>2. Counted' /\ InBudget'
    BY <1>1, TotalEmpty DEF Counted, InBudget
  <1>3. LeftOutForBetter'
    BY <1>1 DEF LeftOutForBetter
  <1> QED
    BY <1>2, <1>3 DEF Roomy

\* The passages a hit of this score gives way to.
Better(score) == {k \in DOMAIN passages : passages[k].pinned \/ passages[k].score >= score}

\* Room for one more passage leaves no less taken.
LEMMA ConsideredRoom ==
    ASSUME TypeOK, Selected, Roomy, Consider
    PROVE  Roomy'
  <1> DEFINE hit == ordered[1]
  <1>1. /\ UNCHANGED <<hits, pinned>> /\ 1 \in DOMAIN ordered /\ hit \in Hit /\ Retrieved(hit)
        /\ Skipped(hit) \/ LeftOut(hit) \/ LetIn(hit)
    BY Outcomes
  <1>2. candidates \in Seq(TraceCandidate) /\ passages \in Seq(Passage) /\ hits \in Seq(Hit)
    BY DEF TypeOK
  <1>3. \A p \in DOMAIN passages : Before(passages[p], hit)
    BY <1>1 DEF Selected, Queued
  <1>4. Counted /\ InBudget
    BY DEF Roomy
  <1>5. \A i \in DOMAIN hits : \A c \in DOMAIN candidates :
           Same(candidates[c], hits[i]) /\ ~candidates[c].included
              => Total(passages, Better(hits[i].score)) + Size(hits[i].text) > Budget
    BY DEF Roomy, LeftOutForBetter, Same, Better
  <1>6. \A i \in DOMAIN hits : Size(hits[i].text) \in Nat
    <2> TAKE i \in DOMAIN hits
    <2>1. hits[i] \in Hit
      BY <1>2
    <2> QED
      BY <2>1, TextsAssumption DEF Hit
  <1> HIDE DEF hit
  <1>7. CASE Skipped(hit)
    BY <1>1, <1>7 DEF Skipped, Roomy, Counted, InBudget, LeftOutForBetter
  <1>8. CASE LeftOut(hit)
    <2>1. PICK c \in TraceCandidate :
             /\ Same(c, hit) /\ candidates' = Append(candidates, c)
             /\ ~hit.pinned /\ used + Size(hit.text) > Budget /\ UNCHANGED <<used, passages>>
      BY <1>8 DEF LeftOut
    <2>2. Counted' /\ InBudget'
      BY <1>4, <2>1 DEF Counted, InBudget
    <2>3. /\ DOMAIN candidates' = DOMAIN candidates \cup {Len(candidates) + 1}
          /\ \A d \in DOMAIN candidates : candidates'[d] = candidates[d]
          /\ candidates'[Len(candidates) + 1] = c
      BY <1>2, <2>1, AppendedTo
    <2>4. ASSUME NEW i \in DOMAIN hits, Same(c, hits[i])
          PROVE  Total(passages, Better(hits[i].score)) + Size(hits[i].text) > Budget
      <3>1. PICK j \in DOMAIN hits : hits[j] = hit
        BY <1>1, <2>1 DEF Retrieved, Selected, Returned
      <3>2. hits[i] = hit
        <4>1. hits[i].ref = hits[j].ref
          BY <2>1, <2>4, <3>1 DEF Same
        <4>2. i \in Nat /\ j \in Nat
          BY <1>2
        <4>3. ~(i < j) /\ ~(j < i)
          BY <4>1 DEF Selected, Returned
        <4> QED
          BY <3>1, <4>2, <4>3
      <3>3. Better(hits[i].score) = DOMAIN passages
        BY <1>3, <3>2 DEF Better, Before
      <3> QED
        BY <1>4, <2>1, <3>2, <3>3 DEF Counted
    <2>5. \A i \in DOMAIN hits : \A d \in DOMAIN candidates' :
             Same(candidates'[d], hits[i]) /\ ~candidates'[d].included
                => Total(passages, Better(hits[i].score)) + Size(hits[i].text) > Budget
      BY <1>5, <2>3, <2>4
    <2>6. LeftOutForBetter'
      BY <1>1, <2>1, <2>5 DEF LeftOutForBetter, Same, Better
    <2> QED
      BY <2>2, <2>6 DEF Roomy
  <1>9. CASE LetIn(hit)
    <2>1. PICK c \in TraceCandidate, p \in Passage :
             /\ c.included /\ p.pinned = hit.pinned /\ p.text = hit.text
             /\ candidates' = Append(candidates, c) /\ passages' = Append(passages, p)
             /\ hit.pinned \/ used + Size(p.text) <= Budget
             /\ used' = used + Size(p.text)
      BY <1>9 DEF LetIn
    <2>2. /\ DOMAIN candidates' = DOMAIN candidates \cup {Len(candidates) + 1}
          /\ \A d \in DOMAIN candidates : candidates'[d] = candidates[d]
          /\ candidates'[Len(candidates) + 1] = c
      BY <1>2, <2>1, AppendedTo
    <2>3. /\ DOMAIN passages' = DOMAIN passages \cup {Len(passages) + 1}
          /\ \A k \in DOMAIN passages : passages'[k] = passages[k]
          /\ passages'[Len(passages) + 1] = p
      BY <1>2, <2>1, AppendedTo
    <2>4. Counted'
      <3>1. /\ \A k \in DOMAIN passages : k \in DOMAIN passages' <=> k \in DOMAIN passages
            /\ Len(passages) + 1 \in DOMAIN passages'
        BY <2>3
      <3>2. Total(Append(passages, p), DOMAIN passages')
               = Total(passages, DOMAIN passages) + Size(p.text)
        BY <1>2, <3>1, TotalAppend
      <3> QED
        BY <1>4, <2>1, <3>2 DEF Counted
    <2>5. InBudget'
      <3>1. CASE hit.pinned
        <4>1. \A k \in DOMAIN passages' : passages'[k].pinned
          BY <1>3, <2>1, <2>3, <3>1 DEF Before
        <4> QED
          BY <4>1 DEF InBudget
      <3>2. CASE ~hit.pinned
        BY <2>1, <3>2 DEF InBudget
      <3> QED
        BY <3>1, <3>2
    <2>6. ASSUME NEW i \in DOMAIN hits, NEW d \in DOMAIN candidates,
                 Same(candidates[d], hits[i]), ~candidates[d].included
          PROVE  Total(passages', Better(hits[i].score)') + Size(hits[i].text) > Budget
      <3> DEFINE more == {k \in DOMAIN passages' :
                             passages'[k].pinned \/ passages'[k].score >= hits[i].score}
                 fewer == Better(hits[i].score)
      <3>1. \A k \in DOMAIN passages : k \in more <=> k \in fewer
        BY <2>3 DEF Better
      <3> HIDE DEF more, fewer
      <3>2. /\ Total(passages, fewer) \in Nat /\ Size(p.text) \in Nat
            /\ Total(Append(passages, p), more)
                  = Total(passages, fewer)
                       + (IF Len(passages) + 1 \in more THEN Size(p.text) ELSE 0)
        BY <1>2, <3>1, TotalAppend
      <3>3. Total(passages', more) >= Total(passages, fewer) /\ Total(passages', more) \in Nat
        BY <2>1, <3>2
      <3>4. Total(passages, fewer) + Size(hits[i].text) > Budget
        BY <1>5, <2>6 DEF fewer
      <3>5. Total(passages', more) + Size(hits[i].text) > Budget
        BY <1>6, <3>2, <3>3, <3>4, BoundsAssumption
      <3> QED
        BY <1>1, <3>5 DEF more, Better
    <2>7. LeftOutForBetter'
      BY <1>1, <2>1, <2>2, <2>6 DEF LeftOutForBetter, Same, Better
    <2> QED
      BY <2>4, <2>5, <2>7 DEF Roomy
  <1> QED
    BY <1>1, <1>7, <1>8, <1>9

LEMMA RoomyNext ==
    ASSUME TypeOK, Selected, Roomy, [Next]_vars
    PROVE  Roomy'
    BY StepsOfCall, AsideKeeps, KeptRoom, RoomyBefore, ConsideredRoom

LEMMA RoomyInit == Init => Roomy
    BY RoomyEmpty DEF Init

---------------------------------------------------------------------------
(* The theorems.                                                           *)

\* The trace as it is recorded, once there is one.
Recordable ==
    response # None =>
        /\ response.trace.top_k > 0
        /\ \A k \in DOMAIN response.trace.candidates :
              LET candidate == response.trace.candidates[k] IN
              candidate.included <=> candidate.exclusion_reason = NoReason

RetrievalIInv == TypeOK /\ Selected /\ Roomy /\ Recordable

LEMMA RecordableGenerate ==
    ASSUME TypeOK, Selected, Recordable, NEW completion \in Completion, Generate(completion)
    PROVE  Recordable'
  <1>1. CASE response' = response
    BY <1>1 DEF Recordable
  <1>2. CASE response' = [result |-> Outcome(completion), trace |-> Trace]
    <2>1. /\ response'.trace.candidates = candidates
          /\ response'.trace.top_k = TopK
      BY <1>2 DEF Trace
    <2>2. TopK > 0
      BY RequestType
    <2>3. \A k \in DOMAIN candidates :
             candidates[k].included <=> candidates[k].exclusion_reason = NoReason
      BY DEF Selected, Matched
    <2> QED
      BY <2>1, <2>2, <2>3 DEF Recordable
  <1> QED
    BY <1>1, <1>2 DEF Generate

LEMMA RecordableNext ==
    ASSUME TypeOK, Selected, Recordable, [Next]_vars
    PROVE  Recordable'
  <1>1. ASSUME UNCHANGED response PROVE Recordable'
    BY <1>1 DEF Recordable
  <1>2. CASE \E completion \in Completion : Generate(completion)
    BY <1>2, RecordableGenerate
  <1>3. CASE (\E e \in Editions : CommitText(e)) \/ (\E corpus \in Corpora : CommitVectors(corpus))
    BY <1>1, <1>3 DEF CommitText, CommitVectors
  <1>4. CASE \/ \E corpus \in Corpora : ProbeCorpus(corpus)
             \/ LoadFails \/ Receive \/ Prompt \/ CallFails
    BY <1>1, <1>4 DEF ProbeCorpus, LoadFails, Receive, Prompt, CallFails
  <1>5. CASE UNCHANGED vars
    BY <1>1, <1>5 DEF vars
  <1>6. CASE Search \/ ResolveRuling \/ BeginSelection \/ Consider
    BY <1>1, <1>6 DEF Search, ResolveRuling, BeginSelection, Consider
  <1> QED
    BY <1>2, <1>3, <1>4, <1>5, <1>6, StepsOfCall DEF Aside

\* The inductive invariant: what a call has considered, what it has yet to consider
\* and what the model and the trace have of it, together with the room spent.
THEOREM RetrievalIInvHolds == Spec => []RetrievalIInv
  <1>1. Init => RetrievalIInv
    BY TypeInit, SelectedInit, RoomyInit DEF RetrievalIInv, Recordable, Init
  <1>2. RetrievalIInv /\ [Next]_vars => RetrievalIInv'
    BY TypeNext, SelectedNext, RoomyNext, RecordableNext DEF RetrievalIInv
  <1> QED
    BY <1>1, <1>2, PTL DEF Spec

\* Every ruling that resolved is before the model in words a lookup of it found,
\* for every budget and whatever the search returned of the same chunk
\* (retrieval.py, select: pinned).
THEOREM RulingsReachTheModelHolds == Spec => []RulingsReachTheModel
  <1>1. RetrievalIInv => RulingsReachTheModel
    BY DEF RetrievalIInv, Selected, Gathered, Waiting, Reached, RulingsReachTheModel
  <1> QED
    BY <1>1, RetrievalIInvHolds, PTL

\* With anything but rulings in the prompt, all the passages fit the budget, for
\* every budget and every size of a passage (retrieval.py, select).
THEOREM BudgetHeldHolds == Spec => []BudgetHeld
  <1>1. RetrievalIInv => BudgetHeld
    BY DEF RetrievalIInv, Roomy, Counted, InBudget, BudgetHeld
  <1> QED
    BY <1>1, RetrievalIInvHolds, PTL

\* What was found and kept from the model was kept from it by rulings and by chunks
\* at least as close to the question, and would not have fitted beside them
\* (retrieval.py, select: highest score first).
THEOREM LeftOutForBetterHolds == Spec => []LeftOutForBetter
  <1>1. RetrievalIInv => LeftOutForBetter
    BY DEF RetrievalIInv, Roomy
  <1> QED
    BY <1>1, RetrievalIInvHolds, PTL

LEMMA OneFate ==
    ASSUME TypeOK, Selected, pc = "generate", NEW hit, Seen(hit)
    PROVE  LET fates == {k \in DOMAIN candidates : /\ candidates[k].ref = hit.ref
                                                   /\ candidates[k].id = hit.id}
           IN  \E k \in fates :
                  /\ fates = {k}
                  /\ candidates[k].included
                        <=> \E p \in DOMAIN passages : /\ passages[p].ref = hit.ref
                                                       /\ passages[p].id = hit.id
  <1> DEFINE fates == {k \in DOMAIN candidates : /\ candidates[k].ref = hit.ref
                                                 /\ candidates[k].id = hit.id}
  <1>1. PICK k \in fates : TRUE
    BY DEF Seen
  <1>2. fates = {k}
    <2>1. \A d \in fates : Same(candidates[d], candidates[k])
      BY <1>1 DEF Same
    <2> QED
      BY <1>1, <2>1 DEF Selected, Matched
  <1>3. candidates[k].included
           <=> \E p \in DOMAIN passages : passages[p].ref = hit.ref /\ passages[p].id = hit.id
    <2>1. candidates[k].included
             <=> \E p \in DOMAIN passages : Same(candidates[k], passages[p])
      BY <1>1 DEF Selected, Matched
    <2> QED
      BY <1>1, <2>1 DEF Same
  <1> QED
    BY <1>1, <1>2, <1>3

\* Every chunk either statement returned is in the trace once, as included exactly
\* when the model saw it (retrieval.py: "would hide the drop entirely").
THEOREM EveryHitHasOneFateHolds == Spec => []EveryHitHasOneFate
  <1>1. ASSUME TypeOK, Selected, pc = "generate", NEW i \in DOMAIN (pinned \o hits)
        PROVE  Seen((pinned \o hits)[i])
    <2>1. pinned \in Seq(Hit) /\ hits \in Seq(Hit)
      BY <1>1 DEF TypeOK
    <2>2. \/ \E j \in DOMAIN pinned : (pinned \o hits)[i] = pinned[j]
          \/ \E j \in DOMAIN hits : (pinned \o hits)[i] = hits[j]
      BY <2>1, Joined
    <2>3. /\ \A j \in DOMAIN hits : Seen(hits[j])
          /\ \A j \in DOMAIN pinned : Seen(pinned[j])
      BY <1>1 DEF Selected, Gathered, Waiting
    <2> QED
      BY <2>2, <2>3
  <1>2. RetrievalIInv => EveryHitHasOneFate
    BY <1>1, OneFate DEF RetrievalIInv, EveryHitHasOneFate
  <1> QED
    BY <1>2, RetrievalIInvHolds, PTL

\* The gateway's trace.validate accepts every trace Catena sends, that of a failed
\* generation included (store.go, validate).
THEOREM TraceIsRecordableHolds == Spec => []TraceIsRecordable
  <1>1. RetrievalIInv => TraceIsRecordable
    BY DEF RetrievalIInv, Recordable, TraceIsRecordable, NoReason
  <1> QED
    BY <1>1, RetrievalIInvHolds, PTL
=============================================================================
