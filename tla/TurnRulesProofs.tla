--------------------------- MODULE TurnRulesProofs ---------------------------
(***************************************************************************)
(* More about Turn: what the answer-level rules of verify.go together      *)
(* promise of a printed answer, and what the attempts of a turn tell the   *)
(* second generation and the reader of the trace.                          *)
(***************************************************************************)
EXTENDS TurnProofs, ProofLemmas

---------------------------------------------------------------------------
(* The rules of verify.go, each turned into what it rules out.             *)

LEMMA FirstOfIsOne ==
    ASSUME NEW S, S \subseteq Nat, S # {}
    PROVE  FirstOf(S) \in S
    BY LeastNat DEF FirstOf

\* An answer that passed, and the results it passed on.
LEMMA PassedMeans ==
    ASSUME NEW answer, NEW tiers, NEW loci, NEW results,
           Passed(results, AnswerFailures(answer, tiers, loci, VerifiedRefs(results)))
    PROVE  /\ \A k \in DOMAIN results : Sound(results[k])
           /\ VerifiedRefs(results) = {results[k].ref : k \in DOMAIN results}
           /\ UncitedClaims(answer) = {} /\ ArgumentsLackingAuthority(answer, tiers) = {}
           /\ PositionRule(answer) = {} /\ ContestRules(answer, loci) = {}
           /\ OmissionRule(answer, loci, VerifiedRefs(results)) = {}
           /\ SilenceRules(answer) = {}
    BY DEF Passed, AnswerFailures, VerifiedRefs

\* checkArguments, with the requirement that each be cited.
LEMMA RulesGiveAuthority ==
    ASSUME NEW answer \in AnswerObject, NEW tiers,
           UncitedClaims(answer) = {}, ArgumentsLackingAuthority(answer, tiers) = {}
    PROVE  \A i \in 1..answer.arguments : CarriesAuthority(answer, i, tiers)
  <1> SUFFICES ASSUME NEW i \in 1..answer.arguments PROVE CarriesAuthority(answer, i, tiers)
    OBVIOUS
  <1>1. Claims(answer, "arguments") = answer.arguments
    BY DEF Claims
  <1>2. i \notin Uncited(answer, "arguments", answer.arguments)
    BY <1>1 DEF UncitedClaims, Slot
  <1> QED
    BY <1>2 DEF ArgumentsLackingAuthority

\* A contested answer argues nothing, takes no position, and quotes the ruling
\* of the question it names.
LEMMA RulesOfContest ==
    ASSUME NEW answer \in AnswerObject, NEW loci, answer.is_contested,
           PositionRule(answer) = {}, ContestRules(answer, loci) = {}
    PROVE  /\ answer.arguments = 0
           /\ Blank(answer.position)
           /\ \E k \in DOMAIN answer.citations :
                 /\ RefOf(answer.citations[k]) = loci[answer.locus]
                 /\ Contains(Norm(answer.state_of_debate), Norm(answer.citations[k].quote))
  <1>1. answer.arguments = 0
    BY DEF ContestRules, Only, AnswerObject, Answer
  <1>2. Blank(answer.position)
    BY <1>1 DEF PositionRule, Only
  <1> DEFINE cited == RulingCitations(answer, loci[answer.locus])
  <1>3. ContestedFailure(answer, loci) = {}
    BY DEF ContestRules
  <1>4. cited # {} /\ Contains(Norm(answer.state_of_debate),
                               Norm(answer.citations[FirstOf(cited)].quote))
    BY <1>3 DEF ContestedFailure
  <1>5. cited \subseteq DOMAIN answer.citations /\ DOMAIN answer.citations \subseteq Nat
    BY DEF RulingCitations, AnswerObject, Answer
  <1>6. FirstOf(cited) \in cited
    BY <1>4, <1>5, FirstOfIsOne
  <1> QED
    BY <1>1, <1>2, <1>4, <1>5, <1>6 DEF RulingCitations

\* An answer that is not contested cites no ruling: the omission rule.
LEMMA RulesOfOmission ==
    ASSUME NEW answer \in AnswerObject, NEW loci, NEW verified,
           OmissionRule(answer, loci, verified) = {},
           NEW k \in DOMAIN answer.citations, NEW l \in DOMAIN loci,
           RefOf(answer.citations[k]) = loci[l], RefOf(answer.citations[k]) \in verified
    PROVE  answer.is_contested
  <1>1. ASSUME ~answer.is_contested PROVE FALSE
    <2>1. FailureAt("ruling-cited-while-uncontested", "contested", RefOf(answer.citations[k]))
              \in OmissionRule(answer, loci, verified)
      BY <1>1 DEF OmissionRule, Rulings
    <2> QED
      BY <2>1
  <1>2. answer.is_contested \in BOOLEAN
    BY DEF AnswerObject, Answer
  <1> QED
    BY <1>1, <1>2

\* Silence stands alone, and what is not silent has content.
LEMMA RulesOfSilence ==
    ASSUME NEW answer \in AnswerObject, PositionRule(answer) = {}, SilenceRules(answer) = {}
    PROVE  /\ Silent(answer) => /\ ~HasContent(answer) /\ ~answer.is_contested
                                /\ Blank(answer.position)
           /\ ~Silent(answer) => HasContent(answer) \/ answer.is_contested
  <1>1. /\ answer.arguments \in Nat /\ answer.descriptions \in Nat
        /\ answer.contrary_positions \in Nat
    BY DEF AnswerObject, Answer
  <1>2. Silent(answer) => ~HasContent(answer) /\ ~answer.is_contested
    BY DEF SilenceRules, Only
  <1>3. ~HasContent(answer) => answer.arguments = 0
    BY <1>1 DEF HasContent
  <1>4. answer.arguments = 0 => Blank(answer.position)
    BY DEF PositionRule, Only
  <1> QED
    BY <1>2, <1>3, <1>4 DEF SilenceRules, Only

\* Two citations of different places carry a high confidence.
LEMMA HighMeansTwo ==
    ASSUME NEW answer \in AnswerObject, NEW tiers, NEW attempt,
           Confidence(answer, tiers, attempt) = "high"
    PROVE  /\ attempt = 1
           /\ \E j, k \in DOMAIN answer.citations :
                 /\ RefOf(answer.citations[j]) # RefOf(answer.citations[k])
                 /\ \A i \in {j, k} :
                       /\ answer.citations[i].slot = "arguments"
                       /\ TierOf(answer.citations[i].corpus, tiers) \in Authoritative
  <1> DEFINE refs == AuthoritativeRefs(answer, tiers)
             carriers == {k \in DOMAIN answer.citations :
                            /\ answer.citations[k].slot = "arguments"
                            /\ TierOf(answer.citations[k].corpus, tiers) \in Authoritative}
  <1>1. attempt = 1 /\ Cardinality(refs) # 0 /\ Cardinality(refs) >= 2
    BY DEF Confidence
  <1>2. refs # {}
    BY <1>1, FS_EmptySet
  <1>3. PICK one \in refs : TRUE
    BY <1>2
  <1>4. refs # {one}
    <2>1. Cardinality({one}) = 1
      BY FS_Singleton
    <2> QED
      BY <1>1, <2>1
  <1>5. PICK other \in refs : other # one
    BY <1>3, <1>4
  <1>6. PICK j \in carriers : RefOf(answer.citations[j]) = one
    BY <1>3 DEF AuthoritativeRefs
  <1>7. PICK k \in carriers : RefOf(answer.citations[k]) = other
    BY <1>5 DEF AuthoritativeRefs
  <1>8. RefOf(answer.citations[j]) # RefOf(answer.citations[k])
    BY <1>5, <1>6, <1>7
  <1> QED
    BY <1>1, <1>8

---------------------------------------------------------------------------
(* What an attempt was judged on, and what a verdict rests on.             *)

\* One result per citation checked so far, in answer order.
About(results, citations) ==
    \A k \in DOMAIN results : results[k].ref = RefOf(citations[k])

\* The answer breaks no rule, with every citation of it verified.
Upright(answer) ==
    /\ UncitedClaims(answer) = {} /\ ArgumentsLackingAuthority(answer, ask.tiers) = {}
    /\ PositionRule(answer) = {} /\ ContestRules(answer, ask.loci) = {}
    /\ OmissionRule(answer, ask.loci,
                    {RefOf(answer.citations[k]) : k \in DOMAIN answer.citations}) = {}
    /\ SilenceRules(answer) = {}

\* What the printed answer owes to the rules.
Rightful ==
    /\ About(draft.results, draft.answer.citations)
    /\ result # None /\ Verified =>
          /\ Upright(result.answer)
          /\ result.confidence = Confidence(result.answer, ask.tiers, Len(attempts))
    /\ result # None /\ result.outcome = "degraded" =>
          result.answer = EmptyAnswer /\ result.confidence = DegradedConfidence

\* What the second generation is told.
Informed ==
    pc \in {"generate", "verify"} /\ Len(attempts) = 1 /\ ~attempts[1].failed =>
        /\ feedback = [results |-> FailedResults(attempts[1].results),
                       failures |-> attempts[1].failures]
        /\ feedback # NoFeedback

CleanAttempt(attempt) == ~attempt.failed /\ Passed(attempt.results, attempt.failures)

\* Attempt i of a turn that made n, verified or not.
Explained(attempt, i, n, verified) ==
    /\ attempt.number = i
    /\ Len(attempt.results) = Len(attempt.answer.citations)
    /\ About(attempt.results, attempt.answer.citations)
    /\ CleanAttempt(attempt) => i = n /\ verified

\* What the attempts of a turn say of its outcome.
Accounted ==
    /\ Len(attempts) <= maxAttempts
    /\ \A i \in DOMAIN attempts :
          Explained(attempts[i], i, Len(attempts), result # None /\ Verified)
    /\ result # None =>
          /\ attempts # <<>>
          /\ CleanAttempt(attempts[Len(attempts)]) <=> Verified
          /\ attempts[Len(attempts)].failed <=> result.outcome = "generation-failed"
          /\ result.outcome = "verified" <=> Len(attempts) = 1

---------------------------------------------------------------------------
(* Rightful is preserved.                                                  *)

LEMMA RightfulAside ==
    ASSUME Rightful, UNCHANGED <<draft, result, ask, attempts>>
    PROVE  Rightful'
    BY DEF Rightful, Upright, Verified

LEMMA RightfulUnverified ==
    ASSUME Rightful, UNCHANGED draft,
           \/ result' = None
           \/ result'.outcome = "generation-failed"
           \/ result' = Outcome("degraded", EmptyAnswer, DegradedConfidence)
    PROVE  Rightful'
    BY DEF Rightful, Verified, Outcome

LEMMA RightfulGenerate == TurnInv /\ Rightful /\ Generate => Rightful'
  <1> SUFFICES ASSUME TurnInv, Rightful, Generate PROVE Rightful'
    OBVIOUS
  <1>1. ASSUME NEW answer \in Answers \cup {EmptyAnswer}, NEW complete \in BOOLEAN,
               ReceiveAnswer(answer, complete)
        PROVE  Rightful'
    <2>1. draft'.results = <<>> /\ result' = None
      BY <1>1 DEF ReceiveAnswer, TurnInv, Ordered
    <2> QED
      BY <2>1 DEF Rightful, About
  <1>2. ASSUME NEW complete \in BOOLEAN, ReceiveGenerationFailure(complete)
        PROVE  Rightful'
    <2>1. result' = None \/ result'.outcome = "generation-failed"
      BY <1>2 DEF ReceiveGenerationFailure, TurnInv, Ordered, Outcome
    <2> QED
      BY <1>2, <2>1, RightfulUnverified DEF ReceiveGenerationFailure
  <1>3. CASE GenerateFails
    BY <1>3, RightfulAside DEF GenerateFails, turn
  <1> QED
    BY <1>1, <1>2, <1>3 DEF Generate

LEMMA RightfulCheck == TurnInv /\ Grounded /\ Rightful /\ CheckNextCitation => Rightful'
  <1> SUFFICES ASSUME TurnInv, Grounded, Rightful, CheckNextCitation PROVE Rightful'
    OBVIOUS
  <1> DEFINE n == Len(draft.results) + 1
             citation == draft.answer.citations[n]
             checked == CheckCitation(citation, ask.tiers, Lookup(RefOf(citation)),
                                      ask.serveLocalOnly)
  <1>1. draft.results \in Seq(Result) /\ draft.answer.citations \in Seq(Citation)
    BY DEF TurnInv, TypeOK, AnswerObject, Answer
  <1>2. n \in 1..Len(draft.answer.citations)
    <2>1. Len(draft.results) \in Nat /\ Len(draft.answer.citations) \in Nat
      BY <1>1
    <2>2. Len(draft.answer.citations) - Len(draft.results) > 0
      BY DEF CheckNextCitation, Unchecked
    <2>3. \A a, b \in Nat : b - a > 0 => a + 1 \in 1..b
      OBVIOUS
    <2> QED
      BY <2>1, <2>2, <2>3
  <1>3. checked \in Result /\ checked.ref = RefOf(citation)
    <2>1. citation \in Citation
      BY <1>1, <1>2
    <2>2. checked \in Result
      BY <2>1, CheckCitationType
    <2> QED
      BY <2>2 DEF CheckCitation
  <1>4. /\ draft'.results = Append(draft.results, checked)
        /\ draft'.answer = draft.answer
        /\ result' = None
    BY DEF CheckNextCitation, TurnInv, TypeOK, Ordered
  <1> HIDE DEF checked
  <1>5. ASSUME NEW k \in DOMAIN draft'.results
        PROVE  draft'.results[k].ref = RefOf(draft.answer.citations[k])
    <2>1. k \in DOMAIN draft.results \cup {n}
      BY <1>1, <1>3, <1>4, <1>5, Appended
    <2>2. CASE k = n
      BY <1>1, <1>3, <1>4, <2>2, Appended
    <2>3. CASE k \in DOMAIN draft.results
      <3>1. draft'.results[k] = draft.results[k]
        BY <1>1, <1>3, <1>4, <2>3, Appended
      <3> QED
        BY <2>3, <3>1 DEF Rightful, About
    <2> QED
      BY <2>1, <2>2, <2>3
  <1> QED
    BY <1>4, <1>5 DEF Rightful, About

\* An answer is accepted with every rule kept and every citation verified.
LEMMA RightfulAccept == TurnInv /\ Rightful /\ Accept => Rightful'
  <1> SUFFICES ASSUME TurnInv, Rightful, Accept PROVE Rightful'
    OBVIOUS
  <1> DEFINE answer == draft.answer
             refs == {RefOf(answer.citations[k]) : k \in DOMAIN answer.citations}
  <1>1. draft.results \in Seq(Result) /\ answer.citations \in Seq(Citation)
    BY DEF TurnInv, TypeOK, AnswerObject, Answer
  <1>2. Len(draft.results) = Len(answer.citations)
    BY <1>1 DEF Accept, Judged, Unchecked
  <1>3. DOMAIN draft.results = DOMAIN answer.citations
    BY <1>1, <1>2
  <1>4. {draft.results[k].ref : k \in DOMAIN draft.results} = refs
    BY <1>3 DEF Rightful, About
  <1>5. Passed(draft.results,
               AnswerFailures(answer, ask.tiers, ask.loci, VerifiedRefs(draft.results)))
    BY DEF Accept, Failures
  <1>6. Upright(answer)
    <2> HIDE DEF answer
    <2>1. VerifiedRefs(draft.results) = refs
      BY <1>4, <1>5, PassedMeans
    <2> QED
      BY <1>5, <2>1, PassedMeans DEF Upright
  <1>7. /\ result'.answer = answer /\ UNCHANGED <<ask, draft>>
        /\ result'.outcome # "degraded"
        /\ result'.confidence = Confidence(answer, ask.tiers, Number)
        /\ Len(attempts') = Number
    BY JudgedCounts DEF Accept, Judged, Outcome
  <1>8. Upright(answer)'
    BY <1>6, <1>7 DEF Upright
  <1> QED
    BY <1>7, <1>8 DEF Rightful

LEMMA RightfulNext == TurnInv /\ Grounded /\ Rightful /\ [Next]_vars => Rightful'
  <1> SUFFICES ASSUME TurnInv, Grounded, Rightful, [Next]_vars PROVE Rightful'
    OBVIOUS
  <1>1. CASE Ingestion \/ Load \/ LookupFails \/ Deliver \/ Kill \/ UNCHANGED vars
    BY <1>1, RightfulAside
    DEF Ingestion, CommitText, CommitVectors, Load, ProbeCorpus, LoadFails, LookupFails,
        Deliver, Describe, Record, RecordFails, Render, Kill, vars, turn
  <1>2. CASE Regenerate
    <2>1. UNCHANGED draft /\ result' = None
      BY <1>2, JudgedCounts DEF Regenerate, Judged
    <2> QED
      BY <2>1, RightfulUnverified
  <1>3. CASE Degrade
    BY <1>3, RightfulUnverified DEF Degrade, Judged
  <1> QED
    BY <1>1, <1>2, <1>3, RightfulGenerate, RightfulCheck, RightfulAccept
    DEF Next, Gateway, Verify

---------------------------------------------------------------------------
(* Informed is preserved.                                                  *)

LEMMA FeedbackSaysSomething ==
    ASSUME NEW results, NEW failures, ~Passed(results, failures)
    PROVE  [results |-> FailedResults(results), failures |-> failures] # NoFeedback
  <1>1. CASE failures # {}
    BY <1>1 DEF NoFeedback
  <1>2. CASE \E k \in DOMAIN results : ~Sound(results[k])
    <2>1. FailedResults(results) # {}
      BY <1>2 DEF FailedResults
    <2> QED
      BY <2>1 DEF NoFeedback
  <1> QED
    BY <1>1, <1>2 DEF Passed

LEMMA InformedAside ==
    ASSUME TurnInv, Informed, UNCHANGED <<attempts, feedback>>,
           pc' \in {"generate", "verify"} => pc \in {"load", "generate", "verify"}
    PROVE  Informed'
    BY DEF Informed, TurnInv, Ordered

LEMMA InformedNext == TurnInv /\ Informed /\ [Next]_vars => Informed'
  <1> SUFFICES ASSUME TurnInv, Informed, [Next]_vars PROVE Informed'
    OBVIOUS
  <1>1. CASE \/ Ingestion \/ Load \/ CheckNextCitation \/ LookupFails \/ GenerateFails
             \/ Deliver \/ Kill \/ UNCHANGED vars
    BY <1>1, InformedAside
    DEF Ingestion, CommitText, CommitVectors, Load, ProbeCorpus, LoadFails,
        CheckNextCitation, LookupFails, GenerateFails, Deliver, Describe, Record,
        RecordFails, Render, Kill, vars, turn
  <1>2. ASSUME NEW answer \in Answers \cup {EmptyAnswer}, NEW complete \in BOOLEAN,
               ReceiveAnswer(answer, complete)
        PROVE  Informed'
    BY <1>2, InformedAside DEF ReceiveAnswer
  <1>3. ASSUME NEW complete \in BOOLEAN, ReceiveGenerationFailure(complete)
        PROVE  Informed'
    <2>1. /\ Append(attempts, FailedAttempt(complete)) \in Seq(Attempt)
          /\ attempts \in Seq(Attempt)
      BY FailedAttemptType DEF TurnInv, TypeOK
    <2>2. attempts' = Append(attempts, FailedAttempt(complete))
      BY <1>3 DEF ReceiveGenerationFailure
    <2>3. Len(attempts') = 1 => attempts'[1] = FailedAttempt(complete)
      BY <2>1, <2>2
    <2>4. FailedAttempt(complete).failed
      BY DEF FailedAttempt
    <2> QED
      BY <2>3, <2>4 DEF Informed
  <1>4. CASE Accept \/ Degrade
    BY <1>4 DEF Accept, Degrade, Informed
  <1>5. CASE Regenerate
    <2>1. attempts' = Append(attempts, JudgedAttempt) /\ attempts \in Seq(Attempt)
      BY <1>5 DEF Regenerate, Judged, TurnInv, TypeOK
    <2>2. Len(attempts') = 1 => attempts'[1] = JudgedAttempt
      BY <2>1, JudgedAttemptType DEF TurnInv
    <2>3. JudgedAttempt.results = draft.results /\ JudgedAttempt.failures = Failures
      BY DEF JudgedAttempt
    <2>4. feedback' = [results |-> FailedResults(draft.results), failures |-> Failures]
      BY <1>5 DEF Regenerate
    <2>5. feedback' # NoFeedback
      BY <1>5, <2>4, FeedbackSaysSomething DEF Regenerate
    <2> QED
      BY <2>2, <2>3, <2>4, <2>5 DEF Informed
  <1> QED
    BY <1>1, <1>2, <1>3, <1>4, <1>5 DEF Next, Gateway, Generate, Verify

---------------------------------------------------------------------------
(* Accounted is preserved.                                                 *)

LEMMA AccountedAside ==
    ASSUME Accounted, UNCHANGED <<attempts, result>>
    PROVE  Accounted'
    BY DEF Accounted, Explained, Verified

\* One more attempt, explained, after attempts none of which was clean.
LEMMA OneMoreExplained ==
    ASSUME TurnInv, Accounted, result = None, Len(attempts) < maxAttempts,
           NEW a \in Attempt, attempts' = Append(attempts, a), NEW verified \in BOOLEAN,
           Explained(a, Number, Number, verified)
    PROVE  /\ Len(attempts') = Number /\ Number <= maxAttempts
           /\ attempts' # <<>> /\ attempts'[Len(attempts')] = a
           /\ \A i \in DOMAIN attempts' : Explained(attempts'[i], i, Len(attempts'), verified)
  <1>1. attempts \in Seq(Attempt) /\ Len(attempts) \in Nat
    BY DEF TurnInv, TypeOK
  <1>2. /\ Len(attempts') = Number /\ Number <= maxAttempts
        /\ attempts' # <<>> /\ attempts'[Number] = a
        /\ DOMAIN attempts' = DOMAIN attempts \cup {Number}
        /\ \A i \in DOMAIN attempts : attempts'[i] = attempts[i]
    BY <1>1 DEF Number, maxAttempts
  <1>3. ASSUME NEW i \in DOMAIN attempts PROVE Explained(attempts'[i], i, Number, verified)
    <2>1. Explained(attempts[i], i, Len(attempts), FALSE)
      BY DEF Accounted
    <2> QED
      BY <1>2, <2>1 DEF Explained
  <1> QED
    BY <1>2, <1>3

LEMMA AccountedGenerate == TurnInv /\ Accounted /\ Generate => Accounted'
  <1> SUFFICES ASSUME TurnInv, Accounted, Generate PROVE Accounted'
    OBVIOUS
  <1>1. ASSUME NEW complete \in BOOLEAN, ReceiveGenerationFailure(complete)
        PROVE  Accounted'
    <2> DEFINE a == FailedAttempt(complete)
    <2>1. /\ attempts' = Append(attempts, a) /\ result = None
          /\ Len(attempts) < maxAttempts
      BY <1>1 DEF ReceiveGenerationFailure, TurnInv, Ordered
    <2>2. a \in Attempt /\ a.failed
      <3>1. Number \in Nat \ {0}
        BY DEF TurnInv, TypeOK, Number
      <3> QED
        BY <3>1, EmptyAnswerType DEF FailedAttempt, Attempt
    <2>3. Explained(a, Number, Number, FALSE)
      BY DEF Explained, FailedAttempt, EmptyAnswer, About, CleanAttempt
    <2> HIDE DEF a
    <2>4. /\ Len(attempts') = Number /\ Number <= maxAttempts
          /\ attempts' # <<>> /\ attempts'[Len(attempts')] = a
          /\ \A i \in DOMAIN attempts' : Explained(attempts'[i], i, Len(attempts'), FALSE)
      BY <2>1, <2>2, <2>3, OneMoreExplained
    <2>5. \/ result' = None
          \/ Number >= maxAttempts /\ result'.outcome = "generation-failed"
      <3>1. Number \in Nat
        BY DEF TurnInv, TypeOK, Number
      <3> QED
        BY <1>1, <2>1, <3>1 DEF ReceiveGenerationFailure, Outcome, maxAttempts
    <2>6. ~(result' # None /\ Verified')
      BY <2>5 DEF Verified
    <2> QED
      BY <2>2, <2>4, <2>5, <2>6 DEF Accounted, CleanAttempt, Explained, Verified, maxAttempts
  <1>2. CASE UNCHANGED <<attempts, result>>
    BY <1>2, AccountedAside
  <1> QED
    BY <1>1, <1>2 DEF Generate, ReceiveAnswer, GenerateFails, turn

\* A verification that ended, whatever it decided.
LEMMA JudgedIsExplained ==
    ASSUME TurnInv, Rightful, Judged
    PROVE  /\ JudgedAttempt \in Attempt /\ ~JudgedAttempt.failed
           /\ CleanAttempt(JudgedAttempt) <=> Passed(draft.results, Failures)
           /\ \A verified \in BOOLEAN :
                 (CleanAttempt(JudgedAttempt) => verified)
                    => Explained(JudgedAttempt, Number, Number, verified)
  <1>1. draft.results \in Seq(Result) /\ draft.answer.citations \in Seq(Citation)
    BY DEF TurnInv, TypeOK, AnswerObject, Answer
  <1>2. Len(draft.results) = Len(draft.answer.citations)
    BY <1>1 DEF Judged, Unchecked
  <1>3. /\ JudgedAttempt.number = Number /\ JudgedAttempt.answer = draft.answer
        /\ JudgedAttempt.results = draft.results /\ ~JudgedAttempt.failed
        /\ JudgedAttempt.failures = Failures
    BY DEF JudgedAttempt
  <1>4. About(JudgedAttempt.results, JudgedAttempt.answer.citations)
    BY <1>3 DEF Rightful
  <1>5. CleanAttempt(JudgedAttempt) <=> Passed(draft.results, Failures)
    BY <1>3 DEF CleanAttempt
  <1>6. JudgedAttempt \in Attempt
    BY JudgedAttemptType DEF TurnInv
  <1> QED
    BY <1>2, <1>3, <1>4, <1>5, <1>6 DEF Explained

LEMMA AccountedJudged ==
    ASSUME TurnInv, Rightful, Accounted, Judged, NEW verified \in BOOLEAN,
           verified <=> result' # None /\ Verified', verified <=> Passed(draft.results, Failures),
           \/ result' = None
           \/ /\ result'.outcome # "generation-failed"
              /\ result'.outcome = "verified" <=> Number = 1
    PROVE  Accounted'
  <1>1. /\ attempts' = Append(attempts, JudgedAttempt) /\ result = None
        /\ Len(attempts) < maxAttempts
    BY JudgedCounts DEF Judged
  <1>2. /\ JudgedAttempt \in Attempt /\ ~JudgedAttempt.failed
        /\ CleanAttempt(JudgedAttempt) <=> verified
        /\ Explained(JudgedAttempt, Number, Number, verified)
    BY JudgedIsExplained
  <1>3. /\ Len(attempts') = Number /\ Number <= maxAttempts
        /\ attempts' # <<>> /\ attempts'[Len(attempts')] = JudgedAttempt
        /\ \A i \in DOMAIN attempts' : Explained(attempts'[i], i, Len(attempts'), verified)
    BY <1>1, <1>2, OneMoreExplained
  <1>4. \A i \in DOMAIN attempts' :
            Explained(attempts'[i], i, Len(attempts'), result' # None /\ Verified')
    BY <1>3 DEF Explained
  <1> QED
    BY <1>2, <1>3, <1>4 DEF Accounted, maxAttempts

LEMMA AccountedVerify == TurnInv /\ Rightful /\ Accounted /\ Verify => Accounted'
  <1> SUFFICES ASSUME TurnInv, Rightful, Accounted, Verify PROVE Accounted'
    OBVIOUS
  <1>1. CASE Accept
    <2>1. result' \in Verdict /\ Judged
      BY <1>1, ConfidenceType DEF Accept, Outcome, Verdict, TurnInv, TypeOK
    <2>2. result' # None /\ Passed(draft.results, Failures)
      BY <1>1, <2>1, NotNone DEF Accept
    <2>3. result'.outcome = IF Number = 1 THEN "verified" ELSE "regenerated"
      BY <1>1 DEF Accept, Outcome
    <2>4. Verified'
      BY <2>3 DEF Verified
    <2> QED
      BY <2>1, <2>2, <2>3, <2>4, AccountedJudged
  <1>2. CASE Regenerate
    <2>1. Judged /\ ~Passed(draft.results, Failures) /\ result' = None
      BY <1>2, JudgedCounts DEF Regenerate
    <2> QED
      BY <2>1, AccountedJudged
  <1>3. CASE Degrade
    <2>1. /\ Judged /\ ~Passed(draft.results, Failures) /\ result'.outcome = "degraded"
          /\ Number = maxAttempts
      BY <1>3 DEF Degrade, Outcome
    <2>2. ~Verified' /\ result'.outcome # "verified" /\ Number # 1
      BY <2>1 DEF Verified, maxAttempts
    <2> QED
      BY <2>1, <2>2, AccountedJudged
  <1>4. CASE UNCHANGED <<attempts, result>>
    BY <1>4, AccountedAside
  <1> QED
    BY <1>1, <1>2, <1>3, <1>4 DEF Verify, CheckNextCitation, LookupFails, turn

LEMMA AccountedNext == TurnInv /\ Rightful /\ Accounted /\ [Next]_vars => Accounted'
  <1> SUFFICES ASSUME TurnInv, Rightful, Accounted, [Next]_vars PROVE Accounted'
    OBVIOUS
  <1>1. CASE Ingestion \/ Load \/ Deliver \/ Kill \/ UNCHANGED vars
    BY <1>1, AccountedAside
    DEF Ingestion, CommitText, CommitVectors, Load, ProbeCorpus, LoadFails, Deliver,
        Describe, Record, RecordFails, Render, Kill, vars, turn
  <1> QED
    BY <1>1, AccountedGenerate, AccountedVerify DEF Next, Gateway

---------------------------------------------------------------------------
(* The inductive invariant, and what follows from it.                      *)

TurnIInv == TurnInv /\ Grounded /\ Rightful /\ Informed /\ Accounted

LEMMA TurnIInvInit == Init => Rightful /\ Informed /\ Accounted
    BY DEF Init, Rightful, About, Informed, Accounted, maxAttempts

\* The parts hold together in every state of every turn, whatever Catena sends
\* and ingestion commits (turn.go, Ask).
THEOREM TurnIInvHolds == Spec => []TurnIInv
  <1>1. Init => Grounded /\ Rightful /\ Informed /\ Accounted
    BY TurnIInvInit, GroundedInit
  <1>2. TurnInv /\ Grounded /\ Rightful /\ Informed /\ Accounted /\ [Next]_vars
           => Grounded' /\ Rightful' /\ Informed' /\ Accounted'
    BY GroundedNext, RightfulNext, InformedNext, AccountedNext
  <1> QED
    BY <1>1, <1>2, TurnHolds, PTL DEF Spec, TurnIInv

\* What a printed notice is a view of.
LEMMA ShownMeans ==
    ASSUME TurnInv, screen # None
    PROVE  /\ result \in Verdict /\ result # None
           /\ screen.answer = result.answer /\ screen.confidence = result.confidence
           /\ recorded = TurnRows
           /\ Shown("answer") => Verified /\ ~Silent(screen.answer)
           /\ Shown("silence") => Verified /\ Silent(screen.answer)
  <1>1. /\ screen = View /\ result \in Verdict /\ result # None /\ recorded = TurnRows
    BY DEF TurnInv, Ordered, TypeOK
  <1>2. screen.answer = result.answer /\ screen.confidence = result.confidence
    BY <1>1 DEF View
  <1>3. CASE Verified
    BY <1>1, <1>2, <1>3 DEF View, Shown, Verified
  <1>4. CASE result.outcome = "degraded"
    BY <1>1, <1>2, <1>4 DEF View, Shown, Verified
  <1>5. CASE result.outcome = "generation-failed"
    BY <1>1, <1>2, <1>5 DEF View, Shown, Verified
  <1> QED
    BY <1>1, <1>3, <1>4, <1>5 DEF Verdict, Verified

\* What a verdict that verified says of the answer on the screen.
LEMMA ShownIsUpright ==
    ASSUME TurnIInv, screen # None, Verified
    PROVE  /\ screen.answer \in AnswerObject
           /\ Upright(screen.answer)
           /\ \A k \in DOMAIN screen.answer.citations : Supported(screen.answer.citations[k])
           /\ screen.confidence = Confidence(screen.answer, ask.tiers, Len(recorded.attempts))
  <1>1. /\ result \in Verdict /\ result # None /\ recorded.attempts = attempts
        /\ screen.answer = result.answer /\ screen.confidence = result.confidence
    BY ShownMeans DEF TurnIInv, TurnRows
  <1>2. result.answer \in AnswerObject
    BY <1>1 DEF Verdict, Verified
  <1> QED
    BY <1>1, <1>2 DEF TurnIInv, Rightful, Grounded

LEMMA EveryArgumentHasAuthorityFollows == TurnIInv => EveryArgumentHasAuthority
  <1> SUFFICES ASSUME TurnIInv, Shown("answer"), NEW i \in 1..screen.answer.arguments
               PROVE  \E k \in DOMAIN screen.answer.citations :
                         LET citation == screen.answer.citations[k] IN
                         /\ citation.slot = "arguments"
                         /\ citation.claim = i
                         /\ citation.corpus \in DOMAIN ask.tiers
                         /\ ask.tiers[citation.corpus] \in {"binding", "governing"}
                         /\ Sourced(citation)
    BY DEF EveryArgumentHasAuthority
  <1>1. screen # None /\ Verified
    BY ShownMeans DEF TurnIInv, Shown
  <1>2. /\ screen.answer \in AnswerObject /\ Upright(screen.answer)
        /\ \A k \in DOMAIN screen.answer.citations : Supported(screen.answer.citations[k])
    BY <1>1, ShownIsUpright
  <1>3. CarriesAuthority(screen.answer, i, ask.tiers)
    BY <1>2, RulesGiveAuthority DEF Upright
  <1>4. PICK k \in CitationsOf(screen.answer, "arguments", i) :
           TierOf(screen.answer.citations[k].corpus, ask.tiers) \in Authoritative
    BY <1>3 DEF CarriesAuthority
  <1>5. Supported(screen.answer.citations[k]) /\ k \in DOMAIN screen.answer.citations
    BY <1>2 DEF CitationsOf
  <1> QED
    BY <1>4, <1>5 DEF CitationsOf, TierOf, Authoritative, Supported

\* Every printed argument rests on a corpus that binds or governs, with a row
\* that carries the quote (verify.go, checkArguments and the requirement that
\* each claim be cited).
THEOREM EveryArgumentHasAuthorityHolds == Spec => []EveryArgumentHasAuthority
    BY EveryArgumentHasAuthorityFollows, TurnIInvHolds, PTL

LEMMA ContestedIsShownContestedFollows == TurnIInv => ContestedIsShownContested
  <1> SUFFICES ASSUME TurnIInv, Shown("answer") PROVE ContestedIsShownContested
    BY DEF ContestedIsShownContested
  <1> DEFINE answer == screen.answer
             refs == {RefOf(answer.citations[k]) : k \in DOMAIN answer.citations}
  <1>1. screen # None /\ Verified
    BY ShownMeans DEF TurnIInv, Shown
  <1>2. /\ answer \in AnswerObject /\ Upright(answer)
        /\ \A k \in DOMAIN answer.citations : Supported(answer.citations[k])
    BY <1>1, ShownIsUpright
  <1>3. ASSUME NEW k \in DOMAIN answer.citations, NEW l \in DOMAIN ask.loci,
               RefOf(answer.citations[k]) = ask.loci[l]
        PROVE  answer.is_contested
    <2>1. RefOf(answer.citations[k]) \in refs
      OBVIOUS
    <2>2. OmissionRule(answer, ask.loci, refs) = {}
      BY <1>2 DEF Upright
    <2> HIDE DEF answer, refs
    <2> QED
      BY <1>2, <1>3, <2>1, <2>2, RulesOfOmission
  <1>4. ASSUME answer.is_contested
        PROVE  /\ answer.arguments = 0
               /\ Blank(answer.position)
               /\ \E k \in DOMAIN answer.citations :
                     /\ RefOf(answer.citations[k]) = ask.loci[answer.locus]
                     /\ Contains(Norm(answer.state_of_debate), Norm(answer.citations[k].quote))
                     /\ Sourced(answer.citations[k])
    <2>1. PositionRule(answer) = {} /\ ContestRules(answer, ask.loci) = {}
      BY <1>2 DEF Upright
    <2>2. \A k \in DOMAIN answer.citations : Sourced(answer.citations[k])
      BY <1>2 DEF Supported
    <2> HIDE DEF answer
    <2> QED
      BY <1>2, <1>4, <2>1, <2>2, RulesOfContest
  <1> QED
    BY <1>3, <1>4 DEF ContestedIsShownContested

\* A printed answer that cites a contested ruling says so, and one that says so
\* takes no side and quotes the ruling (verify.go, the omission check and the
\* contested rules).
THEOREM ContestedIsShownContestedHolds == Spec => []ContestedIsShownContested
    BY ContestedIsShownContestedFollows, TurnIInvHolds, PTL

LEMMA SilenceIsAloneFollows == TurnIInv => SilenceIsAlone
  <1> SUFFICES ASSUME TurnIInv, screen # None, Verified,
                      Shown("answer") => ~Silent(screen.answer),
                      Shown("silence") => Silent(screen.answer)
               PROVE  SilenceIsAlone
    BY ShownMeans DEF TurnIInv, SilenceIsAlone, Shown
  <1>1. /\ screen.answer \in AnswerObject
        /\ PositionRule(screen.answer) = {} /\ SilenceRules(screen.answer) = {}
    BY ShownIsUpright DEF Upright
  <1> QED
    BY <1>1, RulesOfSilence DEF SilenceIsAlone

\* A printed silence stood beside no claim and a printed answer is never empty
\* (verify.go, the rules of no_answer_reason; render.go, Answer).
THEOREM SilenceIsAloneHolds == Spec => []SilenceIsAlone
    BY SilenceIsAloneFollows, TurnIInvHolds, PTL

LEMMA HighConfidenceIsCorroboratedFollows == TurnIInv => HighConfidenceIsCorroborated
  <1> SUFFICES ASSUME TurnIInv, screen # None, screen.confidence = "high"
               PROVE  HighConfidenceIsCorroborated
    BY DEF HighConfidenceIsCorroborated
  <1> DEFINE answer == screen.answer
  <1>1. Verified
    <2>1. result \in Verdict /\ result.confidence = "high"
      BY ShownMeans DEF TurnIInv
    <2>2. result.outcome # "generation-failed"
      BY <2>1, NoneAssumption DEF Verdict
    <2>3. result.outcome # "degraded"
      <3>1. result # None
        BY ShownMeans DEF TurnIInv
      <3>2. result.outcome = "degraded" => result.confidence = "low"
        BY <3>1 DEF TurnIInv, Rightful, DegradedConfidence
      <3> QED
        BY <2>1, <3>2
    <2> QED
      BY <2>1, <2>2, <2>3 DEF Verdict, Verified
  <1>2. /\ answer \in AnswerObject
        /\ \A k \in DOMAIN answer.citations : Supported(answer.citations[k])
        /\ Confidence(answer, ask.tiers, Len(recorded.attempts)) = "high"
    BY <1>1, ShownIsUpright
  <1>3. /\ Len(recorded.attempts) = 1
        /\ \E j, k \in DOMAIN answer.citations :
              /\ RefOf(answer.citations[j]) # RefOf(answer.citations[k])
              /\ \A i \in {j, k} :
                    /\ answer.citations[i].slot = "arguments"
                    /\ TierOf(answer.citations[i].corpus, ask.tiers) \in Authoritative
    <2> HIDE DEF answer
    <2> QED
      BY <1>2, HighMeansTwo
  <1>4. PICK j, k \in DOMAIN answer.citations :
           /\ RefOf(answer.citations[j]) # RefOf(answer.citations[k])
           /\ \A i \in {j, k} :
                 /\ answer.citations[i].slot = "arguments"
                 /\ TierOf(answer.citations[i].corpus, ask.tiers) \in Authoritative
    BY <1>3
  <1>5. \A i \in {j, k} :
           /\ answer.citations[i].slot = "arguments"
           /\ ask.tiers[answer.citations[i].corpus] \in {"binding", "governing"}
           /\ Sourced(answer.citations[i])
    BY <1>2, <1>4 DEF TierOf, Authoritative, Supported
  <1> QED
    BY <1>3, <1>4, <1>5 DEF HighConfidenceIsCorroborated

\* High confidence is printed only for a first attempt that rests on two places
\* in corpora that bind or govern (confidence.go).
THEOREM HighConfidenceIsCorroboratedHolds == Spec => []HighConfidenceIsCorroborated
    BY HighConfidenceIsCorroboratedFollows, TurnIInvHolds, PTL

LEMMA RetryIsInformedFollows == TurnIInv => RetryIsInformed
    BY DEF TurnIInv, Informed, RetryIsInformed, FailedResults

\* The second generation is told exactly what the first got wrong (turn.go, Ask).
THEOREM RetryIsInformedHolds == Spec => []RetryIsInformed
    BY RetryIsInformedFollows, TurnIInvHolds, PTL

LEMMA TraceExplainsOutcomeFollows == TurnIInv => TraceExplainsOutcome
  <1> SUFFICES ASSUME TurnIInv, recorded # None PROVE TraceExplainsOutcome
    BY DEF TraceExplainsOutcome
  <1>1. /\ recorded.attempts = attempts /\ recorded.outcome = result.outcome
        /\ result # None /\ attempts \in Seq(Attempt)
    BY DEF TurnIInv, TurnInv, Ordered, TurnRows, TypeOK
  <1>2. /\ \A i \in DOMAIN attempts :
              Explained(attempts[i], i, Len(attempts), result # None /\ Verified)
        /\ CleanAttempt(attempts[Len(attempts)]) <=> Verified
        /\ attempts[Len(attempts)].failed <=> result.outcome = "generation-failed"
    BY <1>1 DEF TurnIInv, Accounted
  <1>3. ASSUME NEW i \in 1..Len(attempts)
        PROVE  /\ attempts[i].number = i
               /\ Len(attempts[i].results) = Len(attempts[i].answer.citations)
               /\ \A k \in DOMAIN attempts[i].results :
                     attempts[i].results[k].ref = RefOf(attempts[i].answer.citations[k])
               /\ CleanAttempt(attempts[i]) => i = Len(attempts)
    BY <1>1, <1>2 DEF Explained, About
  <1>4. Verified <=> recorded.outcome \in {"verified", "regenerated"}
    BY <1>1 DEF Verified
  <1> QED
    BY <1>1, <1>2, <1>3, <1>4 DEF TraceExplainsOutcome, CleanAttempt, Passed

\* The recorded attempts explain the recorded outcome to a reader who has only
\* the trace tables (turn.go, Ask; trace.go, Write).
THEOREM TraceExplainsOutcomeHolds == Spec => []TraceExplainsOutcome
    BY TraceExplainsOutcomeFollows, TurnIInvHolds, PTL

LEMMA SchemaAcceptsFollows == TurnIInv => SchemaAccepts
  <1> SUFFICES ASSUME TurnIInv, pc = "record" PROVE SchemaAccepts
    BY DEF SchemaAccepts
  <1>1. /\ result # None /\ result \in Verdict /\ attempts \in Seq(Attempt)
        /\ Len(attempts) \in Nat
    BY DEF TurnIInv, TurnInv, Delivering, TypeOK
  <1>2. /\ attempts # <<>> /\ Len(attempts) <= 2
        /\ \A i \in DOMAIN attempts : attempts[i].number = i
        /\ result.outcome = "verified" <=> Len(attempts) = 1
    BY <1>1 DEF TurnIInv, Accounted, Explained, maxAttempts
  <1>3. Len(attempts) \in {1, 2} /\ DOMAIN attempts \subseteq {1, 2}
    <2>1. Len(attempts) # 0 /\ DOMAIN attempts = 1..Len(attempts)
      BY <1>1, <1>2
    <2> QED
      BY <1>1, <1>2, <2>1
  <1>4. /\ (result.answer = None) <=> (result.outcome = "generation-failed")
        /\ (result.confidence = None) <=> (result.outcome = "generation-failed")
    BY <1>1, NoneAssumption DEF Verdict
  <1>5. \A i, j \in DOMAIN attempts : attempts[i].number = attempts[j].number => i = j
    BY <1>2
  <1>6. \A i \in DOMAIN attempts : attempts[i].number \in {1, 2}
    BY <1>2, <1>3
  <1>7. result.outcome \in {"regenerated", "degraded", "generation-failed"} => Len(attempts) = 2
    BY <1>2, <1>3
  <1>8. ASSUME ~Recordable
        PROVE  Blank(ask.query) \/ \E i \in DOMAIN attempts : ~attempts[i].complete
    BY <1>2, <1>4, <1>6, <1>8 DEF Recordable, maxAttempts
  <1> QED
    BY <1>2, <1>3, <1>4, <1>5, <1>6, <1>7, <1>8 DEF SchemaAccepts

\* The CHECK constraints accept the shape of every turn, and validate refuses one
\* for its question or an incomplete trace only (trace.go, validate; migrations
\* 000002, 000003, 000007).
THEOREM SchemaAcceptsHolds == Spec => []SchemaAccepts
    BY SchemaAcceptsFollows, TurnIInvHolds, PTL
=============================================================================
