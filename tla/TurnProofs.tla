----------------------------- MODULE TurnProofs -----------------------------
(***************************************************************************)
(* Proofs about Turn, for every profile, answer, corpus and edition, and   *)
(* however often ingestion commits during the turn.                        *)
(***************************************************************************)
EXTENDS Turn, TLAPS

---------------------------------------------------------------------------
(* Types of what verification computes.                                    *)

LEMMA EmptyAnswerType == EmptyAnswer \in AnswerObject
  <1>1. EmptyAnswer \in Answer
    BY StringsAssumption DEF EmptyAnswer, Answer
  <1>2. \A k \in DOMAIN EmptyAnswer.citations :
            EmptyAnswer.citations[k].claim \in 1..Claims(EmptyAnswer, EmptyAnswer.citations[k].slot)
    BY DEF EmptyAnswer
  <1> QED
    BY <1>1, <1>2 DEF AnswerObject

LEMMA CheckCitationType ==
    ASSUME NEW citation \in Citation, NEW tiers, NEW row, NEW serveLocalOnly
    PROVE  CheckCitation(citation, tiers, row, serveLocalOnly) \in Result
  <1>1. /\ (row.text # None) \in BOOLEAN
        /\ (row.text # None /\ QuoteFound(row.text, citation.quote)) \in BOOLEAN
        /\ TierPermitted(citation, tiers) \in BOOLEAN
        /\ (row.text # None /\ ServingPermitted(row.license, serveLocalOnly)) \in BOOLEAN
    BY DEF TierPermitted
  <1>2. RefOf(citation) \in Ref
    BY DEF Citation, RefOf, Ref
  <1> QED
    BY <1>1, <1>2 DEF CheckCitation, Result

LEMMA AnswerFailuresType ==
    ASSUME NEW answer \in AnswerObject, NEW tiers, NEW loci, NEW verified,
           Rulings(loci) \subseteq Ref
    PROVE  AnswerFailures(answer, tiers, loci, verified) \subseteq AnswerFailure
  <1>0. /\ answer.arguments \in Nat /\ answer.descriptions \in Nat
        /\ answer.contrary_positions \in Nat
    BY DEF AnswerObject, Answer
  <1>1. UncitedClaims(answer) \subseteq AnswerFailure
    BY <1>0 DEF UncitedClaims, Uncited, Failure, AnswerFailure, FailureCode, Slot
  <1>2. ArgumentsLackingAuthority(answer, tiers) \subseteq AnswerFailure
    BY <1>0 DEF ArgumentsLackingAuthority, Failure, AnswerFailure, FailureCode, Slot
  <1>3. PositionRule(answer) \subseteq AnswerFailure
    BY DEF PositionRule, Only, Failure, AnswerFailure, FailureCode, Slot
  <1>4. ContestRules(answer, loci) \subseteq AnswerFailure
    <2>1. ASSUME answer.locus \in DOMAIN loci PROVE loci[answer.locus] \in Ref
      BY <2>1 DEF Rulings
    <2>2. ContestedFailure(answer, loci) \subseteq AnswerFailure
      BY <2>1 DEF ContestedFailure, Failure, FailureAt, AnswerFailure, FailureCode, Slot
    <2> QED
      BY <2>2 DEF ContestRules, Only, Failure, AnswerFailure, FailureCode, Slot
  <1>5. OmissionRule(answer, loci, verified) \subseteq AnswerFailure
    BY DEF OmissionRule, FailureAt, AnswerFailure, FailureCode, Slot
  <1>6. SilenceRules(answer) \subseteq AnswerFailure
    BY DEF SilenceRules, Only, Failure, AnswerFailure, FailureCode, Slot
  <1> QED
    BY <1>1, <1>2, <1>3, <1>4, <1>5, <1>6 DEF AnswerFailures

LEMMA ConfidenceType ==
    ASSUME NEW answer, NEW tiers, NEW attempt
    PROVE  Confidence(answer, tiers, attempt) \in {"high", "medium", "low"}
    BY DEF Confidence

---------------------------------------------------------------------------
(* The type invariant.                                                     *)

\* A turn being delivered has an outcome.
Delivering == pc \in {"describe", "record", "print"} => result # None

LEMMA AskType ==
    ASSUME NEW a \in Asks
    PROVE  DOMAIN a.tiers \subseteq Corpora
    BY AsksAssumption DEF Ask

LEMMA FailuresType == TypeOK => Failures \subseteq AnswerFailure
  <1> SUFFICES ASSUME TypeOK PROVE Failures \subseteq AnswerFailure
    OBVIOUS
  <1>1. Rulings(ask.loci) \subseteq Ref
    BY AsksAssumption DEF TypeOK, Ask, Rulings
  <1> QED
    BY <1>1, AnswerFailuresType DEF TypeOK, Failures

LEMMA JudgedAttemptType ==
    TypeOK => JudgedAttempt \in Attempt /\ Append(attempts, JudgedAttempt) \in Seq(Attempt)
  <1> SUFFICES ASSUME TypeOK PROVE JudgedAttempt \in Attempt
    BY DEF TypeOK
  <1>1. Number \in Nat \ {0}
    BY DEF TypeOK, Number
  <1> QED
    BY <1>1, FailuresType DEF JudgedAttempt, Attempt, TypeOK

LEMMA FailedAttemptType ==
    ASSUME TypeOK, NEW complete \in BOOLEAN
    PROVE  Append(attempts, FailedAttempt(complete)) \in Seq(Attempt)
  <1>1. Number \in Nat \ {0}
    BY DEF TypeOK, Number
  <1>2. FailedAttempt(complete) \in Attempt
    BY <1>1, EmptyAnswerType DEF FailedAttempt, Attempt
  <1> QED
    BY <1>2 DEF TypeOK

LEMMA FailedResultsType ==
    ASSUME NEW results \in Seq(Result) PROVE FailedResults(results) \subseteq Result
    BY DEF FailedResults

LEMMA TypeInit == Init => TypeOK
  <1> SUFFICES ASSUME Init PROVE TypeOK
    OBVIOUS
  <1>1. /\ chunks \in [Ref -> Strings \cup {None}]
        /\ license \in [Corpora -> License \cup {"unknown"}]
        /\ embedded \subseteq {r \in Ref : chunks[r] # None}
    BY StoredAssumption DEF Init, Tables
  <1>2. draft \in [answer : AnswerObject, complete : BOOLEAN, results : Seq(Result)]
    BY EmptyAnswerType DEF Init
  <1>3. feedback \in [results : SUBSET Result, failures : SUBSET AnswerFailure]
    BY DEF Init, NoFeedback
  <1> QED
    BY <1>1, <1>2, <1>3, MaxWritesAssumption DEF Init, TypeOK, Running

LEMMA TypeIngestion == TypeOK /\ Ingestion => TypeOK'
  <1> SUFFICES ASSUME TypeOK, Ingestion PROVE TypeOK'
    OBVIOUS
  <1>1. ASSUME NEW e \in Editions, CommitText(e) PROVE TypeOK'
    <2>1. e \in Edition
      BY EditionsAssumption
    <2>2. chunks' \in [Ref -> Strings \cup {None}]
      BY <1>1, <2>1 DEF CommitText, Edition, Ref, TypeOK
    <2>3. license' \in [Corpora -> License \cup {"unknown"}]
      BY <1>1, <2>1 DEF CommitText, Edition, TypeOK
    <2>4. embedded' \subseteq {r \in Ref : chunks'[r] # None}
      BY <1>1 DEF CommitText, TypeOK
    <2>5. writes' \in 0..MaxWrites
      BY <1>1, MaxWritesAssumption DEF CommitText, TypeOK
    <2> QED
      BY <1>1, <2>2, <2>3, <2>4, <2>5 DEF CommitText, TypeOK, turn
  <1>2. ASSUME NEW corpus \in Corpora, CommitVectors(corpus) PROVE TypeOK'
    <2>1. writes' \in 0..MaxWrites
      BY <1>2, MaxWritesAssumption DEF CommitVectors, TypeOK
    <2>2. embedded' \subseteq {r \in Ref : chunks'[r] # None}
      BY <1>2 DEF CommitVectors, TypeOK
    <2> QED
      BY <1>2, <2>1, <2>2 DEF CommitVectors, TypeOK, turn
  <1> QED
    BY <1>1, <1>2 DEF Ingestion

LEMMA TypeLoad == TypeOK /\ Load => TypeOK'
    BY DEF Load, ProbeCorpus, LoadFails, TypeOK, Running, Ended, tables, turn

LEMMA TypeGenerate == TypeOK /\ Generate => TypeOK'
  <1> SUFFICES ASSUME TypeOK, Generate PROVE TypeOK'
    OBVIOUS
  <1>1. ASSUME NEW answer \in Answers \cup {EmptyAnswer}, NEW complete \in BOOLEAN,
               ReceiveAnswer(answer, complete)
        PROVE  TypeOK'
    <2>1. answer \in AnswerObject
      BY AnswersAssumption, EmptyAnswerType
    <2>2. draft' \in [answer : AnswerObject, complete : BOOLEAN, results : Seq(Result)]
      BY <1>1, <2>1 DEF ReceiveAnswer
    <2> QED
      BY <1>1, <2>2 DEF ReceiveAnswer, TypeOK, Running, tables
  <1>2. ASSUME NEW complete \in BOOLEAN, ReceiveGenerationFailure(complete)
        PROVE  TypeOK'
    <2>1. attempts' \in Seq(Attempt)
      BY <1>2, FailedAttemptType DEF ReceiveGenerationFailure
    <2>2. result' \in Verdict \cup {None}
      BY <1>2 DEF ReceiveGenerationFailure, TypeOK, Outcome, Verdict
    <2> QED
      BY <1>2, <2>1, <2>2 DEF ReceiveGenerationFailure, TypeOK, Running, tables
  <1>3. CASE GenerateFails
    BY <1>3 DEF GenerateFails, TypeOK, Ended, tables, turn
  <1> QED
    BY <1>1, <1>2, <1>3 DEF Generate

LEMMA TypeVerify == TypeOK /\ Verify => TypeOK'
  <1> SUFFICES ASSUME TypeOK, Verify PROVE TypeOK'
    OBVIOUS
  <1>1. CASE CheckNextCitation
    <2> DEFINE citation == draft.answer.citations[Len(draft.results) + 1]
    <2>1. citation \in Citation
      BY <1>1 DEF CheckNextCitation, Unchecked, TypeOK, AnswerObject, Answer
    <2> DEFINE checked == CheckCitation(citation, ask.tiers, Lookup(RefOf(citation)),
                                        ask.serveLocalOnly)
    <2>2. checked \in Result
      BY <2>1, CheckCitationType
    <2>3. draft' = [draft EXCEPT !.results = Append(@, checked)]
      BY <1>1 DEF CheckNextCitation
    <2> HIDE DEF checked
    <2>4. Append(draft.results, checked) \in Seq(Result)
      BY <2>2 DEF TypeOK
    <2>5. draft' \in [answer : AnswerObject, complete : BOOLEAN, results : Seq(Result)]
      BY <2>3, <2>4 DEF TypeOK
    <2> QED
      BY <1>1, <2>5 DEF CheckNextCitation, TypeOK, tables
  <1>2. CASE LookupFails
    BY <1>2 DEF LookupFails, TypeOK, Ended, tables, turn
  <1>3. ASSUME Judged, result' \in Verdict \cup {None}, pc' \in Running,
               feedback' \in [results : SUBSET Result, failures : SUBSET AnswerFailure]
        PROVE  TypeOK'
    BY <1>3, JudgedAttemptType DEF Judged, TypeOK, tables
  <1>4. CASE Accept
    <2>1. result' \in Verdict
      BY <1>4, ConfidenceType DEF Accept, Outcome, Verdict, TypeOK
    <2> QED
      BY <1>3, <1>4, <2>1 DEF Accept, TypeOK, Running
  <1>5. CASE Regenerate
    <2>1. feedback' \in [results : SUBSET Result, failures : SUBSET AnswerFailure]
      BY <1>5, FailedResultsType, FailuresType DEF Regenerate, TypeOK
    <2> QED
      BY <1>3, <1>5, <2>1 DEF Regenerate, TypeOK, Running
  <1>6. CASE Degrade
    <2>1. result' \in Verdict
      BY <1>6, EmptyAnswerType DEF Degrade, Outcome, Verdict, DegradedConfidence
    <2> QED
      BY <1>3, <1>6, <2>1 DEF Degrade, TypeOK, Running
  <1> QED
    BY <1>1, <1>2, <1>4, <1>5, <1>6 DEF Verify

LEMMA TurnRowsType == TypeOK /\ result # None => TurnRows \in TurnRow
    BY DEF TypeOK, TurnRows, TurnRow, Verdict

LEMMA ViewType == TypeOK /\ result # None => View \in Screen
  <1> SUFFICES ASSUME TypeOK, result # None PROVE View \in Screen
    OBVIOUS
  <1>1. /\ result.answer \in AnswerObject \cup {None}
        /\ result.confidence \in {"high", "medium", "low", None}
        /\ \/ result.outcome \in {"generation-failed", "degraded"} /\ ~Verified
           \/ result.outcome \notin {"generation-failed", "degraded"} /\ Verified
    BY DEF TypeOK, Verdict, Verified
  <1>2. View.kind \in {"answer", "silence", "refusal", "no-answer"}
    BY <1>1 DEF View
  <1> QED
    BY <1>1, <1>2 DEF View, Screen

LEMMA TypeDeliver == TypeOK /\ Delivering /\ Deliver => TypeOK'
  <1> SUFFICES ASSUME TypeOK, Delivering, Deliver PROVE TypeOK'
    OBVIOUS
  <1>1. CASE Describe
    BY <1>1 DEF Describe, TypeOK, Running, Ended, tables, turn
  <1>2. CASE Record
    BY <1>2, TurnRowsType DEF Record, Delivering, TypeOK, Running, tables, turn
  <1>3. CASE RecordFails
    BY <1>3, TurnRowsType DEF RecordFails, Delivering, TypeOK, Ended, tables, turn
  <1>4. CASE Render
    BY <1>4, ViewType DEF Render, Delivering, TypeOK, Ended, tables, turn
  <1> QED
    BY <1>1, <1>2, <1>3, <1>4 DEF Deliver

LEMMA TypeNext == TypeOK /\ Delivering /\ [Next]_vars => TypeOK'
  <1> SUFFICES ASSUME TypeOK, Delivering, [Next]_vars PROVE TypeOK'
    OBVIOUS
  <1>1. CASE Kill
    BY <1>1 DEF Kill, TypeOK, Ended, tables, turn
  <1>2. CASE UNCHANGED vars
    BY <1>2 DEF vars, tables, turn, TypeOK
  <1> QED
    BY <1>1, <1>2, TypeIngestion, TypeLoad, TypeGenerate, TypeVerify, TypeDeliver
    DEF Next, Gateway

LEMMA NotNone ==
    /\ \A v \in Verdict : v # None
    /\ \A r \in TurnRow : r # None
    /\ \A s \in Screen : s # None
    BY NoneAssumption

LEMMA DeliveringNext == TypeOK /\ Delivering /\ [Next]_vars => Delivering'
  <1> SUFFICES ASSUME TypeOK, Delivering, [Next]_vars PROVE Delivering'
    OBVIOUS
  <1> USE DEF Delivering
  <1>1. CASE Ingestion
    BY <1>1 DEF Ingestion, CommitText, CommitVectors, turn
  <1>2. CASE Load
    BY <1>2 DEF Load, ProbeCorpus, LoadFails, turn
  <1>3. CASE Generate
    <2>1. ASSUME NEW complete \in BOOLEAN, ReceiveGenerationFailure(complete)
          PROVE  Delivering'
      <3>1. Outcome("generation-failed", None, None) \in Verdict
        BY DEF Outcome, Verdict
      <3> QED
        BY <2>1, <3>1, NotNone DEF ReceiveGenerationFailure
    <2> QED
      BY <1>3, <2>1 DEF Generate, ReceiveAnswer, GenerateFails
  <1>4. CASE Accept
    <2>1. result' \in Verdict
      BY <1>4, ConfidenceType DEF Accept, Outcome, Verdict, TypeOK
    <2> QED
      BY <2>1, NotNone
  <1>5. CASE Degrade
    <2>1. result' \in Verdict
      BY <1>5, EmptyAnswerType DEF Degrade, Outcome, Verdict, DegradedConfidence
    <2> QED
      BY <2>1, NotNone
  <1>6. CASE CheckNextCitation \/ LookupFails \/ Regenerate
    BY <1>6 DEF CheckNextCitation, LookupFails, Regenerate, turn
  <1>7. CASE Deliver
    BY <1>7 DEF Deliver, Describe, Record, RecordFails, Render, turn
  <1>8. CASE Kill
    BY <1>8 DEF Kill
  <1>9. CASE UNCHANGED vars
    BY <1>9 DEF vars, turn
  <1> QED
    BY <1>1, <1>2, <1>3, <1>4, <1>5, <1>6, <1>7, <1>8, <1>9 DEF Next, Gateway, Verify

\* Every variable keeps its type, whatever Catena sends and ingestion commits.
THEOREM TypeOKHolds == Spec => []TypeOK
  <1>1. Init => Delivering
    BY DEF Init, Delivering
  <1> QED
    BY <1>1, TypeInit, TypeNext, DeliveringNext, PTL DEF Spec

---------------------------------------------------------------------------
(* The order of a turn.                                                    *)

\* What each point of run() has already done and not yet done, and that what is
\* recorded or shown is the turn's outcome.
Ordered ==
    /\ pc = "load" => attempts = <<>>
    /\ pc \in {"load", "generate", "verify"} => Len(attempts) < maxAttempts /\ result = None
    /\ pc \in Running \ {"print"} => recorded = None
    /\ pc \in Running => screen = None
    /\ pc = "print" => recorded # None
    /\ recorded # None => result # None /\ recorded = TurnRows
    /\ screen # None => recorded # None /\ screen = View

TurnInv == TypeOK /\ Delivering /\ Ordered

LEMMA OrderedInit == Init => Ordered
    BY DEF Init, Ordered, maxAttempts, Running

\* Nothing that happens outside the turn disturbs what it has done.
LEMMA OrderedAside ==
    ASSUME TypeOK, Ordered, UNCHANGED <<attempts, result, recorded, screen>>,
           \/ pc' = pc
           \/ pc' \in Ended
           \/ pc = "load" /\ pc' = "generate"
           \/ pc = "generate" /\ pc' = "verify"
           \/ pc = "describe" /\ pc' = "record"
    PROVE  Ordered'
  <1>1. TurnRows' = TurnRows /\ View' = View
    BY DEF TurnRows, View, Verified
  <1> QED
    BY <1>1 DEF Ordered, Running, Ended, maxAttempts, TypeOK

LEMMA OrderedGenerate == TurnInv /\ Generate => Ordered'
  <1> SUFFICES ASSUME TurnInv, Generate PROVE Ordered'
    OBVIOUS
  <1>1. ASSUME NEW answer \in Answers \cup {EmptyAnswer}, NEW complete \in BOOLEAN,
               ReceiveAnswer(answer, complete)
        PROVE  Ordered'
    BY <1>1, OrderedAside DEF ReceiveAnswer, TurnInv
  <1>2. ASSUME NEW complete \in BOOLEAN, ReceiveGenerationFailure(complete)
        PROVE  Ordered'
    <2>1. Len(attempts') = Len(attempts) + 1 /\ Number = Len(attempts) + 1
      BY <1>2 DEF ReceiveGenerationFailure, TurnInv, TypeOK, Number
    <2>2. /\ pc = "generate" /\ pc' \in {"generate", "describe"}
          /\ recorded' = recorded /\ screen' = screen
          /\ pc' = "generate" => Number < maxAttempts /\ result' = result
      BY <1>2 DEF ReceiveGenerationFailure
    <2> QED
      BY <2>1, <2>2 DEF TurnInv, TypeOK, Ordered, Running, maxAttempts
  <1>3. CASE GenerateFails
    BY <1>3, OrderedAside DEF GenerateFails, TurnInv, Ended, turn
  <1> QED
    BY <1>1, <1>2, <1>3 DEF Generate

LEMMA JudgedCounts ==
    ASSUME TurnInv, Judged
    PROVE  /\ Len(attempts') = Len(attempts) + 1
           /\ Number = Len(attempts) + 1
           /\ Len(attempts) < maxAttempts
           /\ recorded' = recorded /\ recorded = None
           /\ screen' = screen /\ screen = None
           /\ result = None
  <1>1. Append(attempts, JudgedAttempt) \in Seq(Attempt)
    BY JudgedAttemptType DEF TurnInv
  <1> QED
    BY <1>1 DEF TurnInv, TypeOK, Judged, Ordered, Running, Number

LEMMA OrderedVerify == TurnInv /\ Verify => Ordered'
  <1> SUFFICES ASSUME TurnInv, Verify PROVE Ordered'
    OBVIOUS
  <1>1. CASE CheckNextCitation
    BY <1>1, OrderedAside DEF CheckNextCitation, TurnInv
  <1>2. CASE LookupFails
    BY <1>2, OrderedAside DEF LookupFails, TurnInv, Ended, turn
  <1>3. CASE Accept \/ Degrade
    <2>1. Judged /\ pc' = "describe"
      BY <1>3 DEF Accept, Degrade
    <2> QED
      BY <2>1, JudgedCounts DEF Ordered, Running
  <1>4. CASE Regenerate
    <2>1. Judged /\ pc' = "generate" /\ Number < maxAttempts /\ result' = result
      BY <1>4 DEF Regenerate
    <2> QED
      BY <2>1, JudgedCounts DEF Ordered, Running
  <1> QED
    BY <1>1, <1>2, <1>3, <1>4 DEF Verify

LEMMA OrderedDeliver == TurnInv /\ Deliver => Ordered'
  <1> SUFFICES ASSUME TurnInv, Deliver PROVE Ordered'
    OBVIOUS
  <1>1. CASE Describe
    BY <1>1, OrderedAside DEF Describe, TurnInv, Ended, turn
  <1>2. CASE Record \/ RecordFails
    <2>1. /\ pc = "record" /\ pc' \in {"print", "failed"} /\ result # None
          /\ recorded' \in {recorded, TurnRows}
          /\ pc' = "print" => recorded' = TurnRows
          /\ UNCHANGED <<attempts, result, screen>> /\ recorded = None /\ screen = None
      BY <1>2 DEF Record, RecordFails, TurnInv, Delivering, Ordered, Running, turn
    <2>2. TurnRows # None
      BY <2>1, TurnRowsType, NotNone DEF TurnInv
    <2>3. TurnRows' = TurnRows
      BY <2>1 DEF TurnRows
    <2> QED
      BY <2>1, <2>2, <2>3 DEF Ordered, Running
  <1>3. CASE Render
    <2>1. /\ pc = "print" /\ pc' \in {"ok", "failed"} /\ screen' = View
          /\ UNCHANGED <<attempts, result, recorded>> /\ recorded # None
      BY <1>3 DEF Render, TurnInv, Ordered, turn
    <2>2. TurnRows' = TurnRows /\ View' = View
      BY <2>1 DEF TurnRows, View, Verified
    <2> QED
      BY <2>1, <2>2 DEF TurnInv, Ordered, Running
  <1> QED
    BY <1>1, <1>2, <1>3 DEF Deliver

LEMMA TurnNext == TurnInv /\ [Next]_vars => TurnInv'
  <1> SUFFICES ASSUME TurnInv, [Next]_vars PROVE TurnInv'
    OBVIOUS
  <1>1. TypeOK' /\ Delivering'
    BY TypeNext, DeliveringNext DEF TurnInv
  <1>2. CASE Ingestion
    <2>1. pc' = pc /\ UNCHANGED <<attempts, result, recorded, screen>>
      BY <1>2 DEF Ingestion, CommitText, CommitVectors, turn
    <2> QED
      BY <1>1, <2>1, OrderedAside DEF TurnInv
  <1>3. CASE Load
    <2>1. /\ pc = "load" /\ pc' \in {"load", "generate", "refused"}
          /\ UNCHANGED <<attempts, result, recorded, screen>>
      BY <1>3 DEF Load, ProbeCorpus, LoadFails, turn
    <2> QED
      BY <1>1, <2>1, OrderedAside DEF TurnInv, Ended
  <1>4. CASE Kill \/ UNCHANGED vars
    <2>1. pc' \in {pc, "killed"} /\ UNCHANGED <<attempts, result, recorded, screen>>
      BY <1>4 DEF Kill, vars, turn
    <2> QED
      BY <1>1, <2>1, OrderedAside DEF TurnInv, Ended
  <1> QED
    BY <1>1, <1>2, <1>3, <1>4, OrderedGenerate, OrderedVerify, OrderedDeliver
    DEF TurnInv, Next, Gateway

THEOREM TurnHolds == Spec => []TurnInv
  <1>1. Init => TurnInv
    BY TypeInit, OrderedInit DEF Init, Delivering, TurnInv
  <1> QED
    BY <1>1, TurnNext, PTL DEF Spec

LEMMA ShownIsRecordedFollows == TurnInv => ShownIsRecorded
  <1> SUFFICES ASSUME TurnInv, screen # None PROVE ShownIsRecorded
    BY DEF ShownIsRecorded
  <1>1. recorded # None /\ recorded = TurnRows /\ screen = View /\ result \in Verdict
    BY DEF TurnInv, Ordered, TypeOK
  <1>2. /\ recorded.outcome = result.outcome
        /\ recorded.answer = result.answer
        /\ recorded.confidence = result.confidence
        /\ screen.answer = result.answer
        /\ screen.confidence = result.confidence
    BY <1>1 DEF TurnRows, View
  <1>3. CASE result.outcome = "generation-failed"
    <2>1. screen.kind = "no-answer"
      BY <1>1, <1>3 DEF View, Verified
    <2> QED
      BY <1>1, <1>2, <1>3, <2>1 DEF ShownIsRecorded
  <1>4. CASE result.outcome = "degraded"
    <2>1. screen.kind = "refusal"
      BY <1>1, <1>4 DEF View, Verified
    <2> QED
      BY <1>1, <1>2, <1>4, <2>1 DEF ShownIsRecorded
  <1>5. CASE Verified
    <2>1. screen.kind \in {"silence", "answer"}
      BY <1>1, <1>5 DEF View, Verified
    <2> QED
      BY <1>1, <1>2, <1>5, <2>1 DEF ShownIsRecorded, Verified
  <1> QED
    BY <1>1, <1>3, <1>4, <1>5 DEF Verdict, Verified

\* Nothing is printed that the trace tables do not already hold: the same
\* outcome, answer and confidence (main.go, deliver).
THEOREM ShownIsRecordedHolds == Spec => []ShownIsRecorded
    BY ShownIsRecordedFollows, TurnHolds, PTL

---------------------------------------------------------------------------
(* The turn implements its contract.                                       *)

\* A step that settles or spends an attempt.
LEMMA AttemptIsContracted ==
    ASSUME TurnInv, recorded' = recorded, screen' = screen, result = None,
           Len(attempts') = Len(attempts) + 1, Len(attempts) \in {0, 1},
           \/ result' = None /\ Len(attempts) = 0
           \/ result' # None /\ result'.outcome = "verified" /\ Len(attempts) = 0
           \/ /\ result' # None /\ Len(attempts) = 1
              /\ result'.outcome \in {"regenerated", "degraded", "generation-failed"}
    PROVE  Contract!Attempt
    BY DEF Contract!Attempt

LEMMA AttemptsSpent ==
    TurnInv /\ pc \in {"generate", "verify"} =>
        Len(attempts) \in {0, 1} /\ Number = Len(attempts) + 1 /\ result = None
  <1> SUFFICES ASSUME TurnInv, pc \in {"generate", "verify"}
               PROVE  Len(attempts) \in {0, 1} /\ result = None
    BY DEF Number
  <1>1. Len(attempts) \in Nat
    BY DEF TurnInv, TypeOK
  <1>2. Len(attempts) < 2 /\ result = None
    BY DEF TurnInv, Ordered, maxAttempts
  <1>3. \A m \in Nat : m < 2 => m \in {0, 1}
    OBVIOUS
  <1> QED
    BY <1>1, <1>2, <1>3

LEMMA GenerateIsContracted ==
    TurnInv /\ Generate => Contract!Next \/ UNCHANGED Contract!contractVars
  <1> SUFFICES ASSUME TurnInv, Generate
               PROVE  Contract!Next \/ UNCHANGED Contract!contractVars
    OBVIOUS
  <1>1. ASSUME NEW complete \in BOOLEAN, ReceiveGenerationFailure(complete)
        PROVE  Contract!Next
    <2>1. /\ pc = "generate" /\ recorded' = recorded /\ screen' = screen
          /\ \/ Number < maxAttempts /\ result' = result
             \/ ~(Number < maxAttempts) /\ result' = Outcome("generation-failed", None, None)
      BY <1>1 DEF ReceiveGenerationFailure
    <2>2. Len(attempts') = Len(attempts) + 1
      BY <1>1 DEF ReceiveGenerationFailure, TurnInv, TypeOK
    <2>3. Outcome("generation-failed", None, None) # None
      BY NotNone DEF Outcome, Verdict
    <2>4. Outcome("generation-failed", None, None).outcome = "generation-failed"
      BY DEF Outcome
    <2>5. Contract!Attempt
      BY <2>1, <2>2, <2>3, <2>4, AttemptsSpent, AttemptIsContracted DEF maxAttempts
    <2> QED
      BY <2>5 DEF Contract!Next
  <1>2. CASE UNCHANGED <<attempts, result, recorded, screen>>
    BY <1>2 DEF Contract!contractVars
  <1> QED
    BY <1>1, <1>2 DEF Generate, ReceiveAnswer, GenerateFails, turn

LEMMA VerifyIsContracted ==
    TurnInv /\ Verify => Contract!Next \/ UNCHANGED Contract!contractVars
  <1> SUFFICES ASSUME TurnInv, Verify
               PROVE  Contract!Next \/ UNCHANGED Contract!contractVars
    OBVIOUS
  <1>1. CASE Accept
    <2>1. result' \in Verdict /\ Judged
      BY <1>1, ConfidenceType DEF Accept, Outcome, Verdict, TurnInv, TypeOK
    <2>2. result' # None
      BY <2>1, NotNone
    <2>3. result'.outcome = IF Number = 1 THEN "verified" ELSE "regenerated"
      BY <1>1 DEF Accept, Outcome
    <2>4. pc = "verify"
      BY <2>1 DEF Judged
    <2>5. Contract!Attempt
      BY <2>1, <2>2, <2>3, <2>4, JudgedCounts, AttemptsSpent, AttemptIsContracted
    <2> QED
      BY <2>5 DEF Contract!Next
  <1>2. CASE Regenerate
    <2>1. Judged /\ Number < maxAttempts /\ result' = result /\ pc = "verify"
      BY <1>2 DEF Regenerate, Judged
    <2>2. Contract!Attempt
      BY <2>1, JudgedCounts, AttemptsSpent, AttemptIsContracted DEF maxAttempts
    <2> QED
      BY <2>2 DEF Contract!Next
  <1>3. CASE Degrade
    <2>1. result' \in Verdict /\ Judged /\ Number = maxAttempts /\ pc = "verify"
      BY <1>3, EmptyAnswerType DEF Degrade, Judged, Outcome, Verdict, DegradedConfidence
    <2>2. result' # None
      BY <2>1, NotNone
    <2>3. result'.outcome = "degraded"
      BY <1>3 DEF Degrade, Outcome
    <2>4. Contract!Attempt
      BY <2>1, <2>2, <2>3, JudgedCounts, AttemptsSpent, AttemptIsContracted DEF maxAttempts
    <2> QED
      BY <2>4 DEF Contract!Next
  <1>4. CASE UNCHANGED <<attempts, result, recorded, screen>>
    BY <1>4 DEF Contract!contractVars
  <1> QED
    BY <1>1, <1>2, <1>3, <1>4 DEF Verify, CheckNextCitation, LookupFails, turn

LEMMA DeliverIsContracted ==
    TurnInv /\ Deliver => Contract!Next \/ UNCHANGED Contract!contractVars
  <1> SUFFICES ASSUME TurnInv, Deliver
               PROVE  Contract!Next \/ UNCHANGED Contract!contractVars
    OBVIOUS
  <1>1. CASE UNCHANGED <<attempts, result, recorded, screen>>
    BY <1>1 DEF Contract!contractVars
  <1>2. CASE (Record \/ RecordFails) /\ recorded' # recorded
    <2>1. /\ pc = "record" /\ recorded' = TurnRows /\ recorded = None /\ result # None
          /\ UNCHANGED <<attempts, result, screen>>
      BY <1>2 DEF Record, RecordFails, TurnInv, Delivering, Ordered, Running, turn
    <2>2. TurnRows # None /\ result \in Verdict
      BY <2>1, TurnRowsType, NotNone DEF TurnInv, TypeOK
    <2>3. recorded'.outcome = result.outcome /\ recorded' # None
      BY <2>1, <2>2 DEF TurnRows
    <2>4. result.outcome # "open"
      BY <2>2 DEF Verdict
    <2>5. Contract!Record
      BY <2>1, <2>3, <2>4 DEF Contract!Record
    <2> QED
      BY <2>5 DEF Contract!Next
  <1>3. CASE Render
    <2>1. /\ pc = "print" /\ screen' = View /\ screen = None /\ recorded # None
          /\ recorded = TurnRows /\ result \in Verdict
          /\ UNCHANGED <<attempts, result, recorded>>
      BY <1>3 DEF Render, TurnInv, Delivering, Ordered, Running, TypeOK, turn
    <2>2. View \in Screen
      BY <2>1, ViewType DEF TurnInv, Ordered
    <2>3. screen' # None
      BY <2>1, <2>2, NotNone
    <2>4. recorded.outcome = result.outcome /\ recorded.outcome # "nothing"
      BY <2>1 DEF TurnRows, Verdict
    <2>5. (IF screen'.kind = "silence" THEN "answer" ELSE screen'.kind)
             = Contract!Notice(recorded.outcome)
      <3>1. CASE result.outcome = "generation-failed"
        <4>1. View.kind = "no-answer" /\ Contract!Notice(result.outcome) = "no-answer"
          BY <3>1 DEF View, Verified, Contract!Notice
        <4> QED
          BY <2>1, <2>4, <4>1
      <3>2. CASE result.outcome = "degraded"
        <4>1. View.kind = "refusal" /\ Contract!Notice(result.outcome) = "refusal"
          BY <3>2 DEF View, Verified, Contract!Notice
        <4> QED
          BY <2>1, <2>4, <4>1
      <3>3. CASE Verified
        <4>1. View.kind \in {"silence", "answer"}
          BY <3>3 DEF View, Verified
        <4>2. Contract!Notice(result.outcome) = "answer"
          BY <3>3 DEF Verified, Contract!Notice
        <4> QED
          BY <2>1, <2>4, <4>1, <4>2
      <3> QED
        BY <2>1, <3>1, <3>2, <3>3 DEF Verdict, Verified
    <2>6. Contract!Show
      BY <2>1, <2>3, <2>4, <2>5 DEF Contract!Show
    <2> QED
      BY <2>6 DEF Contract!Next
  <1> QED
    BY <1>1, <1>2, <1>3 DEF Deliver, Describe, Record, RecordFails, turn

LEMMA ContractInit == Init => Contract!Init
    BY DEF Init, Contract!Init

LEMMA ContractNext == TurnInv /\ [Next]_vars => [Contract!Next]_(Contract!contractVars)
  <1> SUFFICES ASSUME TurnInv, [Next]_vars
               PROVE  Contract!Next \/ UNCHANGED Contract!contractVars
    OBVIOUS
  <1>1. CASE Ingestion \/ Load \/ Kill \/ UNCHANGED vars
    <2>1. UNCHANGED <<attempts, result, recorded, screen>>
      BY <1>1 DEF Ingestion, CommitText, CommitVectors, Load, ProbeCorpus, LoadFails, Kill,
                  vars, turn
    <2> QED
      BY <2>1 DEF Contract!contractVars
  <1> QED
    BY <1>1, GenerateIsContracted, VerifyIsContracted, DeliverIsContracted DEF Next, Gateway

\* At most two generations, one verdict and never revised, recorded before it is
\* shown, and content only under a verdict that verified it (turn.go, Ask;
\* main.go, deliver).
THEOREM KeepsContractHolds == Spec => KeepsContract
    BY ContractInit, ContractNext, TurnHolds, PTL DEF Spec, KeepsContract, Contract!Spec

---------------------------------------------------------------------------
(* What is shown is sourced, whatever ingestion commits meanwhile.         *)

\* What the four checks establish of a citation, of a row held at some moment.
Supported(citation) ==
    /\ Sourced(citation)
    /\ citation.corpus \in DOMAIN ask.tiers
    /\ citation.slot = "arguments" =>
           ask.tiers[citation.corpus] \in {"binding", "governing", "advisory"}

Grounded ==
    /\ Rows(chunks, license) \subseteq held
    /\ Len(draft.results) <= Len(draft.answer.citations)
    /\ \A k \in DOMAIN draft.results :
          Sound(draft.results[k]) => Supported(draft.answer.citations[k])
    /\ result # None /\ Verified =>
          \A k \in DOMAIN result.answer.citations : Supported(result.answer.citations[k])

\* history only grows, so support once established stays.
LEMMA SupportedStays ==
    ASSUME held \subseteq held', ask' = ask, NEW citation, Supported(citation)
    PROVE  Supported(citation)'
    BY DEF Supported, Sourced

LEMMA SoundIsSupported ==
    ASSUME TypeOK, Grounded, NEW citation \in Citation,
           Sound(CheckCitation(citation, ask.tiers, Lookup(RefOf(citation)), ask.serveLocalOnly))
    PROVE  Supported(citation)
  <1> DEFINE ref == RefOf(citation)
             row == [ref |-> ref, text |-> chunks[ref], license |-> license[ref.corpus]]
  <1>1. ref \in Ref
    BY DEF Citation, RefOf, Ref
  <1>2. row \in held
    BY <1>1 DEF Grounded, Rows
  <1>3. /\ chunks[ref] # None
        /\ QuoteFound(chunks[ref], citation.quote)
        /\ ServingPermitted(license[ref.corpus], ask.serveLocalOnly)
        /\ TierPermitted(citation, ask.tiers)
    BY DEF Sound, CheckCitation, Lookup
  <1>4. Sourced(citation)
    BY <1>2, <1>3 DEF Sourced
  <1> QED
    BY <1>3, <1>4 DEF Supported, TierPermitted, PermittedInArgument, Authoritative

LEMMA GroundedInit == Init => Grounded
  <1> SUFFICES ASSUME Init PROVE Grounded
    OBVIOUS
  <1>1. draft.results = <<>> /\ draft.answer = EmptyAnswer /\ result = None
    BY DEF Init
  <1>2. Len(draft.results) <= Len(draft.answer.citations)
    BY <1>1 DEF EmptyAnswer
  <1> QED
    BY <1>1, <1>2 DEF Init, Grounded, Rows

\* Steps that leave the draft and the result alone.
LEMMA GroundedAside ==
    ASSUME Grounded, UNCHANGED <<draft, result, ask>>, held \subseteq held',
           Rows(chunks', license') \subseteq held'
    PROVE  Grounded'
  <1>1. Verified' = Verified
    BY DEF Verified
  <1> QED
    BY <1>1, SupportedStays DEF Grounded, Rows

LEMMA GroundedIngestion == TypeOK /\ Grounded /\ Ingestion => Grounded'
    BY GroundedAside DEF Ingestion, CommitText, CommitVectors, turn, Grounded

\* Steps of the turn that leave the draft and the result alone.
LEMMA GroundedTurn ==
    ASSUME Grounded, UNCHANGED <<tables, ask, draft, result>>
    PROVE  Grounded'
    BY GroundedAside DEF tables, Grounded

LEMMA GroundedGenerate == TurnInv /\ Grounded /\ Generate => Grounded'
  <1> SUFFICES ASSUME TurnInv, Grounded, Generate PROVE Grounded'
    OBVIOUS
  <1>1. ASSUME NEW answer \in Answers \cup {EmptyAnswer}, NEW complete \in BOOLEAN,
               ReceiveAnswer(answer, complete)
        PROVE  Grounded'
    <2>1. answer \in AnswerObject
      BY AnswersAssumption, EmptyAnswerType
    <2>2. draft'.results = <<>> /\ draft'.answer = answer
      BY <1>1 DEF ReceiveAnswer
    <2>3. Len(draft'.results) <= Len(draft'.answer.citations)
      BY <2>1, <2>2 DEF AnswerObject, Answer
    <2>4. result' = None /\ UNCHANGED tables
      BY <1>1 DEF ReceiveAnswer, TurnInv, Ordered
    <2> QED
      BY <2>2, <2>3, <2>4 DEF Grounded, tables, Rows
  <1>2. ASSUME NEW complete \in BOOLEAN, ReceiveGenerationFailure(complete)
        PROVE  Grounded'
    <2>1. result' = None \/ ~Verified'
      BY <1>2 DEF ReceiveGenerationFailure, TurnInv, Ordered, Outcome, Verified
    <2>2. UNCHANGED <<tables, ask, draft>>
      BY <1>2 DEF ReceiveGenerationFailure
    <2> QED
      BY <2>1, <2>2, SupportedStays DEF Grounded, tables, Rows
  <1>3. CASE GenerateFails
    BY <1>3, GroundedTurn DEF GenerateFails, turn
  <1> QED
    BY <1>1, <1>2, <1>3 DEF Generate

LEMMA GroundedCheck == TurnInv /\ Grounded /\ CheckNextCitation => Grounded'
  <1> SUFFICES ASSUME TurnInv, Grounded, CheckNextCitation PROVE Grounded'
    OBVIOUS
  <1> DEFINE n == Len(draft.results) + 1
             citation == draft.answer.citations[n]
             checked == CheckCitation(citation, ask.tiers, Lookup(RefOf(citation)),
                                      ask.serveLocalOnly)
  <1>1. draft.results \in Seq(Result) /\ draft.answer.citations \in Seq(Citation)
    BY DEF TurnInv, TypeOK, AnswerObject, Answer
  <1>2. n \in 1..Len(draft.answer.citations) /\ citation \in Citation
    <2>1. Len(draft.results) \in Nat /\ Len(draft.answer.citations) \in Nat
      BY <1>1
    <2>2. Len(draft.answer.citations) - Len(draft.results) > 0
      BY DEF CheckNextCitation, Unchecked
    <2>3. \A a, b \in Nat : b - a > 0 => a + 1 \in 1..b
      OBVIOUS
    <2>4. n \in 1..Len(draft.answer.citations)
      BY <2>1, <2>2, <2>3
    <2> QED
      BY <1>1, <2>4
  <1>3. checked \in Result /\ (Sound(checked) => Supported(citation))
    BY <1>2, CheckCitationType, SoundIsSupported DEF TurnInv
  <1>4. /\ draft'.results = Append(draft.results, checked)
        /\ draft'.answer = draft.answer
        /\ UNCHANGED <<tables, ask, result>>
    BY DEF CheckNextCitation, TurnInv, TypeOK
  <1> HIDE DEF checked
  <1>5. Len(draft'.results) = n /\ Len(draft'.results) <= Len(draft'.answer.citations)
    BY <1>1, <1>2, <1>3, <1>4
  <1>6. ASSUME NEW k \in DOMAIN draft'.results, Sound(draft'.results[k])
        PROVE  Supported(draft.answer.citations[k])
    <2>1. CASE k = n
      <3>1. draft'.results[k] = checked
        BY <1>1, <1>3, <1>4, <2>1
      <3> QED
        BY <1>3, <1>6, <2>1, <3>1
    <2>2. CASE k # n
      <3>1. k \in DOMAIN draft.results /\ draft'.results[k] = draft.results[k]
        BY <1>1, <1>3, <1>4, <1>5, <1>6, <2>2
      <3> QED
        BY <1>6, <3>1 DEF Grounded
    <2> QED
      BY <2>1, <2>2
  <1>7. \A c : Supported(c)' <=> Supported(c)
    BY <1>4 DEF Supported, Sourced, tables
  <1>8. Verified' = Verified
    BY <1>4 DEF Verified
  <1> QED
    BY <1>4, <1>5, <1>6, <1>7, <1>8 DEF Grounded, tables, Rows

\* An answer is accepted only when every citation of it was checked and sound.
LEMMA GroundedAccept == TurnInv /\ Grounded /\ Accept => Grounded'
  <1> SUFFICES ASSUME TurnInv, Grounded, Accept PROVE Grounded'
    OBVIOUS
  <1>1. draft.results \in Seq(Result) /\ draft.answer.citations \in Seq(Citation)
    BY DEF TurnInv, TypeOK, AnswerObject, Answer
  <1>2. Len(draft.results) = Len(draft.answer.citations)
    BY <1>1 DEF Accept, Judged, Unchecked
  <1>3. \A k \in DOMAIN draft.results : Sound(draft.results[k])
    BY DEF Accept, Passed
  <1>4. \A k \in DOMAIN draft.answer.citations : Supported(draft.answer.citations[k])
    BY <1>1, <1>2, <1>3 DEF Grounded
  <1>5. result'.answer = draft.answer /\ UNCHANGED <<tables, ask, draft>>
    BY DEF Accept, Judged, Outcome
  <1> QED
    BY <1>4, <1>5, SupportedStays DEF Grounded, tables, Rows

LEMMA GroundedNext == TurnInv /\ Grounded /\ [Next]_vars => Grounded'
  <1> SUFFICES ASSUME TurnInv, Grounded, [Next]_vars PROVE Grounded'
    OBVIOUS
  <1>1. CASE Ingestion
    BY <1>1, GroundedIngestion DEF TurnInv
  <1>2. CASE Load \/ LookupFails \/ Regenerate \/ Deliver \/ Kill \/ UNCHANGED vars
    BY <1>2, GroundedTurn
    DEF Load, ProbeCorpus, LoadFails, LookupFails, Regenerate, Judged, Deliver, Describe,
        Record, RecordFails, Render, Kill, vars, turn
  <1>3. CASE Degrade
    <2>1. ~Verified' /\ UNCHANGED <<tables, ask, draft>>
      BY <1>3 DEF Degrade, Judged, Outcome, Verified
    <2> QED
      BY <2>1, SupportedStays DEF Grounded, tables, Rows
  <1> QED
    BY <1>1, <1>2, <1>3, GroundedGenerate, GroundedCheck, GroundedAccept
    DEF Next, Gateway, Verify

\* What is printed is the answer that was accepted.
LEMMA GroundedIsSourced == TurnInv /\ Grounded => ShownIsSourced
  <1> SUFFICES ASSUME TurnInv, Grounded, Shown("answer") PROVE ShownIsSourced
    BY DEF ShownIsSourced
  <1>1. /\ screen # None /\ screen.kind = "answer" /\ screen = View
        /\ result # None /\ result \in Verdict
    BY DEF Shown, TurnInv, Ordered, TypeOK
  <1>2. CASE Verified
    BY <1>1, <1>2 DEF Grounded, Supported, ShownIsSourced, View
  <1>3. CASE result.outcome = "degraded"
    BY <1>1, <1>3 DEF View, Verified
  <1>4. CASE result.outcome = "generation-failed"
    BY <1>1, <1>4 DEF View, Verified
  <1> QED
    BY <1>1, <1>2, <1>3, <1>4 DEF Verdict, Verified

\* Every citation of a printed answer carries its quote in a row its corpus held
\* at some moment of the turn, under a licence servable then, and sits where the
\* profile allows, whatever ingestion committed between its check and the print
\* (verify.go, checkCitation).
THEOREM ShownIsSourcedHolds == Spec => []ShownIsSourced
  <1>1. Init => Grounded
    BY GroundedInit
  <1> QED
    BY <1>1, GroundedIsSourced, GroundedNext, TurnHolds, PTL DEF Spec
=============================================================================
