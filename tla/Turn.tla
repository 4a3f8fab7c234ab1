------------------------------- MODULE Turn -------------------------------
(***************************************************************************)
(* One `berean ask`: cmd/berean's run, turn.Runner.Ask, verify.Engine's    *)
(* lookups, trace.Store.Write and render.Answer, with the corpus tables    *)
(* changing underneath.  The gateway reads the tables one statement at a   *)
(* time, each citation its own Lookup, while `catena ingest` commits.      *)
(*                                                                         *)
(* An action whose name ends in Fails is the error return of the step      *)
(* beside it.  A definition commented Variant is a plausible mistake in    *)
(* the one after it, kept to show that a property would notice.            *)
(***************************************************************************)
EXTENDS Verification

CONSTANTS
    Asks,       \* resolved profile, query and serving opt-in a process starts with
    Answers,    \* the answer objects Catena may send
    Editions,   \* what one committed phase one of ingestion leaves of a corpus
    Stored,     \* the corpus tables a process may find when it starts
    MaxWrites   \* bound on ingestion's commits during the turn

ASSUME AnswersAssumption == Answers \subseteq AnswerObject

\* tiers is the FilterSpec, loci the contested loci sent beside it.
Ask == [tiers : UNION {[S -> Tier] : S \in SUBSET Corpora},
        loci : UNION {[S -> Ref] : S \in SUBSET LocusNames},
        serveLocalOnly : BOOLEAN, query : Strings]

Edition == [corpus : Corpora, license : License \cup {"unknown"},
            texts : [Locators -> Strings \cup {None}]]

ASSUME AsksAssumption == Asks \subseteq Ask
Tables == {t \in [chunks : [Ref -> Strings \cup {None}],
                   license : [Corpora -> License \cup {"unknown"}],
                   embedded : SUBSET Ref] :
              \A r \in t.embedded : t.chunks[r] # None}

ASSUME StoredAssumption == Stored \subseteq Tables
ASSUME EditionsAssumption == Editions \subseteq Edition
ASSUME MaxWritesAssumption == MaxWrites \in Nat

\* Variant: a second regeneration.
oneMoreAttempt == 3

maxAttempts == 2

VARIABLES
    chunks,     \* corpus.chunks: ref -> text, None where no row
    license,    \* corpus.works: corpus -> licence
    embedded,   \* refs with a row in corpus.chunk_embeddings
    writes,     \* ingestion commits so far, at most MaxWrites
    ask,        \* the process's question
    pc,         \* where run() is, or how the process ended
    unprobed,   \* corpora the profile loader has yet to find ingested
    feedback,   \* what the next AnswerRequest carries back
    draft,      \* the response under verification and its results so far
    attempts,   \* turn.Turn.Attempts
    result,     \* turn.Turn's outcome, None until Ask returns one
    recorded,   \* the turn's rows in the trace tables, None before commit
    screen,     \* what was printed, None before the first line
    held        \* history: every row a Lookup could have returned so far

tables == <<chunks, license, embedded, writes, held>>
turn   == <<feedback, draft, attempts, result>>
vars   == <<tables, ask, pc, unprobed, turn, recorded, screen>>

Running == {"load", "generate", "verify", "describe", "record", "print"}
Ended   == {"ok", "refused", "failed", "killed"}

NoFeedback == [results |-> {}, failures |-> {}]

\* The zero value of the answer: what an unset oneof reads as.
EmptyAnswer == [position |-> EmptyString, arguments |-> 0, descriptions |-> 0,
                contrary_positions |-> 0, is_contested |-> FALSE,
                locus |-> EmptyString, state_of_debate |-> EmptyString,
                no_answer_reason |-> EmptyString, citations |-> <<>>]

---------------------------------------------------------------------------
(* The corpus tables, as ingestion leaves them.                            *)

Rows(c, l) == {[ref |-> r, text |-> c[r], license |-> l[r.corpus]] : r \in Ref}

\* Phase one for one corpus: one transaction.  A chunk whose text changed or
\* went away loses its vector in the same transaction.
CommitText(e) ==
    /\ writes < MaxWrites
    /\ writes' = writes + 1
    /\ chunks' = [r \in Ref |-> IF r.corpus = e.corpus THEN e.texts[r.locator] ELSE chunks[r]]
    /\ license' = [license EXCEPT ![e.corpus] = e.license]
    /\ embedded' = {r \in embedded : chunks'[r] = chunks[r]}
    /\ held' = held \cup Rows(chunks', license')
    /\ UNCHANGED <<ask, pc, unprobed, turn, recorded, screen>>

\* One batch of phase two.
CommitVectors(corpus) ==
    /\ writes < MaxWrites
    /\ writes' = writes + 1
    /\ \E batch \in SUBSET {r \in Ref \ embedded : r.corpus = corpus /\ chunks[r] # None} :
          /\ batch # {}
          /\ embedded' = embedded \cup batch
    /\ UNCHANGED <<chunks, license, held, ask, pc, unprobed, turn, recorded, screen>>

---------------------------------------------------------------------------
(* Starting: the profile is refused unless every corpus it names Exists.   *)

Exists(corpus) == \E r \in embedded : r.corpus = corpus

ProbeCorpus(corpus) ==
    /\ pc = "load"
    /\ corpus \in unprobed
    /\ Exists(corpus)
    /\ unprobed' = unprobed \ {corpus}
    /\ pc' = IF unprobed' = {} THEN "generate" ELSE "load"
    /\ UNCHANGED <<tables, ask, turn, recorded, screen>>

\* A corpus that is not ingested, or a database that does not answer.
LoadFails ==
    /\ pc = "load"
    /\ pc' = "refused"
    /\ UNCHANGED <<tables, ask, unprobed, turn, recorded, screen>>

---------------------------------------------------------------------------
(* Ask.                                                                    *)

Number == Len(attempts) + 1

\* The reply carries an answer object.  Verification starts over with no
\* results: nothing of an earlier attempt is judged again.
ReceiveAnswer(answer, complete) ==
    /\ pc = "generate"
    /\ draft' = [answer |-> answer, complete |-> complete, results |-> <<>>]
    /\ pc' = "verify"
    /\ UNCHANGED <<tables, ask, unprobed, feedback, attempts, result, recorded, screen>>

FailedAttempt(complete) ==
    [number |-> Number, failed |-> TRUE, complete |-> complete,
     answer |-> EmptyAnswer, results |-> <<>>, failures |-> {}]

Outcome(outcome, answer, confidence) ==
    [outcome |-> outcome, answer |-> answer, confidence |-> confidence]

\* The reply says why there is no answer object.  Never verified; the feedback
\* of an earlier refusal stays what it was.
ReceiveGenerationFailure(complete) ==
    /\ pc = "generate"
    /\ attempts' = Append(attempts, FailedAttempt(complete))
    /\ IF Number < maxAttempts
       THEN pc' = "generate" /\ result' = result
       ELSE /\ pc' = "describe"
            /\ result' = Outcome("generation-failed", None, None)
    /\ UNCHANGED <<tables, ask, unprobed, feedback, draft, recorded, screen>>

GenerateFails ==
    /\ pc = "generate"
    /\ pc' = "failed"
    /\ UNCHANGED <<tables, ask, unprobed, turn, recorded, screen>>

\* The next citation in answer order, against the tables as they are now.
Lookup(ref) == [text |-> chunks[ref], license |-> license[ref.corpus]]

Unchecked == Len(draft.answer.citations) - Len(draft.results)

CheckNextCitation ==
    /\ pc = "verify"
    /\ Unchecked > 0
    /\ LET citation == draft.answer.citations[Len(draft.results) + 1] IN
       draft' = [draft EXCEPT !.results =
                   Append(@, CheckCitation(citation, ask.tiers, Lookup(RefOf(citation)),
                                           ask.serveLocalOnly))]
    /\ UNCHANGED <<tables, ask, pc, unprobed, feedback, attempts, result, recorded, screen>>

LookupFails ==
    /\ pc = "verify"
    /\ Unchecked > 0
    /\ pc' = "failed"
    /\ UNCHANGED <<tables, ask, unprobed, turn, recorded, screen>>

Failures == AnswerFailures(draft.answer, ask.tiers, ask.loci, VerifiedRefs(draft.results))

\* Variant: the trace keeps only the results that failed.
JudgedAttemptFailuresOnly ==
    [number |-> Number, failed |-> FALSE, complete |-> draft.complete,
     answer |-> draft.answer, results |-> SelectSeq(draft.results, LAMBDA r : ~Sound(r)),
     failures |-> Failures]

JudgedAttempt ==
    [number |-> Number, failed |-> FALSE, complete |-> draft.complete,
     answer |-> draft.answer, results |-> draft.results, failures |-> Failures]

\* Variant: an attempt that verification refused does not use one up.
JudgedUncounted ==
    /\ pc = "verify"
    /\ Unchecked = 0
    /\ attempts' = IF Passed(draft.results, Failures)
                   THEN Append(attempts, JudgedAttempt)
                   ELSE attempts
    /\ UNCHANGED <<tables, ask, unprobed, draft, recorded, screen>>

Judged == /\ pc = "verify"
          /\ Unchecked = 0
          /\ attempts' = Append(attempts, JudgedAttempt)
          /\ UNCHANGED <<tables, ask, unprobed, draft, recorded, screen>>

\* Variant: a regeneration that verified is reported as a first attempt that did.
AcceptAsVerified ==
    /\ Judged
    /\ Passed(draft.results, Failures)
    /\ result' = Outcome("verified", draft.answer,
                         Confidence(draft.answer, ask.tiers, Number))
    /\ pc' = "describe"
    /\ UNCHANGED feedback

\* Variant: the confidence Python sent, which is unset, is let through.
AcceptWithoutConfidence ==
    /\ Judged
    /\ Passed(draft.results, Failures)
    /\ result' = Outcome(IF Number = 1 THEN "verified" ELSE "regenerated", draft.answer, None)
    /\ pc' = "describe"
    /\ UNCHANGED feedback

\* Confidence is overwritten whatever Python sent.
Accept ==
    /\ Judged
    /\ Passed(draft.results, Failures)
    /\ result' = Outcome(IF Number = 1 THEN "verified" ELSE "regenerated",
                         draft.answer,
                         Confidence(draft.answer, ask.tiers, Number))
    /\ pc' = "describe"
    /\ UNCHANGED feedback

FailedResults(results) == {results[k] : k \in {k \in DOMAIN results : ~Sound(results[k])}}

\* Variant: only the citations travel back, not the answer's broken rules.
RegenerateWithoutFailures ==
    /\ Judged
    /\ ~Passed(draft.results, Failures)
    /\ Number < maxAttempts
    /\ feedback' = [results |-> FailedResults(draft.results), failures |-> {}]
    /\ pc' = "generate"
    /\ UNCHANGED result

Regenerate ==
    /\ Judged
    /\ ~Passed(draft.results, Failures)
    /\ Number < maxAttempts
    /\ feedback' = [results |-> FailedResults(draft.results), failures |-> Failures]
    /\ pc' = "generate"
    /\ UNCHANGED result

\* Nothing of either attempt survives into what renders.
Degrade ==
    /\ Judged
    /\ ~Passed(draft.results, Failures)
    /\ Number = maxAttempts
    /\ result' = Outcome("degraded", EmptyAnswer, DegradedConfidence)
    /\ pc' = "describe"
    /\ UNCHANGED feedback

---------------------------------------------------------------------------
(* Delivery: describe, persist, print, in that order.                      *)

\* registry.Works, read for the labels beside the citations.
Describe ==
    /\ pc = "describe"
    /\ pc' \in {"record", "failed"}
    /\ UNCHANGED <<tables, ask, unprobed, turn, recorded, screen>>

\* trace.validate: what Catena and the caller owe every recorded turn.
Recordable ==
    /\ ~Blank(ask.query)
    /\ (result.answer = None) <=> (result.outcome = "generation-failed")
    /\ attempts # <<>>
    /\ \A i \in DOMAIN attempts : /\ attempts[i].number \in 1..maxAttempts
                                  /\ attempts[i].complete

TurnRows == [outcome |-> result.outcome, answer |-> result.answer,
             confidence |-> result.confidence, attempts |-> attempts]

Record ==
    /\ pc = "record"
    /\ Recordable
    /\ recorded' = TurnRows
    /\ pc' = "print"
    /\ UNCHANGED <<tables, ask, unprobed, turn, screen>>

\* Variant: a turn the tables refused is printed all the same.
RecordFailsButPrints ==
    /\ pc = "record"
    /\ recorded' \in {recorded} \cup (IF Recordable THEN {TurnRows} ELSE {})
    /\ pc' = "print"
    /\ UNCHANGED <<tables, ask, unprobed, turn, screen>>

\* Refused by validate, rolled back, or committed with the acknowledgement lost.
RecordFails ==
    /\ pc = "record"
    /\ recorded' \in {recorded} \cup (IF Recordable THEN {TurnRows} ELSE {})
    /\ pc' = "failed"
    /\ UNCHANGED <<tables, ask, unprobed, turn, screen>>

Verified == result.outcome \in {"verified", "regenerated"}

\* render.Answer reads the outcome and the answer and nothing else of the turn.
\* Under no_answer_reason it prints the silence alone; the contested block only
\* when the flag is set.
View ==
    [kind       |-> CASE result.outcome = "generation-failed" -> "no-answer"
                      [] result.outcome = "degraded"          -> "refusal"
                      [] Verified /\ Silent(result.answer)    -> "silence"
                      [] Verified /\ ~Silent(result.answer)   -> "answer",
     answer     |-> result.answer,
     confidence |-> result.confidence]

\* "failed" is a closed stdout: some lines may be out, and nothing retries.
Render ==
    /\ pc = "print"
    /\ screen' = View
    /\ pc' \in {"ok", "failed"}
    /\ UNCHANGED <<tables, ask, unprobed, turn, recorded>>

Kill ==
    /\ pc \in Running
    /\ pc' = "killed"
    /\ UNCHANGED <<tables, ask, unprobed, turn, recorded, screen>>

---------------------------------------------------------------------------
Init ==
    /\ \E t \in Stored : /\ chunks = t.chunks
                         /\ license = t.license
                         /\ embedded = t.embedded
    /\ writes = 0
    /\ held = Rows(chunks, license)
    /\ ask \in Asks
    /\ pc = "load"
    /\ unprobed = DOMAIN ask.tiers
    /\ feedback = NoFeedback
    /\ draft = [answer |-> EmptyAnswer, complete |-> TRUE, results |-> <<>>]
    /\ attempts = <<>>
    /\ result = None
    /\ recorded = None
    /\ screen = None

Ingestion == \/ \E e \in Editions : CommitText(e)
             \/ \E corpus \in Corpora : CommitVectors(corpus)

Load == (\E corpus \in Corpora : ProbeCorpus(corpus)) \/ LoadFails

Generate == \/ \E answer \in Answers \cup {EmptyAnswer}, complete \in BOOLEAN :
                  ReceiveAnswer(answer, complete)
            \/ \E complete \in BOOLEAN : ReceiveGenerationFailure(complete)
            \/ GenerateFails

Verify == CheckNextCitation \/ LookupFails \/ Accept \/ Regenerate \/ Degrade

Deliver == Describe \/ Record \/ RecordFails \/ Render

Gateway == Load \/ Generate \/ Verify \/ Deliver

Next == Ingestion \/ Gateway \/ Kill

Spec == Init /\ [][Next]_vars

\* The process runs, the database answers or errs, and Catena replies or errs:
\* its own call to the model carries a timeout.
FairSpec == Spec /\ WF_vars(Gateway)

---------------------------------------------------------------------------
(* Types.                                                                  *)

Attempt == [number : Nat \ {0}, failed : BOOLEAN, complete : BOOLEAN, answer : AnswerObject,
            results : Seq(Result), failures : SUBSET AnswerFailure]

Verdict == [outcome : {"verified", "regenerated", "degraded"},
            answer : AnswerObject, confidence : {"high", "medium", "low"}]
           \cup [outcome : {"generation-failed"}, answer : {None}, confidence : {None}]

TurnRow == [outcome : {"verified", "regenerated", "degraded", "generation-failed"},
            answer : AnswerObject \cup {None},
            confidence : {"high", "medium", "low", None},
            attempts : Seq(Attempt)]

Screen == [kind : {"answer", "silence", "refusal", "no-answer"},
           answer : AnswerObject \cup {None},
           confidence : {"high", "medium", "low", None}]

ASSUME NoneAssumption ==
    None \notin Strings \cup AnswerObject \cup {"high", "medium", "low"}
                \cup Verdict \cup TurnRow \cup Screen

TypeOK ==
    /\ chunks \in [Ref -> Strings \cup {None}]
    /\ license \in [Corpora -> License \cup {"unknown"}]
    /\ embedded \subseteq {r \in Ref : chunks[r] # None}
    /\ writes \in 0..MaxWrites
    /\ ask \in Asks
    /\ pc \in Running \cup Ended
    /\ unprobed \subseteq DOMAIN ask.tiers
    /\ feedback \in [results : SUBSET Result, failures : SUBSET AnswerFailure]
    /\ draft \in [answer : AnswerObject, complete : BOOLEAN, results : Seq(Result)]
    /\ attempts \in Seq(Attempt)
    /\ result \in Verdict \cup {None}
    /\ recorded \in TurnRow \cup {None}
    /\ screen \in Screen \cup {None}

---------------------------------------------------------------------------
(* What reached the reader.  Tables may change and the process may die     *)
(* between any two steps.                                                  *)

Shown(kind) == screen # None /\ screen.kind = kind

\* Nothing is printed that the trace tables do not already hold: same outcome,
\* same answer, same confidence (main.go, deliver: persist before print).
ShownIsRecorded ==
    screen # None =>
        /\ recorded # None
        /\ recorded.answer = screen.answer
        /\ recorded.confidence = screen.confidence
        /\ recorded.outcome \in CASE screen.kind = "refusal"   -> {"degraded"}
                                  [] screen.kind = "no-answer" -> {"generation-failed"}
                                  [] OTHER -> {"verified", "regenerated"}

\* A row this corpus held at some moment since the process started carries the
\* quote, under a licence that could be served at that same moment.
Sourced(citation) ==
    \E row \in held : /\ row.ref = RefOf(citation)
                      /\ row.text # None
                      /\ QuoteFound(row.text, citation.quote)
                      /\ ServingPermitted(row.license, ask.serveLocalOnly)

\* Every citation of a printed answer is sourced from one committed row, though
\* ingestion may have replaced that row since, and sits where the asker's
\* profile lets its corpus sit (verify.go, the four checks).
ShownIsSourced ==
    Shown("answer") =>
        \A k \in DOMAIN screen.answer.citations :
            LET citation == screen.answer.citations[k] IN
            /\ Sourced(citation)
            /\ citation.corpus \in DOMAIN ask.tiers
            /\ citation.slot = "arguments" =>
                   ask.tiers[citation.corpus] \in {"binding", "governing", "advisory"}

\* No printed argument rests on advisory corpora alone, and none is uncited:
\* each has a citation to a corpus that binds or governs under the profile.
EveryArgumentHasAuthority ==
    Shown("answer") =>
        \A i \in 1..screen.answer.arguments :
            \E k \in DOMAIN screen.answer.citations :
                LET citation == screen.answer.citations[k] IN
                /\ citation.slot = "arguments"
                /\ citation.claim = i
                /\ citation.corpus \in DOMAIN ask.tiers
                /\ ask.tiers[citation.corpus] \in {"binding", "governing"}
                /\ Sourced(citation)

\* A printed answer that cites the ruling of a question the tradition holds
\* open, in whatever slot, says the question is contested; and one that says so
\* takes no side and quotes a contested ruling (verify.go, the omission check).
ContestedIsShownContested ==
    Shown("answer") =>
        /\ (\E k \in DOMAIN screen.answer.citations :
               \E l \in DOMAIN ask.loci : RefOf(screen.answer.citations[k]) = ask.loci[l])
              => screen.answer.is_contested
        /\ screen.answer.is_contested =>
              /\ screen.answer.arguments = 0
              /\ Blank(screen.answer.position)
              /\ \E k \in DOMAIN screen.answer.citations :
                    LET citation == screen.answer.citations[k] IN
                    /\ RefOf(citation) = ask.loci[screen.answer.locus]
                    /\ Contains(Norm(screen.answer.state_of_debate), Norm(citation.quote))
                    /\ Sourced(citation)

\* The renderer prints a silence and drops the rest of the answer, and prints
\* an answer's headings whether or not it has content.  So a printed silence
\* stood beside no claim, no position and no contest, and a printed answer is
\* never empty.  Citations of a block that does not say it is contested support
\* nothing, and a silence may drop those (render.go, Answer).
SilenceIsAlone ==
    /\ Shown("silence") =>
          /\ ~HasContent(screen.answer)
          /\ ~screen.answer.is_contested
          /\ Blank(screen.answer.position)
    /\ Shown("answer") => HasContent(screen.answer) \/ screen.answer.is_contested

\* High confidence is only ever shown for a first attempt whose arguments rest
\* on two different places in the corpora that bind or govern, each of which
\* carries its quote (confidence.go).
HighConfidenceIsCorroborated ==
    screen # None /\ screen.confidence = "high" =>
        /\ Len(recorded.attempts) = 1
        /\ \E j, k \in DOMAIN screen.answer.citations :
              LET one == screen.answer.citations[j]
                  other == screen.answer.citations[k] IN
              /\ RefOf(one) # RefOf(other)
              /\ \A citation \in {one, other} :
                    /\ citation.slot = "arguments"
                    /\ ask.tiers[citation.corpus] \in {"binding", "governing"}
                    /\ Sourced(citation)

---------------------------------------------------------------------------
(* What the turn keeps.                                                    *)

\* The second generation is told exactly what the first got wrong: every
\* citation that failed, none that passed, every broken rule, and never nothing
\* (turn.go, Ask: "Only what actually failed").
RetryIsInformed ==
    pc \in {"generate", "verify"} /\ Len(attempts) = 1 /\ ~attempts[1].failed =>
        /\ feedback.failures = attempts[1].failures
        /\ \A k \in DOMAIN attempts[1].results :
              attempts[1].results[k] \in feedback.results <=> ~Sound(attempts[1].results[k])
        /\ \A r \in feedback.results :
              \E k \in DOMAIN attempts[1].results : attempts[1].results[k] = r
        /\ feedback # NoFeedback

\* The recorded attempts explain the recorded outcome to a reader who has only
\* the tables: one result row per citation, in order, about that citation; the
\* last attempt clean exactly when the turn verified; and no attempt before the
\* last clean, or the turn would have ended there.
TraceExplainsOutcome ==
    recorded # None =>
        LET Clean(a) == /\ ~a.failed
                        /\ a.failures = {}
                        /\ \A k \in DOMAIN a.results : Sound(a.results[k])
            last == Len(recorded.attempts)
        IN  /\ \A i \in 1..last :
                  LET a == recorded.attempts[i] IN
                  /\ a.number = i
                  /\ Len(a.results) = Len(a.answer.citations)
                  /\ \A k \in DOMAIN a.results :
                        a.results[k].ref = RefOf(a.answer.citations[k])
                  /\ Clean(a) => i = last
            /\ Clean(recorded.attempts[last])
                  <=> recorded.outcome \in {"verified", "regenerated"}
            /\ recorded.attempts[last].failed <=> recorded.outcome = "generation-failed"

\* Every turn that comes to be recorded satisfies the CHECK constraints the trace
\* tables put on its shape, whatever Catena sent, and validate refuses it for what
\* the caller or Catena owes and nothing else: a blank question, or an attempt
\* whose trace is not complete (migrations 000002, 000003, 000007; trace.validate).
SchemaAccepts ==
    pc = "record" =>
        /\ Len(attempts) \in {1, 2}
        /\ \A i \in DOMAIN attempts : attempts[i].number \in {1, 2}
        /\ \A i, j \in DOMAIN attempts :
              attempts[i].number = attempts[j].number => i = j
        /\ result.outcome = "verified" => Len(attempts) = 1
        /\ result.outcome \in {"regenerated", "degraded", "generation-failed"} =>
              Len(attempts) = 2
        /\ (result.answer = None) <=> (result.outcome = "generation-failed")
        /\ (result.confidence = None) <=> (result.outcome = "generation-failed")
        /\ ~Recordable => \/ Blank(ask.query)
                          \/ \E i \in DOMAIN attempts : ~attempts[i].complete

\* Every turn ends: two generations, then one print or one error.
TurnEnds == <>(pc \in Ended)

\* The turn implements its contract.
Contract == INSTANCE TurnContract WITH
    generations <- Len(attempts),
    verdict     <- IF result = None THEN "open" ELSE result.outcome,
    recorded    <- IF recorded = None THEN "nothing" ELSE recorded.outcome,
    shown       <- IF screen = None THEN "nothing"
                   ELSE IF screen.kind = "silence" THEN "answer" ELSE screen.kind

\* At most two generations, one verdict and never revised, recorded before it
\* is shown, and content only under a verdict that verified it (TurnContract).
KeepsContract == Contract!Spec
===========================================================================
