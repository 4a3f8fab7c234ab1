--------------------------- MODULE Verification ---------------------------
(***************************************************************************)
(* The trust boundary: services/gateway/internal/verify.  Python (Catena)  *)
(* produces an answer object, Go decides whether it may be shown.  This    *)
(* module is the decision, as pure operators over one answer object, the   *)
(* filter spec and contested loci sent for the turn, and the corpus rows   *)
(* the citations resolved to.  When each row is read is Turn's business.   *)
(*                                                                         *)
(* Text is a member of Strings.  What the checks can tell about a string   *)
(* is exactly four things: what it normalises to, how many runes it has,   *)
(* whether it contains another string, and whether it is blank.            *)
(***************************************************************************)
EXTENDS Integers, Sequences, FiniteSets

CONSTANTS
    Corpora,          \* corpus IDs; a corpus is an edition
    Locators,         \* locators, as citations and chunks spell them
    LocusNames,       \* names of questions a tradition holds open
    Strings,          \* chunk texts, quotes, prose
    Norm(_),          \* normalise.Normalise
    Runes(_),         \* len([]rune(s))
    Contains(_, _),   \* strings.Contains(text, part)
    Blank(_),         \* strings.TrimSpace(s) == ""
    EmptyString,      \* "", the value of a field nobody set
    None              \* no text: the locator carries no chunk

\* Normalisation is a function of the text alone and idempotent: the chunk was
\* normalised at ingestion and is normalised again by check 2.
ASSUME StringsAssumption ==
    /\ EmptyString \in Strings
    /\ \A s \in Strings : /\ Norm(s) \in Strings
                          /\ Norm(Norm(s)) = Norm(s)
                          /\ Runes(s) \in Nat
                          /\ Blank(s) \in BOOLEAN
    /\ \A s, t \in Strings : Contains(s, t) \in BOOLEAN
    /\ Blank(EmptyString) /\ Runes(EmptyString) = 0

QuoteFloor        == 40
NoAnswerReasonCap == 200

Tier    == {"binding", "governing", "advisory", "contrary", "excluded"}
License == {"public-domain", "cc-by", "cc-by-sa", "local-only", "refused"}
Slot    == {"arguments", "descriptions", "contrary_positions", "contested"}

\* Corpora and Locators include values a model invents, which resolve to nothing.
Ref == [corpus : Corpora, locator : Locators]

\* What Lookup reads of a chunk joined with its work, None for the text when no
\* chunk carries the locator.  "unknown" is a licence the enum grew after this
\* build.
Row == [text : Strings \cup {None}, license : License \cup {"unknown"}]

(***************************************************************************)
(* One answer object.  Claims are counted, and a citation says which slot  *)
(* and which claim of the slot it supports; the sequence is in answer      *)
(* order.  `tier` is the tier Python claimed for the citation's corpus.    *)
(***************************************************************************)
Citation == [slot : Slot, claim : Nat, corpus : Corpora, locator : Locators,
             quote : Strings, tier : Tier]

Answer == [position : Strings, arguments : Nat, descriptions : Nat,
           contrary_positions : Nat, is_contested : BOOLEAN,
           locus : LocusNames \cup {EmptyString}, state_of_debate : Strings,
           no_answer_reason : Strings, citations : Seq(Citation)]

\* Every citation supports a claim the answer has; the contested block is one.
Claims(answer, slot) ==
    CASE slot = "arguments" -> answer.arguments
      [] slot = "descriptions" -> answer.descriptions
      [] slot = "contrary_positions" -> answer.contrary_positions
      [] slot = "contested" -> 1

AnswerObject ==
    {a \in Answer : \A k \in DOMAIN a.citations :
        a.citations[k].claim \in 1..Claims(a, a.citations[k].slot)}

RefOf(citation) == [corpus |-> citation.corpus, locator |-> citation.locator]

CitationsOf(answer, slot, i) ==
    {k \in DOMAIN answer.citations :
        answer.citations[k].slot = slot /\ answer.citations[k].claim = i}

Uncited(answer, slot, n) == {i \in 1..n : CitationsOf(answer, slot, i) = {}}

---------------------------------------------------------------------------
(* The four checks.                                                        *)

Authoritative == {"binding", "governing"}
PermittedInArgument == Authoritative \cup {"advisory"}

\* The tier the resolved profile assigns; nothing else is consulted.
TierOf(corpus, tiers) == IF corpus \in DOMAIN tiers THEN tiers[corpus] ELSE "none"

ServingPermitted(license, serveLocalOnly) ==
    /\ license \in License \ {"refused"}
    /\ license = "local-only" => serveLocalOnly

QuoteFound(text, quote) ==
    /\ Runes(Norm(quote)) >= QuoteFloor
    /\ Contains(Norm(text), Norm(quote))

\* Check 3 on its own, so that the slot is the whole of what it knows.
TierPermitted(citation, tiers) ==
    /\ citation.corpus \in DOMAIN tiers
    /\ citation.slot = "arguments" => tiers[citation.corpus] \in PermittedInArgument

\* Checks 2 and 4 cannot run on a locator that resolved to nothing, and are
\* recorded as not passed.  Check 3 always runs.
CheckCitation(citation, tiers, row, serveLocalOnly) ==
    [ref               |-> RefOf(citation),
     locator_resolved  |-> row.text # None,
     quote_matched     |-> row.text # None /\ QuoteFound(row.text, citation.quote),
     tier_permitted    |-> TierPermitted(citation, tiers),
     license_permitted |-> row.text # None /\ ServingPermitted(row.license, serveLocalOnly)]

Result == [ref : Ref, locator_resolved : BOOLEAN, quote_matched : BOOLEAN,
           tier_permitted : BOOLEAN, license_permitted : BOOLEAN]

\* failure_detail is empty exactly when all four passed.
Sound(result) == /\ result.locator_resolved
                 /\ result.quote_matched
                 /\ result.tier_permitted
                 /\ result.license_permitted

---------------------------------------------------------------------------
(* The rules no single citation can carry.                                 *)

FailureCode == {"citations-required", "argument-lacks-authority", "position-without-arguments",
                "contested-with-arguments", "contested-locus-unknown",
                "contested-ruling-uncited", "contested-ruling-unquoted",
                "ruling-cited-while-uncontested", "state-of-debate-without-contest",
                "no-answer-reason-not-alone", "no-answer-reason-too-long", "empty-answer"}

AnswerFailure == [code : FailureCode, slot : Slot \cup {"position", "no_answer_reason"},
                  claim : Nat, ref : Ref \cup {None}]

\* About a claim, or a slot as a whole, and about a citation's place.
Failure(code, slot, i) == [code |-> code, slot |-> slot, claim |-> i, ref |-> None]
FailureAt(code, slot, ref) == [code |-> code, slot |-> slot, claim |-> 0, ref |-> ref]

UncitedClaims(answer) ==
    UNION {{Failure("citations-required", slot, i) :
                i \in Uncited(answer, slot, Claims(answer, slot))} :
           slot \in Slot \ {"contested"}}

\* Variant: advisory establishes a claim.
AdvisoryCarriesAuthority(answer, i, tiers) ==
    \E k \in CitationsOf(answer, "arguments", i) :
        TierOf(answer.citations[k].corpus, tiers) \in PermittedInArgument

\* Advisory corroborates and never establishes.
CarriesAuthority(answer, i, tiers) ==
    \E k \in CitationsOf(answer, "arguments", i) :
        TierOf(answer.citations[k].corpus, tiers) \in Authoritative

ArgumentsLackingAuthority(answer, tiers) ==
    {Failure("argument-lacks-authority", "arguments", i) :
        i \in {i \in (1..answer.arguments) \ Uncited(answer, "arguments", answer.arguments) :
                  ~CarriesAuthority(answer, i, tiers)}}

\* citationTo: the first contested citation to the ruling, whose quote is the
\* one state_of_debate must contain.
RulingCitations(answer, ruling) ==
    {k \in DOMAIN answer.citations :
        answer.citations[k].slot = "contested" /\ RefOf(answer.citations[k]) = ruling}

FirstOf(S) == CHOOSE k \in S : \A j \in S : k <= j

ContestedFailure(answer, loci) ==
    IF answer.locus \notin DOMAIN loci
    THEN {Failure("contested-locus-unknown", "contested", 0)}
    ELSE LET ruling == loci[answer.locus]
             cited  == RulingCitations(answer, ruling) IN
         IF cited = {}
         THEN {FailureAt("contested-ruling-uncited", "contested", ruling)}
         ELSE IF Contains(Norm(answer.state_of_debate),
                          Norm(answer.citations[FirstOf(cited)].quote))
              THEN {}
              ELSE {FailureAt("contested-ruling-unquoted", "contested", ruling)}

Rulings(loci) == {loci[l] : l \in DOMAIN loci}

Only(condition, failure) == IF condition THEN {failure} ELSE {}

HasContent(answer) ==
    answer.arguments + answer.descriptions + answer.contrary_positions > 0

Silent(answer) == ~Blank(answer.no_answer_reason)

PositionRule(answer) ==
    Only(~Blank(answer.position) /\ answer.arguments = 0,
         Failure("position-without-arguments", "position", 0))

ContestRules(answer, loci) ==
    IF answer.is_contested
    THEN Only(answer.arguments > 0, Failure("contested-with-arguments", "arguments", 0))
         \cup ContestedFailure(answer, loci)
    ELSE Only(~Blank(answer.state_of_debate),
              Failure("state-of-debate-without-contest", "contested", 0))

\* Variant: the omission check is looked for only where a contest is claimed.
OmissionRuleInverted(answer, loci, verified) ==
    {FailureAt("ruling-cited-while-uncontested", "contested", ref) :
        ref \in {ref \in Rulings(loci) : answer.is_contested /\ ref \notin verified}}

\* Fires on verified citations only: a fabricated quote at a ruling's locator
\* has already failed check 2.  One failure for each ruling cited.
OmissionRule(answer, loci, verified) ==
    {FailureAt("ruling-cited-while-uncontested", "contested", ref) :
        ref \in {ref \in verified \cap Rulings(loci) : ~answer.is_contested}}

\* Variant: silence is bounded in length and not required to stand alone.
SilenceRulesNotAlone(answer) ==
    IF Silent(answer)
    THEN Only(Runes(answer.no_answer_reason) > NoAnswerReasonCap,
              Failure("no-answer-reason-too-long", "no_answer_reason", 0))
    ELSE Only(~HasContent(answer) /\ ~answer.is_contested,
              Failure("empty-answer", "no_answer_reason", 0))

SilenceRules(answer) ==
    IF Silent(answer)
    THEN Only(Runes(answer.no_answer_reason) > NoAnswerReasonCap,
              Failure("no-answer-reason-too-long", "no_answer_reason", 0))
         \cup Only(HasContent(answer) \/ answer.is_contested,
                   Failure("no-answer-reason-not-alone", "no_answer_reason", 0))
    ELSE Only(~HasContent(answer) /\ ~answer.is_contested,
              Failure("empty-answer", "no_answer_reason", 0))

AnswerFailures(answer, tiers, loci, verified) ==
    UncitedClaims(answer)
      \cup ArgumentsLackingAuthority(answer, tiers)
      \cup PositionRule(answer)
      \cup ContestRules(answer, loci)
      \cup OmissionRule(answer, loci, verified)
      \cup SilenceRules(answer)

VerifiedRefs(results) == {results[k].ref : k \in {k \in DOMAIN results : Sound(results[k])}}

\* Variant: the answer's own rules decide, whatever the four checks found.
PassedOnRules(results, failures) == failures = {}

Passed(results, failures) ==
    failures = {} /\ \A k \in DOMAIN results : Sound(results[k])

---------------------------------------------------------------------------
(* Confidence, derived from the answer that passed.                        *)

\* Variant: corroboration counts advisory references.
RefsInArgument(answer, tiers) ==
    {RefOf(answer.citations[k]) :
        k \in {k \in DOMAIN answer.citations :
                  /\ answer.citations[k].slot = "arguments"
                  /\ TierOf(answer.citations[k].corpus, tiers) \in PermittedInArgument}}

\* Distinct by {corpus_id, locator}, over arguments only.
AuthoritativeRefs(answer, tiers) ==
    {RefOf(answer.citations[k]) :
        k \in {k \in DOMAIN answer.citations :
                  /\ answer.citations[k].slot = "arguments"
                  /\ TierOf(answer.citations[k].corpus, tiers) \in Authoritative}}

Confidence(answer, tiers, attempt) ==
    LET count == Cardinality(AuthoritativeRefs(answer, tiers)) IN
    IF answer.is_contested \/ Silent(answer) \/ count = 0 THEN "low"
    ELSE IF count >= 2 /\ attempt = 1 THEN "high"
    ELSE "medium"

\* The confidence of a turn that shipped nothing.
DegradedConfidence == "low"
===========================================================================
