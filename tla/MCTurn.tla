------------------------------- MODULE MCTurn -------------------------------
(***************************************************************************)
(* Small instances of Turn.  Two ingested corpora: wcf, which binds, and   *)
(* inst, which advises.  The tradition of the asker holds one question     *)
(* open, "mode", and wcf's chunk at "open" is the ruling that says so.     *)
(***************************************************************************)
EXTENDS Turn

MCCorpora    == {"wcf", "inst"}
MCLocators   == {"l1", "l2", "open", "l9"}
MCLocusNames == {"mode", "invented"}

(***************************************************************************)
(* "dirty" is the quote with an undone ligature; "short" is one rune under *)
(* the floor; "text" and "debate" contain the quote, "revised" does not.   *)
(***************************************************************************)
MCStrings == {"", " ", "text", "revised", "quote", "dirty", "short", "debate",
              "reason", "long"}

MCNorm(s) == CASE s = "dirty" -> "quote" [] s = " " -> "" [] OTHER -> s

MCRunes(s) == CASE s = "" -> 0
                [] s = " " -> 1
                [] s = "short" -> 39
                [] s = "quote" -> 40
                [] s = "dirty" -> 39
                [] s \in {"revised", "debate"} -> 90
                [] s = "long" -> 201
                [] OTHER -> 200

MCContains(s, t) ==
    s = t \/ t = "" \/ <<s, t>> \in {"text", "debate"} \X {"quote", "short"}

MCBlank(s) == s \in {"", " "}

---------------------------------------------------------------------------
(* Answers.                                                                *)

Cite(slot, claim, corpus, locator, quote) ==
    [slot |-> slot, claim |-> claim, corpus |-> corpus, locator |-> locator,
     quote |-> quote, tier |-> "binding"]

Support(locator) == Cite("arguments", 1, "wcf", locator, "quote")
Advice == Cite("arguments", 1, "inst", "l1", "quote")
Background(corpus, locator) == Cite("descriptions", 1, corpus, locator, "quote")
Ruling(quote) == Cite("contested", 1, "wcf", "open", quote)

Highest(S) == IF S = {} THEN 0 ELSE CHOOSE n \in S : \A m \in S : m <= n

ClaimCount(citations, slot) ==
    Highest({citations[k].claim : k \in {k \in DOMAIN citations : citations[k].slot = slot}})

Object(citations, position, contested, reason) ==
    [position |-> position,
     arguments |-> ClaimCount(citations, "arguments"),
     descriptions |-> ClaimCount(citations, "descriptions"),
     contrary_positions |-> ClaimCount(citations, "contrary_positions"),
     is_contested |-> contested,
     locus |-> IF contested THEN "mode" ELSE "",
     state_of_debate |-> IF contested THEN "debate" ELSE "",
     no_answer_reason |-> reason,
     citations |-> citations]

Corroborated == Object(<<Support("l1"), Support("l2")>>, "text", FALSE, "")
Leaning      == Object(<<Advice>>, "text", FALSE, "")
Contest      == Object(<<Ruling("quote")>>, "", TRUE, "")
Silence      == Object(<<>>, "", FALSE, "reason")
Omission     == Object(<<Background("wcf", "open")>>, "", FALSE, "")

\* Against changing tables: a pass that needs two rows to stand still, one that
\* needs the ruling, one that needs nothing, and one no tables can rescue.
RaceAnswers == {Corroborated, Contest, Silence, Leaning}

Supports == {<<>>,
             <<Support("l1")>>,
             <<Support("l1"), Support("l2")>>,
             <<Support("l1"), Advice>>,
             <<Support("l1"), Support("l1")>>,
             <<Support("l9")>>,
             <<Cite("arguments", 1, "wcf", "l1", "short")>>,
             <<Cite("arguments", 1, "wcf", "l1", "dirty")>>,
             <<Support("l1"), Cite("arguments", 2, "inst", "l1", "quote")>>,
             <<Advice>>,
             <<Support("open")>>,
             <<Background("inst", "l1")>>,
             <<Background("wcf", "open")>>,
             <<Ruling("quote")>>,
             <<Background("inst", "l1"), Ruling("dirty")>>,
             <<Cite("contested", 1, "wcf", "l1", "quote")>>,
             <<Cite("contrary_positions", 1, "inst", "l1", "quote")>>}

\* Every support under every claim an answer makes of itself, and the answers
\* that break the rules those combinations cannot.
RuleAnswers ==
    UNION {{Object(s, "", FALSE, ""), Object(s, "text", FALSE, ""),
            Object(s, "", TRUE, ""), Object(s, "", FALSE, "reason")} : s \in Supports}
    \cup {[Contest EXCEPT !.position = "text"],
          [Contest EXCEPT !.no_answer_reason = "reason"],
          [Corroborated EXCEPT !.arguments = 2],
          [Corroborated EXCEPT !.state_of_debate = "debate"],
          [Contest EXCEPT !.locus = "invented"],
          [Contest EXCEPT !.state_of_debate = "revised"],
          [Silence EXCEPT !.no_answer_reason = "long"],
          [Silence EXCEPT !.no_answer_reason = " "]}

---------------------------------------------------------------------------
(* Questions and tables.                                                   *)

Confession == [tiers |-> [c \in MCCorpora |-> IF c = "wcf" THEN "binding" ELSE "advisory"],
               loci |-> [l \in {"mode"} |-> [corpus |-> "wcf", locator |-> "open"]],
               serveLocalOnly |-> FALSE, query |-> "text"]

\* The same tradition from the other side: wcf is what it argues against, and
\* the deployer serves local-only corpora.
Dissent == [Confession EXCEPT !.serveLocalOnly = TRUE,
                    !.tiers = [c \in MCCorpora |-> IF c = "wcf" THEN "contrary" ELSE "governing"]]

RaceAsks == {Confession, [Confession EXCEPT !.query = " "]}
RuleAsks == {Confession, Dissent}

Texts(default) == [l \in MCLocators |-> IF l = "l9" THEN None ELSE default]

AllRefs == [corpus : MCCorpora, locator : MCLocators]

Whole(default, licenses) ==
    [chunks |-> [r \in AllRefs |-> Texts(default)[r.locator]],
     license |-> licenses,
     embedded |-> {r \in AllRefs : r.locator # "l9"}]

Free == [c \in MCCorpora |-> "public-domain"]

\* Ingested; a revision interrupted between inst's text and its vectors; never
\* ingested.
RaceStored == {Whole("text", Free),
               [Whole("revised", Free) EXCEPT !.embedded = {r \in @ : r.corpus = "wcf"}],
               [chunks |-> [r \in AllRefs |-> None], license |-> Free, embedded |-> {}]}

RuleStored == {Whole("text", Free),
               Whole("text", [Free EXCEPT !["inst"] = "local-only"]),
               Whole("text", [Free EXCEPT !["wcf"] = "unknown"])}

\* A revision of wcf that drops l2 and rewrites l1; the text it started from;
\* and inst withdrawn from service.
RaceEditions == {[corpus |-> "wcf", license |-> "public-domain",
                  texts |-> [Texts("text") EXCEPT !["l1"] = "revised", !["l2"] = None]],
                 [corpus |-> "wcf", license |-> "public-domain", texts |-> Texts("text")],
                 [corpus |-> "inst", license |-> "refused", texts |-> Texts("text")]}

NoEditions == {}
=============================================================================
