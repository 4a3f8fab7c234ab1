------------------------------ MODULE MCBerean ------------------------------
(***************************************************************************)
(* One question about two places of wcf, whose editions move a sentence.   *)
(* inst stands still.                                                      *)
(***************************************************************************)
EXTENDS Berean

MCCorpora    == {"wcf", "inst"}
MCLocators   == {"l1", "l2"}
MCLocusNames == {"mode"}

\* "text" contains the quote, "revised" does not.
MCStrings == {"", "text", "revised", "quote"}
MCTexts   == {"text", "revised"}

MCNorm(s)  == s
MCRunes(s) == IF s = "" THEN 0 ELSE 40
MCBlank(s) == s = ""
MCContains(s, t) == s = t \/ t = "" \/ <<s, t>> = <<"text", "quote">>

MCLicenseOf(w) ==
    CASE w = "first" -> "public-domain" [] w = "second" -> "cc-by" [] OTHER -> "unknown"

Layout(one, two) == [l \in MCLocators |-> IF l = "l1" THEN one ELSE two]

\* The sentence stands at l1, and in the next edition at l2.
First  == [texts |-> Layout("text", "revised"), work |-> "first", terms |-> "free", version |-> 1]
Second == [texts |-> Layout("revised", "text"), work |-> "second", terms |-> "share", version |-> 1]

MCStaged == {First, Second}

MCEditions == {[corpus |-> "wcf", license |-> MCLicenseOf(w), texts |-> t] :
                  w \in {e.work : e \in MCStaged}, t \in {e.texts : e \in MCStaged}}

---------------------------------------------------------------------------
Cite(claim, locator) ==
    [slot |-> "arguments", claim |-> claim, corpus |-> "wcf", locator |-> locator,
     quote |-> "quote", tier |-> "binding"]

Object(citations) ==
    [position |-> "text", arguments |-> 1, descriptions |-> 0, contrary_positions |-> 0,
     is_contested |-> FALSE, locus |-> "", state_of_debate |-> "", no_answer_reason |-> "",
     citations |-> citations]

MCAnswers == {Object(<<Cite(1, "l1"), Cite(1, "l2")>>)}

MCAsks == {[tiers |-> [c \in {"wcf"} |-> "binding"], loci |-> [l \in {} |-> None],
            serveLocalOnly |-> FALSE, query |-> "text"]}

AllRefs == [corpus : MCCorpora, locator : MCLocators]

MCStored == {[chunks   |-> [r \in AllRefs |-> IF r.corpus = "wcf" THEN None ELSE "text"],
              license  |-> [c \in MCCorpora |-> "unknown"],
              embedded |-> {r \in AllRefs : r.corpus = "inst"}]}
=============================================================================
