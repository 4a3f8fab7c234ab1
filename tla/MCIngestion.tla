---------------------------- MODULE MCIngestion ----------------------------
(***************************************************************************)
(* Small instances of Ingestion: editions that leave a chunk alone, change *)
(* one, drop one and add one, and an edition no model can embed whole.     *)
(***************************************************************************)
EXTENDS Ingestion

MCLocators == {"l1", "l2", "l3"}
MCTexts    == {"a", "b", "c", "huge"}
MCOverlong == {"huge"}

Layout(one, two, three) ==
    [l \in MCLocators |-> CASE l = "l1" -> one [] l = "l2" -> two [] OTHER -> three]

\* Against First, Second changes l1 and moves l2's text to l3; Third changes l2
\* alone; Whole adds to First a chunk that exceeds the window; Retitled is First
\* with a fact of the work changed that no manifest records.
Stage(texts, work, terms, version) ==
    [texts |-> texts, work |-> work, terms |-> terms, version |-> version]

First    == Stage(Layout("a", "b", None), "first", "free", 1)
Second   == Stage(Layout("c", None, "b"), "second", "share", 2)
Third    == Stage(Layout("a", "c", None), "third", "share", 2)
Whole    == Stage(Layout("a", "b", "huge"), "first", "free", 1)
Retitled == Stage(Layout("a", "b", None), "retitled", "free", 1)

AllEditions == {First, Second, Third, Whole, Retitled}
TwoEditions == {First, Second}
=============================================================================
