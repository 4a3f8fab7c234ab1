---------------------------- MODULE MCRetrieval ----------------------------
(***************************************************************************)
(* One call over two corpora of two places each.  Two ordinary texts fit   *)
(* the budget, the ruling's first wording fits alone, its second does not  *)
(* fit at all.                                                             *)
(***************************************************************************)
EXTENDS Retrieval

CONSTANTS conf, study, one, two

MCCorpora == {conf, study}
MCLocators == {one, two}

MCTexts == {"near", "far", "ruling", "reworded"}
MCSize(t) == CASE t = "near" -> 2 [] t = "far" -> 1 [] t = "ruling" -> 3 [] t = "reworded" -> 5
MCScore(t) == CASE t = "near" -> 3 [] t = "far" -> 2 [] t = "ruling" -> 1 [] t = "reworded" -> 2

At(c, l) == [corpus |-> c, locator |-> l]
HeldOpen(name, ref) == [locus |-> name, ruling |-> ref]

Both == (conf :> "binding") @@ (study :> "advisory")

\* Nothing held open; one ruling; two loci that one ruling settles; two rulings.
LociAsked == {<<>>,
              <<HeldOpen("days", At(study, one))>>,
              <<HeldOpen("days", At(study, one)), HeldOpen("ages", At(study, one))>>,
              <<HeldOpen("days", At(study, one)), HeldOpen("signs", At(study, two))>>}

MCRequests ==
    {[tiers |-> Both, loci |-> loci, topK |-> k, attempt |-> 1] : loci \in LociAsked, k \in {0, 2}}
    \cup {[tiers |-> conf :> "binding", loci |-> <<>>, topK |-> 3, attempt |-> 2],
          [tiers |-> Both, loci |-> <<>>, topK |-> 2, attempt |-> 3]}

RowsOf(a, b, c, d) == (At(conf, one) :> a) @@ (At(conf, two) :> b)
                      @@ (At(study, one) :> c) @@ (At(study, two) :> d)

First(t) == [id |-> 1, text |-> t]
Whole == [r \in Ref |-> IF r = At(conf, one) THEN First("near")
                        ELSE IF r = At(study, one) THEN First("ruling") ELSE First("far")]

\* Embedded whole, or interrupted in the middle of phase two.
MCStored == {[rows |-> Whole, embedded |-> Ref],
             [rows |-> Whole, embedded |-> Ref \ {At(study, one)}]}

\* The ruling is reworded; its place goes, and may come back.
MCEditions == {[corpus |-> study, texts |-> (one :> "reworded") @@ (two :> "far")],
               [corpus |-> study, texts |-> (one :> None) @@ (two :> "near")],
               [corpus |-> study, texts |-> (one :> "ruling") @@ (two :> "far")]}
=============================================================================
