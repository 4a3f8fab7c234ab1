------------------------------ MODULE MCBrowse ------------------------------
(***************************************************************************)
(* A corpus of two pages, each one section; the first is the diagnostic.   *)
(* Upstream may reword the first, drop either ("gone"), name one place     *)
(* twice ("twice"), or change its shape altogether ("void").  What it      *)
(* prints as "A", the first contract folds to "a" and the second leaves.   *)
(***************************************************************************)
EXTENDS Browse, SequencesExt

CONSTANTS term, web, web2

MCPages == {1, 2}
MCContents == {"a", "A", "b", "gone", "twice", "void"}
MCSites == {<<"a", "A">>, <<"b", "A">>, <<"a", "gone">>, <<"gone", "A">>, <<"a", "twice">>,
            <<"a", "void">>}
MCIndex(site) == IF site[2] = "void" THEN {} ELSE {p \in MCPages : site[p] # "gone"}

\* A page the index did not name reads as one that says nothing.
MCDocuments == {d \in [MCPages -> MCContents \ {"void"}] : d[1] # "twice"}
MCExtract(pages) ==
    LET text == [p \in MCPages |-> IF p \in DOMAIN pages THEN pages[p] ELSE "gone"]
    IN IF text \in MCDocuments THEN text ELSE None

MCLocators == {"s1", "s2"}
MCTexts == {"a", "A", "b"}
MCSegments(doc) ==
    SelectSeq(<<[locator |-> "s1", text |-> doc[1]],
                [locator |-> IF doc[2] = "twice" THEN "s1" ELSE "s2",
                 text    |-> IF doc[2] = "twice" THEN "a" ELSE doc[2]]>>,
              LAMBDA s : s.text # "gone")
MCNormalise(contract, text) == IF contract = 1 /\ text = "A" THEN "a" ELSE text

Version(contract, license, complete) ==
    [contract |-> contract, facts |-> "facts", license |-> license, diagnostic |-> "s1",
     complete |-> complete]
MCDeployed == Version(1, "public-domain", TRUE)
MCAdapters == {MCDeployed, Version(2, "local-only", FALSE)}

MCArchive == <<"a", "A">>
MCLocalCopies == {[pages |-> <<"a", "a">>, archived |-> FALSE]}
=============================================================================
