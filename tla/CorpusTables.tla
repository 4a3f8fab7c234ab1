---------------------------- MODULE CorpusTables ----------------------------
(***************************************************************************)
(* One corpus as its readers may rely on finding it: always the whole text *)
(* of one staged edition, and vectors only for text that has not changed   *)
(* since.  Text is replaced in one step; vectors arrive a batch at a time. *)
(* Turn reads tables that change this way; Ingestion implements it.        *)
(***************************************************************************)
CONSTANTS Locators, Facts, Texts, None

VARIABLES
    text,       \* locator -> text, None where the corpus has no chunk
    facts,      \* the corpus.works row, None before the first ingestion
    embedded    \* locators whose chunk has a vector, computed from its text

tableVars == <<text, facts, embedded>>

Init == /\ text = [l \in Locators |-> None]
        /\ facts = None
        /\ embedded = {}

\* The vectors of text that stays are kept, and no others.
Replace(edition) ==
    /\ text' = edition
    /\ facts' \in Facts
    /\ embedded' = {l \in embedded : edition[l] = text[l]}

Embed(batch) ==
    /\ batch # {}
    /\ batch \subseteq {l \in Locators \ embedded : text[l] # None}
    /\ embedded' = embedded \cup batch
    /\ UNCHANGED <<text, facts>>

Next == \/ \E edition \in Texts : Replace(edition)
        \/ \E batch \in SUBSET Locators : Embed(batch)

Spec == Init /\ [][Next]_tableVars
=============================================================================
