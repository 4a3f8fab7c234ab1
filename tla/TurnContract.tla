--------------------------- MODULE TurnContract ---------------------------
(***************************************************************************)
(* What one turn promises its reader, whatever verification finds and      *)
(* whatever fails: at most two generations; one verdict, never revised,    *)
(* and only the verdicts that number of generations admits; nothing on the *)
(* screen that is not in the trace tables first; and content on the screen *)
(* only under a verdict that verified it.  A turn may stop at any point.   *)
(***************************************************************************)
EXTENDS Naturals

VARIABLES
    generations,   \* generation attempts made so far
    verdict,       \* "open" until the turn has an outcome
    recorded,      \* the outcome in the trace tables, "nothing" before
    shown          \* what reached the reader

contractVars == <<generations, verdict, recorded, shown>>

Init == /\ generations = 0
        /\ verdict = "open"
        /\ recorded = "nothing"
        /\ shown = "nothing"

\* An attempt that settles nothing leaves the verdict open only if it was the
\* first: a second attempt always settles the turn.
Attempt ==
    /\ verdict = "open"
    /\ \/ /\ generations = 0
          /\ verdict' \in {"open", "verified"}
       \/ /\ generations = 1
          /\ verdict' \in {"regenerated", "degraded", "generation-failed"}
    /\ generations' = generations + 1
    /\ UNCHANGED <<recorded, shown>>

Record == /\ verdict # "open"
          /\ recorded = "nothing"
          /\ recorded' = verdict
          /\ UNCHANGED <<generations, verdict, shown>>

Notice(outcome) == CASE outcome \in {"verified", "regenerated"} -> "answer"
                     [] outcome = "degraded" -> "refusal"
                     [] OTHER -> "no-answer"

Show == /\ recorded # "nothing"
        /\ shown = "nothing"
        /\ shown' = Notice(recorded)
        /\ UNCHANGED <<generations, verdict, recorded>>

Next == Attempt \/ Record \/ Show

Spec == Init /\ [][Next]_contractVars
===========================================================================
