----------------------------- MODULE MCBatches -----------------------------
(* TLC instance of Batches: two texts that normalise to the same vote, and    *)
(* stray lines of two ids, one of which may have failed.                      *)
EXTENDS Batches

ThreeTexts == {"yes", "yes ", "no"}
TrailingSpace == [t \in ThreeTexts |-> IF t = "yes " THEN "yes" ELSE t]
Strangers ==
    {[id |-> 8, text |-> "no"], [id |-> 9, text |-> "yes"], [id |-> 9, text |-> Failed]}
OneEach == [t \in ThreeTexts |-> 1]
============================================================================
