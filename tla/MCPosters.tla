----------------------------- MODULE MCPosters -----------------------------
(* Two posters that do not fit together, and one larger than the budget.   *)
EXTENDS Posters

CONSTANTS small, large, huge

MCKeys == {small, large, huge}
MCSize == [k \in MCKeys |-> CASE k = small -> 1 [] k = large -> 2 [] k = huge -> 3]
=============================================================================
