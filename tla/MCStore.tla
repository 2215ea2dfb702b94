------------------------------ MODULE MCStore ------------------------------
(* One series with specials, a season of two episodes and one of a single   *)
(* episode, and another one beside it that takes its place on Home.          *)
EXTENDS Store

CONSTANTS a, b, serial

Is(n, i) == [number |-> n, id |-> i]

Of(n, c) == [number |-> n, count |-> c]

\* The specials listed or dropped; a larger, a smaller, a negative and no count,
\* a season without number, and one given twice.
MCSummaries ==
  { <<>>, <<Of(1, 2)>>, <<Of(1, 1), Of(0, 1), Of(Unknown, 2)>>,
    <<Of(2, 1), Of(1, -1), Of(2, 2), Of(-1, 1)>> }

\* One episode of the specials; for the season an empty list, one, both,
\* swapped ids, a moved id, and one id and one number given twice.
MCAnswers ==
  [s \in Seasons |->
     IF s # 1 THEN { <<Is(1, a)>> }
     ELSE { <<>>, <<Is(1, a), Is(2, b)>>, <<Is(2, a), Is(1, b)>>,
            <<Is(1, a), Is(2, a)>>, <<Is(2, NoId), Is(2, a), Is(Unknown, b)>> }]

\* Bound: a second series is in progress before the first is known, with one
\* episode watched or caught up with both, and stays so. What is rated has no
\* announcement beside it, and beside a series that is caught up there is neither.
Neighbour ==
  LET both == [k \in {<<1, 1>>, <<1, 2>>} |-> IF k = <<1, 1>> THEN a ELSE b]
      announced == {t \in Titles : releases[t] # Empty}
  IN
    /\ serial \in media => serial \in member
    /\ serial \notin detailed \cup rated \cup announced
    /\ rated = {} \/ announced = {}
    /\ tracked[serial] = DOMAIN both => rated \cup announced = {}
    /\ episodes[serial] \in {Empty, both}
    /\ seasons[serial] = IF episodes[serial] = Empty THEN Empty
                         ELSE [s \in {1} |-> [count |-> Unknown, known |-> 2]]
    /\ tracked[serial] \in {{}, {<<1, 1>>}, DOMAIN both}
    /\ serial \in logged <=> tracked[serial] # {}
    /\ media # {} /\ media # {serial} => tracked[serial] # {}
=============================================================================
