------------------------------ MODULE MCPages ------------------------------
(* A movie and a series of two episodes, and two seconds that are days and  *)
(* years of their own, or share one.                                        *)
EXTENDS Pages

CONSTANTS movie, show, draft, final

MCEpisodes == { <<show, 1>>, <<show, 2>> }

\* The movie gets a runtime and another title, the episodes come and go.
MCGiven ==
  [x \in Targets |->
     IF x = movie THEN { [minutes |-> None, name |-> draft], [minutes |-> 40, name |-> final] }
     ELSE { [minutes |-> None, name |-> draft], [minutes |-> Gone, name |-> None] }]
MCGenres == (movie :> {"drama", "crime"}) @@ (show :> {})
MCRanges == { [unit |-> 1, buckets |-> 1], [unit |-> 1, buckets |-> 0], [unit |-> 2, buckets |-> 1] }
MCOrder == << movie, show >>
MCSearches == { {movie, show}, {show} }
MCAired == (<<show, 1>> :> 0) @@ (<<show, 2>> :> 1)
=============================================================================
