----------------------- MODULE MCRefreshCoordinator -----------------------
(* Instances of RefreshCoordinator: a series, and a series with a movie. *)
EXTENDS RefreshCoordinator

CONSTANTS series, movie

\* The series has two seasons, the movie none.
MCSeasons == [t \in Titles |-> IF t = series THEN {1, 2} ELSE {}]
OneSeason == [t \in Titles |-> IF t = series THEN {1} ELSE {}]

NothingGone == {}
MovieGone == {Detail(movie)}
=============================================================================
