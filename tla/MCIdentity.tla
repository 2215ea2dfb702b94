----------------------------- MODULE MCIdentity -----------------------------
(* Identity for TLC: a movie and a series that share a number, and a number *)
(* that is none.                                                            *)
EXTENDS Identity

\* A profile in which the movie has the first local id.
AnotherProfile ==
  LET movie == <<"movie", 1>> IN
    [media |-> [i \in {1} |-> [kind |-> "movie", title |-> movie, original |-> None]],
     refs |-> [j \in {movie} |-> 1], library |-> {1}, tracked |-> {}]

NoFiles == {}
OtherFiles == {AnotherProfile}
=============================================================================
