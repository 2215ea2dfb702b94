----------------------------- MODULE MCDiscover -----------------------------
(* Discover with an empty page and one that repeats a title; asked for twice, *)
(* the second page repeats the first.                                         *)
EXTENDS Discover

CONSTANTS dune, solaris

MCAnswers == {[total |-> 3, ids |-> <<solaris, dune, solaris>>],
              [total |-> 1, ids |-> <<>>]}
=============================================================================
