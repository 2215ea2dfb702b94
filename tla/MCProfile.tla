----------------------------- MODULE MCProfile -----------------------------
(* Two copies of the program on one profile; programs of schema 1 and 2; a *)
(* library that is empty, or has one title or two.                         *)
EXTENDS Profile

CONSTANTS OneTitle, TwoTitles

MCReleases == {1, 2}
MCLibraries == {Empty, OneTitle, TwoTitles}
MCEdits == {<<Empty, OneTitle>>, <<OneTitle, TwoTitles>>, <<TwoTitles, OneTitle>>}
=============================================================================
