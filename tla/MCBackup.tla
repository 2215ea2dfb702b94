------------------------------ MODULE MCBackup ------------------------------
(* A library of a movie and a series that have been used in every way, as   *)
(* large as a backup may be; one with an event more, which is over the      *)
(* limit; the series alone; and none.                                       *)
EXTENDS Backup

MCText == {"", "movie", "tv", "tmdb", "TMDB", "7", "8", "x", "2026-01-01", "new_episode", "bingee"}

Used ==
  [media |-> {[id |-> 1, type |-> "movie", title |-> "x", date |-> "2026-01-01", runtime |-> 1, count |-> None, stamp |-> 1],
              [id |-> 2, type |-> "tv", title |-> "x", date |-> None, runtime |-> None, count |-> 0, stamp |-> None]},
   refs |-> {[media |-> 1, type |-> "movie", source |-> "tmdb", external |-> "7"],
             [media |-> 2, type |-> "tv", source |-> "tmdb", external |-> "7"]},
   library |-> {[media |-> 1, added |-> 0]},
   genres |-> {[source |-> "tmdb", external |-> "8", name |-> "x"]},
   links |-> {[media |-> 2, source |-> "tmdb", external |-> "8"]},
   seasons |-> {[media |-> 2, number |-> 0, external |-> None, date |-> None, count |-> 1, stamp |-> 1],
                [media |-> 2, number |-> 1, external |-> "7", date |-> "2026-01-01", count |-> 1, stamp |-> 1]},
   episodes |-> {[media |-> 2, season |-> 1, number |-> 0, external |-> "8", date |-> None, runtime |-> None, stamp |-> 1],
                 [media |-> 2, season |-> 1, number |-> 1, external |-> "7", date |-> None, runtime |-> 1, stamp |-> 1]},
   tracking |-> {[media |-> 1, type |-> "movie", watched |-> 1, rating |-> 1],
                 [media |-> 2, type |-> "tv", watched |-> None, rating |-> 1]},
   episode_tracking |-> {[media |-> 2, season |-> 1, number |-> 8, watched |-> 1]},
   events |-> {[id |-> 1, media |-> 1, type |-> "movie", season |-> None, number |-> None, watched |-> 0, runtime |-> 1],
               [id |-> 2, media |-> 2, type |-> "tv", season |-> 1, number |-> 8, watched |-> 1, runtime |-> None]},
   releases |-> {[id |-> 1, media |-> 2, season |-> 1, number |-> 1, kind |-> "new_episode", found |-> 1, read |-> None, date |-> None]}]

Series ==
  [t \in Tables |->
     CASE t \in {"library", "genres", "links"} -> {}
       [] t \in {"media", "refs", "tracking", "events"} -> {r \in Used[t] : r.type = "tv"}
       [] OTHER -> Used[t]]

Larger ==
  [Used EXCEPT !.events =
     @ \cup {[id |-> 7, media |-> 1, type |-> "movie", season |-> None, number |-> None, watched |-> 1, runtime |-> None]}]

MCLibraries == {Used, Larger, Series, [t \in Tables |-> {}]}

MCValues ==
  [f \in {"id", "media", "season", "number", "type", "title", "name", "external", "source", "kind",
          "date", "runtime", "count", "stamp", "added", "watched", "found", "read", "rating",
          "format", "version", "created", "app"} |->
     CASE f \in {"id", "media"} -> {0, 1, 2}
       [] f \in {"season", "number"} -> {-1, 0, 1, None}
       [] f = "type" -> {"movie", "tv", "x"}
       [] f \in {"title", "name", "kind", "format", "app"} -> {"", "x"}
       [] f = "version" -> {0, 2}
       [] f = "external" -> {"", "7", "8", "x", None}
       [] f = "source" -> {"tmdb", "x", "TMDB"}
       [] f = "date" -> {"x", None}
       [] f \in {"runtime", "count", "rating"} -> {-1, 0, 11, None}
       [] OTHER -> {-1, 1, None}]
=============================================================================
