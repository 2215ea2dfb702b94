------------------------------- MODULE Pages -------------------------------
(***************************************************************************)
(* The window over the data: the Library list with its selection and its   *)
(* detail pane (view.rs, main.rs, detail.rs), Home and Calendar             *)
(* (dashboard.rs, home.rs, calendar.rs), History (history.rs) and Updates  *)
(* (release_page.rs), and the announcements by which a handler that        *)
(* changed something has the others read it again.                         *)
(*                                                                         *)
(* One action is one handler with every handler it invokes, and with the   *)
(* change handlers of the window, which run when it returns. A page is     *)
(* read again whenever it is opened, so only the page on screen is kept.   *)
(***************************************************************************)
EXTENDS Tracking

CONSTANTS
  Order,         \* the titles in the order of the list
  Searches,      \* what search text and type filter leave: sets of titles
  HistoryLimit,  \* entries on History
  HomeLimit,     \* recent entries on Home
  Aired,         \* per episode, the day it airs
  MonthDays,     \* days in a month
  SoonDays,      \* days Home looks ahead
  Months,        \* bound on the months the calendar is shifted to
  Days,          \* bound on the days chosen in it
  QuietEvents    \* bound: pages are turned while no more events were logged

ASSUME PagesAssumption ==
  /\ Order \in Seq(Titles) /\ Range(Order) = Titles
  /\ Titles \in Searches /\ Searches \subseteq SUBSET Titles /\ None \notin Titles
  /\ HistoryLimit \in Nat /\ HomeLimit \in Nat /\ QuietEvents \in Nat
  /\ Aired \in [Episodes -> Nat] /\ MonthDays \in Nat \ {0} /\ SoonDays \in Nat
  /\ Months \subseteq Nat /\ Days \subseteq Int

VARIABLES
  member,      \* library_entries
  news,        \* per series: its release event, if any, and whether it was read
  page,        \* the page on screen
  shown,       \* what that page read
  filter,      \* the search in force
  list,        \* LibraryView::results
  marked,      \* UserLibrary::status: what the rows show as watched
  selected,    \* LibraryView::selected
  selectedId,  \* the window's selected-id
  pane,        \* the detail pane: its title, and what it read about it
  calendar     \* Dashboard::month and selected_day: what the calendar keeps

rows == <<filter, list, marked, selected, selectedId, pane>>
window == <<page, shown, calendar, rows>>
vars == <<tracking, member, news, window>>
-----------------------------------------------------------------------------
\* A second of the clock is a day here; a month is shown with the days around
\* it that fill its weeks.
MonthOf(day) == day \div MonthDays
InMonth(m) == m * MonthDays..(m + 1) * MonthDays - 1
Grid(m) == InMonth(m) \cup {m * MonthDays - 1, (m + 1) * MonthDays}

Nothing == [reads |-> {}]   \* a page that reads nothing again

PageNames == {"library", "home", "calendar", "history", "updates", "discover"}

TypeOK ==
  /\ TrackingTypeOK
  /\ member \subseteq Titles /\ news \in [Series -> {"none", "unread", "read"}]
  /\ page \in PageNames /\ filter \in Searches
  /\ list \subseteq Titles /\ marked \subseteq Targets
  /\ {selected, selectedId, pane.title} \subseteq Titles \cup {None}
  /\ pane.watched \subseteq Targets /\ pane.episodes \subseteq Episodes
  /\ calendar.first \in Nat \cup {None}
  /\ calendar.first # None => calendar.day \in Grid(calendar.first)

\* `continue_watching`: in the Library, and begun but not finished.
Continue == {s \in member \cap Series : Season(s) \cap Watched # {} /\ ~ Season(s) \subseteq Watched}

\* `events` of the calendar: stored episodes of Library titles, in a half-open
\* range of days.
Airing(from, end) == {x \in Episodes : Stored(x) /\ x[1] \in member /\ Aired[x] \in from..end - 1}

\* `next_known`: the first of the stored episodes that are not watched.
NextKnown(left) == CHOOSE x \in left : \A y \in left : x[2] <= y[2]

\* `coming_soon`: from today on.
ComingSoon(today) == Airing(today, today + SoonDays)

\* What a page reads on a day: `load` of home.rs, `month`, `recent_history`,
\* `recent` and `unread_count`. Discover and the list are not reread.
HomeContent(today) ==
  [continue |-> Continue, next |-> {NextKnown(Season(s) \ Watched) : s \in Continue},
   recent |-> RecentHistory(HomeLimit), today |-> today, soon |-> ComingSoon(today)]

CalendarContent(m) ==
  LET airing == Airing(m * MonthDays, (m + 1) * MonthDays) IN
    [events |-> airing,
     counts |-> [day \in Grid(m) |-> Cardinality({x \in airing : Aired[x] = day})]]

HistoryContent == RecentHistory(HistoryLimit)

UpdatesContent ==
  [events |-> news, unread |-> Cardinality({s \in Series : news[s] = "unread"})]

Content(p, today) ==
  CASE p = "home" -> HomeContent(today)
    [] p = "calendar" -> CalendarContent(calendar.first)
    [] p = "history" -> [entries |-> HistoryContent]
    [] p = "updates" -> UpdatesContent
    [] OTHER -> Nothing

\* `show_month`: the selected date if the month has it, else today, else the
\* first of the month.
ShowMonth(m) ==
  LET day == CASE calendar.first # None /\ calendar.day \in InMonth(m) -> calendar.day
               [] now \in InMonth(m) -> now
               [] OTHER -> m * MonthDays
  IN  calendar' = [first |-> m, day |-> day]

\* `load_current_month`: the month kept, or the one of today.
LoadMonth == ShowMonth(IF calendar.first = None THEN MonthOf(now) ELSE calendar.first)

\* `reselect`: the selected title if it is still listed, else the first.
Reselect(titles, chosen) ==
  IF chosen \in titles THEN chosen
  ELSE IF titles = {} THEN None
  ELSE Order[Min({i \in DOMAIN Order : Order[i] \in titles})]

\* What the pane reads about a title: `load_tracking` and `load_episodes`.
Ticks(t, watched) == {x \in watched : TitleOf(x) = t}
Read(t, watched, stored) ==
  [title |-> t, watched |-> Ticks(t, watched), episodes |-> {x \in Episodes : x[1] = t /\ x \in stored}]

StoredTargets == {x \in Targets : Stored(x)}

\* `Detail::select`, from the change handler of selected-id: another title is
\* read, the same one is left as it is.
Follow(t, old, watched, stored) == IF t = old.title THEN old ELSE Read(t, watched, stored)

\* `show_selection`.
Show(t, old, watched, stored) ==
  selectedId' = t /\ pane' = Follow(t, old, watched, stored)

\* `search` of library.rs: the titles of the Library that the text and the filter
\* let through.
Matching(titles, found) == titles \cap found

\* `reload`: the search again, with the rows' status read again, over the data
\* as the handler left it.
Reload(titles, found, old, watched, stored) ==
  LET chosen == Reselect(Matching(titles, found), selected)
  IN  /\ list' = Matching(titles, found) /\ marked' = watched
      /\ selected' = chosen
      /\ Show(chosen, old, watched, stored)

\* Mutant of Announce: Home, Calendar and Updates are not told.
AnnounceList(titles, old, watched, stored) ==
  /\ Reload(titles, filter, old, watched, stored)
  /\ UNCHANGED <<page, shown, calendar, filter>>

\* `library_changed` of the pane, and the end of `arrived` in the coordinator:
\* the list, the page on screen if it is Home, Calendar or Updates.
Announce(titles, old, watched, stored) ==
  /\ Reload(titles, filter, old, watched, stored)
  /\ UNCHANGED <<page, filter>>
  /\ IF page = "calendar" THEN LoadMonth ELSE UNCHANGED calendar
  /\ shown' = IF page \in {"home", "calendar", "updates"} THEN Content(page, now)' ELSE shown

Init ==
  /\ TrackingInit
  /\ member \in SUBSET Titles /\ news = [s \in Series |-> "none"]
  /\ page = "library" /\ shown = Nothing /\ filter = Titles
  /\ list = member /\ marked = {}
  /\ selected = Reselect(member, None) /\ selectedId = selected
  /\ pane = Read(selected, {}, StoredTargets)
  /\ calendar = [first |-> None, day |-> 0]
-----------------------------------------------------------------------------
\* The sidebar: `changed shown` has the page read its content.
OpenPage(p) ==
  /\ p # page /\ page' = p
  /\ IF p = "calendar" THEN LoadMonth ELSE UNCHANGED calendar
  /\ UNCHANGED <<tracking, member, news, rows>>
  /\ shown' = Content(p, now)'

\* `shift`: a month back or on.
ShiftMonth(amount) ==
  /\ page = "calendar" /\ calendar.first + amount \in Months
  /\ ShowMonth(calendar.first + amount)
  /\ UNCHANGED <<tracking, member, news, page, rows>>
  /\ shown' = Content(page, now)'

\* `select_day`: any cell of the grid. The month is not read again.
SelectDay(day) ==
  /\ page = "calendar" /\ day \in Grid(calendar.first)
  /\ calendar' = [calendar EXCEPT !.day = day]
  /\ UNCHANGED <<tracking, member, news, page, shown, rows>>

\* `set_query` and `library-options-changed`. The text alone does not reread
\* the status, the filter does; both see the same data.
Search(found) ==
  /\ page = "library" /\ found # filter /\ filter' = found
  /\ Reload(member, found, pane, Watched, StoredTargets)
  /\ UNCHANGED <<tracking, member, news, page, shown, calendar>>

\* `row-selected`.
SelectRow(t) ==
  /\ page = "library" /\ t \in list
  /\ selected' = t
  /\ Show(t, pane, Watched, StoredTargets)
  /\ UNCHANGED <<tracking, member, news, page, shown, calendar, filter, list, marked>>

\* `open-library-media`, from the other pages: the search is cleared; a title
\* that is not in the Library is shown without a row.
OpenMedia(t) ==
  /\ page' = "library" /\ shown' = Nothing /\ filter' = Titles
  /\ list' = member /\ marked' = Watched
  /\ selected' = IF t \in member THEN t ELSE None
  /\ Show(t, pane, Watched, StoredTargets)
  /\ UNCHANGED <<tracking, member, calendar>>

OpenFromHome(t) ==
  /\ page = "home" /\ t \in shown.continue \cup {TitleOf(r.event.target) : r \in Range(shown.recent)}
                                \cup {x[1] : x \in shown.soon}
  /\ OpenMedia(t) /\ UNCHANGED news

\* `open_event`: one of the selected day, by what the month read.
OpenFromCalendar(x) ==
  /\ page = "calendar" /\ x \in shown.events /\ Aired[x] = calendar.day
  /\ OpenMedia(TitleOf(x)) /\ UNCHANGED news

OpenFromHistory(e) ==
  /\ page = "history" /\ \E entry \in Range(shown.entries) : e = entry.event
  /\ OpenMedia(TitleOf(e.target)) /\ UNCHANGED news

\* `Page::open`: read first.
OpenFromUpdates(s) ==
  /\ page = "updates" /\ shown.events[s] # "none"
  /\ news' = [news EXCEPT ![s] = "read"]
  /\ OpenMedia(s)

\* `Remote::add` on a title that is in the Library already.
OpenFromDiscover(t) ==
  /\ page = "discover" /\ t \in member
  /\ OpenMedia(t) /\ UNCHANGED news

\* `Remote::add`: announced to the list only; Discover is on screen.
AddTitle(t) ==
  /\ page = "discover" /\ t \notin member
  /\ member' = member \cup {t}
  /\ Reload(member', filter, pane, Watched, StoredTargets)
  /\ UNCHANGED <<tracking, news, page, shown, calendar, filter>>

\* `library-remove`: what is selected, which the button needs a row for.
RemoveTitle ==
  /\ page = "library" /\ selected \in list
  /\ member' = member \ {selected}
  /\ Reload(member', filter, pane, Watched, StoredTargets)
  /\ UNCHANGED <<tracking, news, page, shown, calendar, filter>>

\* Mutant of Tracked: the pane is not read again.
TrackedUnread ==
  /\ UNCHANGED <<member, news>>
  /\ Announce(member, pane, Watched', StoredTargets')

\* `Detail::track`: the write, then the pane's state is read again, then the
\* announcement.
Tracked ==
  /\ UNCHANGED <<member, news>>
  /\ Announce(member, [pane EXCEPT !.watched = Ticks(pane.title, Watched')], Watched', StoredTargets')

\* `watch_toggle` and `episode_toggle`: by what the pane shows.
Toggle(x) ==
  /\ page = "library" /\ x \in pane.episodes \cup (Movies \cap {pane.title})
  /\ IF x \in pane.watched THEN Unwatch(x) ELSE Watch(x, FALSE)
  /\ Tracked

\* `detail-watch-again`, for movies.
WatchAgain(m) ==
  /\ page = "library" /\ m = pane.title
  /\ Watch(m, TRUE)
  /\ Tracked

\* `season_watched`.
ToggleSeason(s, watched) ==
  /\ page = "library" /\ s = pane.title /\ pane.episodes # {}
  /\ IF watched THEN WatchSeason(s) ELSE UnwatchSeason(s)
  /\ Tracked

\* `History::delete` and its reload.
DeleteEntry(e) ==
  /\ page = "history" /\ \E entry \in Range(shown.entries) : e = entry.event
  /\ Delete(e.id)
  /\ UNCHANGED <<member, news, page, calendar, rows>>
  /\ shown' = Content("history", now)'

\* `Page::mark_all`.
MarkAllRead ==
  /\ page = "updates"
  /\ news' = [s \in Series |-> IF news[s] = "none" THEN "none" ELSE "read"]
  /\ UNCHANGED <<tracking, member, page, calendar, rows>>
  /\ shown' = UpdatesContent'

\* An answer is saved: the coordinator's for a Library title, or the pane's own
\* for any title shown before, which the pane reads again if it still shows it.
\* An episode listed anew is announced once.
Answer(x, row, own) ==
  LET t == TitleOf(x)
      anew == x \in Episodes /\ ~Stored(x) /\ row.minutes # Gone
  IN  /\ own \/ t \in member
      /\ Refresh(x, row)
      /\ news' = IF anew /\ t \in member /\ news[t] = "none"
                 THEN [news EXCEPT ![t] = "unread"] ELSE news
      /\ UNCHANGED member
      /\ Announce(member, IF own /\ t = pane.title THEN Read(t, Watched, StoredTargets') ELSE pane,
                  Watched, StoredTargets')

TimePasses == Clock /\ UNCHANGED <<member, news, window>>
-----------------------------------------------------------------------------
\* Bound: answers that leave the row as it was are left out.
AnswerArrives ==
  \E x \in Targets, own \in BOOLEAN :
    \E row \in Given[x] \ {[minutes |-> runtime[x], name |-> called[x]]} : Answer(x, row, own)

\* The other pages are explored while at most QuietEvents were ever logged.
Navigate ==
  /\ lastId <= QuietEvents
  /\ \/ \E p \in PageNames : OpenPage(p)
     \/ \E found \in Searches : Search(found)
     \/ \E t \in Titles : SelectRow(t) \/ OpenFromHome(t) \/ OpenFromDiscover(t)
     \/ \E e \in events : OpenFromHistory(e)
     \/ \E s \in Series : OpenFromUpdates(s)
     \/ \E amount \in {-1, 1} : ShiftMonth(amount)
     \/ \E day \in Days : SelectDay(day)
     \/ \E x \in Episodes : OpenFromCalendar(x)

Change ==
  \/ \E t \in Titles : AddTitle(t)
  \/ RemoveTitle
  \/ \E x \in Targets : Toggle(x)
  \/ \E m \in Movies : WatchAgain(m)
  \/ \E s \in Series, watched \in BOOLEAN : ToggleSeason(s, watched)
  \/ \E e \in events : DeleteEntry(e)
  \/ MarkAllRead

Next ==
  Navigate \/ Change \/ AnswerArrives \/ TimePasses

Spec == Init /\ [][Next]_vars
-----------------------------------------------------------------------------
\* History lists these events, in this order.
Lists(entries, log) ==
  DOMAIN entries = DOMAIN log /\ \A i \in DOMAIN log : entries[i].event = log[i]

\* Whatever was changed, on whichever page, by the user or by an answer, the
\* page on screen shows what it would read now (Home what was coming soon on
\* the day it was read), and the Library list exactly the titles the search
\* leaves, with their status as it is. No announcement reaches History: its
\* entries are those of the log, but their names may be older than an answer
\* that came while it was open. The calendar never lists an episode that airs
\* outside the month it names.
PagesAreCurrent ==
  /\ IF page = "history" THEN Lists(shown.entries, Newest(events, HistoryLimit))
     ELSE shown = Content(page, IF page = "home" THEN shown.today ELSE now)
  /\ page = "calendar" => \A x \in shown.events : MonthOf(Aired[x]) = calendar.first
  /\ list = member \cap filter /\ marked = Watched

\* The pane, its ticks and its Remove button are about one title: the selected
\* row's; and the ticks, by which a click decides to mark or unmark, are true.
PaneIsChosen ==
  /\ pane.title = selectedId /\ pane.watched = Ticks(pane.title, Watched)
  /\ selected \in list => selected = selectedId
  /\ selected = None => selectedId \notin list
=============================================================================
