----------------------------- MODULE Algorithms -----------------------------
(***************************************************************************)
(* The pure parts, run on bounded inputs: a behaviour picks a task and     *)
(* answers it.  The properties compare the answers with what they should   *)
(* be, said another way.                                                   *)
(***************************************************************************)
EXTENDS Lineup, Reports

CONSTANTS MaxCount, MaxTotal,   \* bounds: addresses of a provider, viewers
          MaxRows,              \* bound: rows of a list
          MaxFilter             \* bound: characters of a filter

ASSUME AlgorithmsAssumption ==
  MaxCount \in Nat /\ MaxTotal \in Nat /\ MaxRows \in Nat /\ MaxFilter \in Nat

VARIABLES task, answer

algorithmVars == <<task, answer>>

Unanswered == [kind |-> "none"]
NoTask == task = Unanswered /\ answer = Unanswered

UpTo(S, n) == UNION {[1..k -> S] : k \in 0..n}

Today == 1
Station == [id : {"st"}, type : {"tv", "radio"}, visible : BOOLEAN]
Event == [platform : {"tv", "both"}, stations : {{}, {"st"}, {"other"}},
          enableChat : BOOLEAN, from : {0, 2}, to : {1, 3}]

AirTasks == [kind : {"air"}, programs : UpTo(Program, 2), now : Slots]
EpgTasks == [kind : {"epg"}, station : Station, programs : UpTo(Program, 1),
             events : UpTo(Event, 1), now : {1, 2}]
ShareTasks == [kind : {"shares"}, counts : UpTo(1..MaxCount, 4) \ {<<>>}, total : 0..MaxTotal]
RadioRow == [type : {"radio"}, views : 0..2, ignored : BOOLEAN]
DashboardTasks ==
  [kind : {"dashboard"}, content : UpTo([type : {"radio", "tv"}, views : 0..2], MaxRows),
   snaps : UpTo(RadioRow, 1), shows : {<<>>, <<[type |-> "radio", views |-> 2, ignored |-> FALSE]>>},
   songs : UpTo(RadioRow, MaxRows), got : BOOLEAN,
   breakdown : [{"tv"} -> {1}] \cup [{"tv", "radio"} -> {1}]]
CatalogEpisode == [published : BOOLEAN]
CatalogSeason == [id : {"se1", "se2"}, published : BOOLEAN, episodes : UpTo(CatalogEpisode, 2)]
CatalogTasks ==
  [kind : {"catalog"}, publishedOnly : BOOLEAN,
   shows : [1..1 -> [id : {"sh"}, published : BOOLEAN, seasons : UpTo(CatalogSeason, 2)]]]
FilterTasks == [kind : {"filter"}, filter : UpTo({"k", ",", "(", ")"}, MaxFilter)]

AlgorithmInit ==
  /\ task \in AirTasks \cup EpgTasks \cup ShareTasks \cup DashboardTasks
              \cup CatalogTasks \cup FilterTasks
  /\ answer = Unanswered

Answers(kind) == task.kind = kind /\ answer = Unanswered /\ UNCHANGED task

AnswerAir ==
  /\ Answers("air")
  /\ answer' = [kind |-> "air", on |-> ActiveProgramAt(task.programs, Today, task.now),
                listed |-> FilterPrograms(task.programs, Today)]

AnswerEpg ==
  /\ Answers("epg")
  /\ LET programs == [id \in {"st"} |-> task.programs]
     IN  answer' =
           [kind |-> "epg",
            shown |-> InPayload(task.station, programs, task.events, Today, task.now),
            list |-> StationPrograms(task.station, programs, task.events, Today, task.now)]

AnswerShares ==
  /\ Answers("shares")
  /\ \E order \in Orders(task.counts), low \in SUBSET ToSet(task.counts) :
       answer' = [kind |-> "shares", shares |-> Shares(task.counts, task.total, order, low),
                  order |-> order]

AnswerDashboard ==
  /\ Answers("dashboard")
  /\ LET items == BuildRadioItems(task.snaps, task.shows, task.songs)
     IN  IF Merges(task.got, task.snaps, task.shows, task.songs)
           THEN answer' = [kind |-> "dashboard", top |-> TopContent(task.content, items),
                           views |-> RadioViews(task.breakdown, items)]
           ELSE answer' = [kind |-> "dashboard", top |-> task.content, views |-> task.breakdown]

AnswerCatalog ==
  /\ Answers("catalog")
  /\ answer' = [kind |-> "catalog", shows |-> BuildOnDemandPayload(task.shows, task.publishedOnly)]

AnswerFilter ==
  /\ Answers("filter")
  /\ answer' = [kind |-> "filter", pieces |-> SplitFilter(task.filter)]

AlgorithmNext ==
  \/ AnswerAir \/ AnswerEpg \/ AnswerShares
  \/ AnswerDashboard \/ AnswerCatalog \/ AnswerFilter

----------------------------------------------------------------------------
(* Properties *)

\* By the calendar a program is on when a day of its days began its showing,
\* today or, past midnight, yesterday.
CrossesMidnight(p) == p.end <= p.start
Airs(p, day, now) ==
  \E back \in {0, 1} :
    /\ (day - back) % Week \in p.days
    /\ p.start <= now + back * DaySlots
    /\ now + back * DaySlots < p.end + (IF CrossesMidnight(p) THEN DaySlots ELSE 0)

\* Whether a program is on is the calendar's answer, but for the hours past midnight
\* of a program that crosses it and is not on both days (activeProgramAt asks for
\* today's weekday).  The chat managers' program is the first that is on.
AirRight ==
  answer.kind = "air" =>
    LET On(i) == OnAir(task.programs[i], Today, task.now)
    IN  /\ \A i \in DOMAIN task.programs :
             LET p == task.programs[i]
             IN  On(i) # Airs(p, Today, task.now) =>
                   CrossesMidnight(p) /\ task.now < p.end
                     /\ (Today \in p.days) # (Yesterday(Today) \in p.days)
        /\ answer.on = 0 => \A i \in DOMAIN task.programs : ~On(i)
        /\ answer.on # 0 => On(answer.on) /\ \A i \in 1..(answer.on - 1) : ~On(i)

\* The EPG of the day lists that program, and everything that airs, but for a
\* program that crosses midnight within one hour of the clock; and it lists nothing
\* that does not air that day, but for one that ends at midnight sharp.
ListedRight ==
  answer.kind = "air" =>
    \A i \in DOMAIN task.programs :
      LET p == task.programs[i]
          listed == \E j \in DOMAIN answer.listed : answer.listed[j] = p
      IN  /\ Airs(p, Today, task.now) =>
               listed \/ (CrossesMidnight(p) /\ ParseHour(p.end) = ParseHour(p.start))
          /\ listed => p.end = 0 \/ \E t \in Slots : Airs(p, Today, t)
          /\ answer.on = i => listed

\* A station is shown with all that airs on it and the events aimed at it, which
\* come first; nothing of a hidden station is shown, and no event out of its time.
EpgRight ==
  answer.kind = "epg" =>
    /\ answer.shown => task.station.visible
    /\ \A i \in DOMAIN task.programs :
         task.station.visible /\ OnAir(task.programs[i], Today, task.now) =>
           answer.shown /\ \E j \in DOMAIN answer.list : answer.list[j] = task.programs[i]
    /\ \A j \in DOMAIN answer.list :
         answer.list[j] \in Event =>
           /\ answer.list[j].from <= task.now /\ task.now <= answer.list[j].to
           /\ "other" \notin answer.list[j].stations
           /\ \A k \in DOMAIN answer.list : k < j => answer.list[k] \in Event

\* The shares add up to the viewers, unless shares below one viewer were raised
\* to one; then they exceed them by less than one each.  They are in falling order.
SharesRight ==
  answer.kind = "shares" =>
    LET n == Len(answer.shares)
        sum == FoldFunction(+, 0, answer.shares)
        known == FoldFunction(+, 0, task.counts)
    IN  /\ sum >= task.total
        /\ sum > task.total =>
             /\ sum - task.total <= n
             /\ \E i \in 1..n : task.counts[answer.order[i]] * task.total < known
        /\ \A i, j \in 1..n : answer.shares[i] >= 1 /\ (i < j => answer.shares[i] >= answer.shares[j])

\* The merged top content has no radio row of its own query, is in falling order,
\* and leaves out no row with more views than one it shows.  The breakdown's radio
\* row counts every item, those that are cut off too, and no row shown has more views;
\* an answer that the radio has nothing for is left alone, its radio rows too.
DashboardRight ==
  answer.kind = "dashboard" =>
    LET items == BuildRadioItems(task.snaps, task.shows, task.songs)
        Times(s, v, t) == Cardinality({i \in DOMAIN s : s[i].views = v /\ s[i].type = t})
        other == {v \in 0..2 : Times(answer.top, v, "tv") < Times(task.content, v, "tv")}
        radio == {v \in 0..2 : Times(answer.top, v, "radio") < Times(items, v, "radio")}
        heard == FoldFunction(+, 0, [i \in DOMAIN items |-> items[i].views])
    IN  /\ Merges(task.got, task.snaps, task.shows, task.songs) =>
             /\ \A v \in 0..2 : /\ Times(answer.top, v, "radio") <= Times(items, v, "radio")
                                /\ Times(answer.top, v, "tv") <= Times(task.content, v, "tv")
             /\ \A i, j \in DOMAIN answer.top : i < j => answer.top[i].views >= answer.top[j].views
             /\ \A v \in other \cup radio, i \in DOMAIN answer.top : answer.top[i].views >= v
             /\ other \cup radio # {} => Len(answer.top) = TopLimit
             /\ \A i \in DOMAIN answer.top :
                  answer.top[i].type = "radio" => answer.top[i].views <= answer.views["radio"]
             /\ heard # 0 \/ "radio" \notin DOMAIN task.breakdown => answer.views["radio"] = heard
             /\ \A t \in DOMAIN task.breakdown :
                  t # "radio" \/ heard = 0 => answer.views[t] = task.breakdown[t]
        /\ ~Merges(task.got, task.snaps, task.shows, task.songs) =>
             answer.top = task.content /\ answer.views = task.breakdown

\* The published catalog shows just what is published all the way up, and no
\* show or episode twice; the full catalog shows everything.
CatalogRight ==
  answer.kind = "catalog" =>
    LET sh == task.shows[1]
        Visible(se) == Pick(se.episodes, {i \in DOMAIN se.episodes :
                                            ~task.publishedOnly \/ se.episodes[i].published})
        due == {i \in DOMAIN sh.seasons :
                  ~task.publishedOnly \/ (sh.published /\ sh.seasons[i].published)}
        out == IF answer.shows = <<>> THEN <<>> ELSE answer.shows[1].seasons
    IN  /\ answer.shows = <<>> =>
             task.publishedOnly /\ \A i \in due : Visible(sh.seasons[i]) = <<>>
        /\ answer.shows # <<>> =>
             /\ Len(out) = Cardinality(due)
             /\ \A i \in due : out[Len(out) - Cardinality({j \in due : j < i})] =
                                 [id |-> sh.seasons[i].id, episodes |-> Visible(sh.seasons[i])]
             /\ task.publishedOnly => \E i \in due : Visible(sh.seasons[i]) # <<>>

\* Splitting loses nothing but a comma at the end, and leaves a comma inside of
\* parentheses alone, in any filter whose parentheses are closed after they open.
FilterRight ==
  answer.kind = "filter" =>
    LET f == task.filter
        Depth(i) == Cardinality({j \in 1..i : f[j] = "("}) - Cardinality({j \in 1..i : f[j] = ")"})
        tops == {i \in DOMAIN f : f[i] = "," /\ Depth(i) = 0}
    IN  (\A i \in DOMAIN f : Depth(i) >= 0) =>
          LET joined == FoldLeft(LAMBDA x, y : x \o <<",">> \o y, <<>>, answer.pieces)
          IN  /\ joined = IF answer.pieces = <<>> THEN <<>>
                          ELSE <<",">> \o (IF f[Len(f)] = "," /\ Len(f) \in tops
                                           THEN Front(f) ELSE f)
              /\ Len(answer.pieces) = Cardinality(tops \ {Len(f)}) + (IF f = <<>> THEN 0 ELSE 1)

AlgorithmsRight ==
  AirRight /\ ListedRight /\ EpgRight /\ SharesRight /\ DashboardRight /\ CatalogRight /\ FilterRight
=============================================================================
