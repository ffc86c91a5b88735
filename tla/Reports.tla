------------------------------ MODULE Reports ------------------------------
(***************************************************************************)
(* How answers are put together: the shares of a country's viewers that    *)
(* its providers and cities get (gofn/geoip.go), the radio rows merged     *)
(* into the dashboard (gofn/admin_analytics.go), the published catalog     *)
(* (gofn/ondemand.go) and the filter of a PostgREST request (gofn/rest.go).*)
(***************************************************************************)
EXTENDS Integers, Sequences, SequencesExt, FiniteSets, FiniteSetsExt, Functions, Selections

CONSTANTS ShareLimit,             \* 20 providers or cities
          ShowLimit, SongLimit,   \* 15 shows and 5 songs
          TopLimit                \* 40 rows of top content

ASSUME ReportsAssumption ==
  ShareLimit \in Nat \ {0} /\ ShowLimit \in Nat /\ SongLimit \in Nat /\ TopLimit \in Nat

(* Shares *)

\* Mutant: what the rounding lost is nobody's.
SharesRounded(counts, total, order, low) ==
  [i \in 1..Min({Len(order), ShareLimit}) |->
     Max({1, (counts[order[i]] * total) \div FoldFunction(+, 0, counts)})]

\* A share is cut to a whole number, at least 1; where the product of the
\* fractions should be whole, floating point may fall just short of it, for the
\* counts in "low".  The first gets what is left over.  Names of equal count come in
\* any order.
Shares(counts, total, order, low) ==
  LET known == FoldFunction(+, 0, counts)
      Share(i) == LET product == counts[order[i]] * total
                      short == IF product % known = 0 /\ counts[order[i]] \in low THEN 1 ELSE 0
                  IN  Max({1, product \div known - short})
      shares == [i \in 1..Min({Len(order), ShareLimit}) |-> Share(i)]
      left == total - FoldFunction(+, 0, shares)
  IN  IF left > 0 THEN [shares EXCEPT ![1] = @ + left] ELSE shares

Orders(counts) ==
  {o \in SetToSeqs(DOMAIN counts) : \A i, j \in DOMAIN o : i < j => counts[o[i]] >= counts[o[j]]}

(* The dashboard: rows have a name, a type and views *)

Take(s, n) == SubSeq(s, 1, Min({n, Len(s)}))

\* Shows of the listener snapshots, or else of the history; then the songs that
\* have a title and are no jingle.
BuildRadioItems(snaps, shows, songs) ==
  Take(IF snaps # <<>> THEN snaps ELSE shows, ShowLimit)
    \o Take(Pick(songs, {i \in DOMAIN songs : ~songs[i].ignored}), SongLimit)

MoreViews(rows) ==
  Sorted(rows, LAMBDA i, j : \/ rows[i].views > rows[j].views
                             \/ rows[i].views = rows[j].views /\ i < j)

TopContent(content, items) ==
  LET others == Pick(content, {i \in DOMAIN content : content[i].type # "radio"})
  IN  Take(MoreViews(others \o items), TopLimit)

\* The breakdown by type: the radio row gets the sum over all items, also those that
\* are cut off; a sum of 0 leaves the row as it was.
RadioViews(breakdown, items) ==
  LET sum == FoldFunction(+, 0, [i \in DOMAIN items |-> items[i].views])
  IN  IF sum = 0 /\ "radio" \in DOMAIN breakdown
        THEN breakdown
        ELSE [t \in DOMAIN breakdown \cup {"radio"} |-> IF t = "radio" THEN sum ELSE breakdown[t]]

\* Nothing is merged without the radio's payload ("got"), or when it has nothing.
Merges(got, snaps, shows, songs) == got /\ (songs # <<>> \/ shows # <<>> \/ snaps # <<>>)

(* The published catalog: a show, its seasons in order, their episodes *)

SeasonJSON(season, publishedOnly) ==
  [id |-> season.id,
   episodes |-> Pick(season.episodes, {i \in DOMAIN season.episodes :
                                         publishedOnly => season.episodes[i].published})]

\* Newest season first; in the published catalog a show without a published
\* episode is left out.
BuildOnDemandPayload(shows, publishedOnly) ==
  LET Listed(x) == publishedOnly => x.published
      Has(sh) == \E i \in DOMAIN sh.seasons :
                   /\ sh.seasons[i].published
                   /\ \E j \in DOMAIN sh.seasons[i].episodes : sh.seasons[i].episodes[j].published
      kept == Pick(shows, {i \in DOMAIN shows :
                             Listed(shows[i]) /\ (publishedOnly => Has(shows[i]))})
  IN  [i \in DOMAIN kept |->
        LET all == Reverse(kept[i].seasons)
            seasons == Pick(all, {j \in DOMAIN all : Listed(all[j])})
        IN  [id |-> kept[i].id,
             seasons |-> [j \in DOMAIN seasons |-> SeasonJSON(seasons[j], publishedOnly)]]]

(* Filters: predicates are split at commas outside of parentheses *)

\* The state of the loop: depth, the current piece, the pieces before it.
SplitStep(c, at) ==
  CASE c = "," /\ at.depth = 0 -> [at EXCEPT !.out = Append(@, at.piece), !.piece = <<>>]
    [] c = "(" -> [at EXCEPT !.depth = @ + 1, !.piece = Append(@, c)]
    [] c = ")" -> [at EXCEPT !.depth = Max({0, @ - 1}), !.piece = Append(@, c)]
    [] OTHER   -> [at EXCEPT !.piece = Append(@, c)]

SplitFilter(filter) ==
  LET end == FoldLeft(LAMBDA at, c : SplitStep(c, at),
                      [depth |-> 0, piece |-> <<>>, out |-> <<>>], filter)
  IN  IF end.piece = <<>> THEN end.out ELSE Append(end.out, end.piece)
=============================================================================
