------------------------------ MODULE OnDemand ------------------------------
(***************************************************************************)
(* Editing the on-demand catalog (gofn/ondemand_crud.go): shows, their     *)
(* seasons and episodes, the numbers new ones get, and the counts that     *)
(* every show and season carries.  Each handler is a row of requests to    *)
(* PostgREST; a read that fails is taken for "nothing found", a write that *)
(* fails is answered 500 though it may have been committed, and the counts *)
(* are read and written back at the end, failures ignored.                 *)
(***************************************************************************)
EXTENDS Integers, FiniteSets, FiniteSetsExt, Sequences

CONSTANTS
  Shows,      \* ids of shows
  Slug,       \* slug of each show's title, shared by shows of one title
  Mirrored,   \* season ids the dashboard brings along, not made of a slug
  Admins,     \* requests
  MaxNumber,  \* bound: seasons of a show, episodes of a season
  MaxEdits,   \* bound: requests
  MaxLost     \* bound: requests to PostgREST that fail

NoTitle == "notitle"
Slugs == {Slug[s] : s \in Shows} \cup {NoTitle} \cup Shows

ASSUME OnDemandAssumption ==
  /\ MaxNumber \in Nat \ {0} /\ MaxEdits \in Nat /\ MaxLost \in Nat
  /\ Mirrored \cap (Slugs \X Nat) = {} /\ Shows # {}

VARIABLES
  shows,     \* season_count of each show that exists
  seasons,   \* rows: id, show, ord, episode_count
  episodes,  \* rows: season, number in the id, show
  admin,     \* each request's progress
  doubt,     \* shows and seasons whose count a failure or an overlap spoilt
  edits, lost

onDemandVars == <<shows, seasons, episodes, admin, doubt, edits, lost>>

SeasonIds == Mirrored \cup (Slugs \X (1..MaxNumber))

\* An id tells what it is of.
ASSUME IdAssumption == Shows \cap SeasonIds = {}

Season(id) == CHOOSE x \in seasons : x.id = id
Exists(id) == \E x \in seasons : x.id = id
SeasonsOf(sh) == {x \in seasons : x.show = sh}
EpisodesOf(id) == {x \in episodes : x.season = id}
NextOrd(sh) == 1 + Max({0} \cup {x.ord : x \in SeasonsOf(sh)})
NextNumber(id) == 1 + Max({0} \cup {x.number : x \in EpisodesOf(id)})

\* What a count says, and what it should say.
Objects == Shows \cup SeasonIds
Stands(o) == o \in DOMAIN shows \/ Exists(o)
CountOf(o) == IF o \in Shows THEN shows[o] ELSE Season(o).count
RowsOf(o) == IF o \in Shows THEN {x.id : x \in SeasonsOf(o)} ELSE EpisodesOf(o)
Truth(o) == Cardinality(RowsOf(o))

Nobody == [pc |-> "idle", show |-> CHOOSE s \in Shows : TRUE, season |-> <<>>,
           number |-> 0, episode |-> FALSE, made |-> FALSE, todo |-> <<>>, seen |-> {}]

OnDemandInit ==
  /\ shows = [s \in {} |-> 0]
  /\ seasons = {} /\ episodes = {}
  /\ admin = [a \in Admins |-> Nobody]
  /\ doubt = {}
  /\ edits = 0 /\ lost = 0

In(a, pc) == admin[a].pc = pc
Lose == lost < MaxLost /\ lost' = lost + 1
Begin(a) == In(a, "idle") /\ edits < MaxEdits /\ edits' = edits + 1
Finish(a) == admin' = [admin EXCEPT ![a] = Nobody]
rows == <<shows, seasons, episodes>>

----------------------------------------------------------------------------
(* Shows: one write each.  The Bunny collection's id is patched in after a    *)
(* create; updates may also set a count by hand.  A lost answer to one of     *)
(* these changes nothing: no request follows it.                              *)

CreateShow(a, sh) ==
  /\ Begin(a)
  /\ sh \notin DOMAIN shows
  /\ shows' = [s \in DOMAIN shows \cup {sh} |-> IF s = sh THEN 0 ELSE shows[s]]
  /\ doubt' = doubt \ {sh}
  /\ UNCHANGED <<seasons, episodes, admin, lost>>

\* Mutant: only the show goes.
DeleteShowOnly(a, sh) ==
  /\ Begin(a)
  /\ sh \in DOMAIN shows
  /\ shows' = [s \in DOMAIN shows \ {sh} |-> shows[s]]
  /\ UNCHANGED <<seasons, episodes, admin, doubt, lost>>

\* The foreign keys take the seasons and episodes along, also an episode that
\* was put into a season of another show: that season is not counted again.
DeleteShow(a, sh) ==
  /\ Begin(a)
  /\ sh \in DOMAIN shows
  /\ shows' = [s \in DOMAIN shows \ {sh} |-> shows[s]]
  /\ seasons' = {x \in seasons : x.show # sh}
  /\ episodes' = {x \in episodes : x.show # sh /\ Season(x.season).show # sh}
  /\ doubt' = doubt \cup {x.season : x \in {y \in episodes : y.show = sh}}
  /\ UNCHANGED <<admin, lost>>

SetCount(a, o, n) ==
  /\ Begin(a)
  /\ Stands(o)
  /\ IF o \in Shows
     THEN shows' = [shows EXCEPT ![o] = n] /\ seasons' = seasons
     ELSE /\ seasons' = {IF x.id = o THEN [x EXCEPT !.count = n] ELSE x : x \in seasons}
          /\ shows' = shows
  /\ doubt' = doubt \cup {o}
  /\ UNCHANGED <<episodes, admin, lost>>

----------------------------------------------------------------------------
(* Seasons *)

Work(a, pc, sh, id, episode) ==
  admin' = [admin EXCEPT ![a] = [Nobody EXCEPT !.pc = pc, !.show = sh, !.season = id,
                                 !.episode = episode]]

\* The id is made of the title's slug and the number, before the insert.
Place(a, id, number) ==
  admin' = [admin EXCEPT ![a].pc = "insertSeason", ![a].season = id, ![a].number = number]

\* createOnDemandSeason: the next number, or the one the caller asks for.
AskSeason(a, sh) ==
  /\ Begin(a)
  /\ Work(a, "number", sh, <<>>, FALSE)
  /\ UNCHANGED <<rows, doubt, lost>>

NumberSeason(a, number, slug) ==
  /\ In(a, "number")
  /\ number = NextOrd(admin[a].show) \/ (~admin[a].episode /\ number \in 1..MaxNumber)
  /\ number <= MaxNumber
  /\ slug = Slug[admin[a].show]
  /\ Place(a, IF admin[a].season = <<>> THEN <<slug, number>> ELSE admin[a].season, number)
  /\ UNCHANGED <<rows, doubt, edits, lost>>

\* Either read fails: the first number, or an empty slug.  The episode's handler
\* then falls back on a slug of the show's id, not of its title.
NumberSeasonBlind(a) ==
  /\ In(a, "number")
  /\ Lose
  /\ \/ Place(a, IF admin[a].season = <<>> THEN <<Slug[admin[a].show], 1>>
                                           ELSE admin[a].season, 1)
     \/ /\ NextOrd(admin[a].show) <= MaxNumber
        /\ admin[a].season = <<>>
        /\ Place(a, <<IF admin[a].episode THEN admin[a].show ELSE NoTitle,
                      NextOrd(admin[a].show)>>, NextOrd(admin[a].show))
  /\ UNCHANGED <<rows, doubt, edits>>

\* Keys are unique, and the show must be there; else 500.
InsertSeason(a) ==
  /\ In(a, "insertSeason")
  /\ LET d == admin[a]
         legal == d.show \in DOMAIN shows /\ ~Exists(d.season)
     IN  /\ seasons' = IF legal
                       THEN seasons \cup {[id |-> d.season, show |-> d.show,
                                           ord |-> d.number, count |-> 0]}
                       ELSE seasons
         /\ admin' = [admin EXCEPT ![a] =
              IF ~legal THEN Nobody
              ELSE IF d.episode
                   THEN [d EXCEPT !.pc = "insertEpisode", !.made = TRUE,
                                  !.number = NextNumber(d.season),
                                  !.todo = <<d.season, d.show>>]
                   ELSE [d EXCEPT !.pc = "recount", !.todo = <<d.show>>]]
         /\ doubt' = IF legal THEN doubt \ {d.season} ELSE doubt
  /\ UNCHANGED <<shows, episodes, edits, lost>>

\* The answer to the insert is an error, and the handler ends with 500; the row may
\* be there all the same, and then its show is not counted again.
InsertSeasonFails(a) ==
  /\ In(a, "insertSeason")
  /\ Lose
  /\ Finish(a)
  /\ \/ UNCHANGED <<seasons, doubt>>
     \/ LET d == admin[a]
        IN  /\ d.show \in DOMAIN shows /\ ~Exists(d.season)
            /\ seasons' = seasons \cup {[id |-> d.season, show |-> d.show,
                                         ord |-> d.number, count |-> 0]}
            /\ doubt' = (doubt \ {d.season}) \cup {d.show}
  /\ UNCHANGED <<shows, episodes, edits>>

\* The season, if it is this show's, goes with its episodes.
RemoveSeason(sh, id) ==
  /\ seasons' = {x \in seasons : ~(x.id = id /\ x.show = sh)}
  /\ episodes' = IF \E x \in seasons : x.id = id /\ x.show = sh
                 THEN episodes \ EpisodesOf(id) ELSE episodes

\* Mutant: the season goes, the show's count stays.
DeleteSeasonOnly(a, sh, id) ==
  /\ Begin(a)
  /\ RemoveSeason(sh, id)
  /\ UNCHANGED <<shows, admin, doubt, lost>>

\* The delete, and the cascade, are the first request of the handler; that it
\* matches no row (as when it is sent again) is no error, and the show is counted.
DeleteSeason(a, sh, id) ==
  /\ Begin(a)
  /\ RemoveSeason(sh, id)
  /\ admin' = [admin EXCEPT ![a] =
       [Nobody EXCEPT !.pc = "recount", !.show = sh, !.todo = <<sh>>]]
  /\ UNCHANGED <<shows, doubt, lost>>

\* The season is gone but the answer is an error: 500, and no recount.  (That
\* nothing is deleted changes nothing.)
DeleteSeasonFails(a, sh, id) ==
  /\ Begin(a)
  /\ Lose
  /\ RemoveSeason(sh, id)
  /\ doubt' = doubt \cup {sh}
  /\ UNCHANGED <<shows, admin>>

----------------------------------------------------------------------------
(* Episodes *)

\* createSfxEpisode finds its season: the id it is given, else the one of the
\* title or the lowest (here: some season of the show).  If there is none, or
\* the lookup fails, it makes one.
AskEpisode(a, sh, id) ==
  /\ Begin(a)
  /\ id \in Mirrored \cup {<<>>} \cup {x.id : x \in SeasonsOf(sh)}
  /\ Exists(id) => NextNumber(id) <= MaxNumber
  /\ IF Exists(id)
     THEN admin' = [admin EXCEPT ![a] =
            [Nobody EXCEPT !.pc = "insertEpisode", !.show = sh, !.season = id, !.episode = TRUE,
                           !.number = NextNumber(id), !.todo = <<id, sh>>]]
     ELSE Work(a, "number", sh, id, TRUE)
  /\ UNCHANGED <<rows, doubt, lost>>

AskEpisodeBlind(a, sh, id) ==
  /\ Begin(a)
  /\ Lose
  /\ id \in Mirrored \cup {<<>>}
  /\ Work(a, "number", sh, id, TRUE)
  /\ UNCHANGED <<rows, doubt>>

\* The number was taken from the ids that were there; a number that is taken by
\* now is refused, and so is a season that is gone: 500, and a season that was
\* just made stays without having been counted.
InsertEpisode(a) ==
  /\ In(a, "insertEpisode")
  /\ LET d == admin[a]
         row == [season |-> d.season, number |-> d.number, show |-> d.show]
         taken == d.number \in {x.number : x \in EpisodesOf(d.season)}
         legal == Exists(d.season) /\ ~taken /\ d.show \in DOMAIN shows
     IN  /\ episodes' = IF legal THEN episodes \cup {row} ELSE episodes
         /\ admin' = [admin EXCEPT ![a] = IF legal THEN [d EXCEPT !.pc = "recount"] ELSE Nobody]
         /\ doubt' = IF ~legal /\ d.made THEN doubt \cup {d.show} ELSE doubt
  /\ UNCHANGED <<shows, seasons, edits, lost>>

\* The ids cannot be read: the first number.
NumberEpisodeBlind(a) ==
  /\ In(a, "insertEpisode")
  /\ Lose
  /\ admin' = [admin EXCEPT ![a].number = 1]
  /\ UNCHANGED <<rows, doubt, edits>>

\* As InsertSeasonFails: the row may be there, its season is not counted again.
InsertEpisodeFails(a) ==
  /\ In(a, "insertEpisode")
  /\ Lose
  /\ Finish(a)
  /\ LET d == admin[a]
         row == [season |-> d.season, number |-> d.number, show |-> d.show]
         unmade == IF d.made THEN {d.show} ELSE {}
     IN  \/ /\ doubt' = doubt \cup unmade
            /\ UNCHANGED episodes
         \/ /\ Exists(d.season) /\ d.show \in DOMAIN shows
            /\ d.number \notin {x.number : x \in EpisodesOf(d.season)}
            /\ episodes' = episodes \cup {row}
            /\ doubt' = doubt \cup unmade \cup {d.season}
  /\ UNCHANGED <<shows, seasons, edits>>

RemoveEpisode(id, number) ==
  episodes' = {x \in episodes : ~(x.season = id /\ x.number = number)}

DeleteEpisode(a, id, number) ==
  /\ Begin(a)
  /\ RemoveEpisode(id, number)
  /\ admin' = [admin EXCEPT ![a] =
       [Nobody EXCEPT !.pc = "recount", !.season = id, !.todo = <<id>>]]
  /\ UNCHANGED <<shows, seasons, doubt, lost>>

DeleteEpisodeFails(a, id, number) ==
  /\ Begin(a)
  /\ Lose
  /\ RemoveEpisode(id, number)
  /\ doubt' = doubt \cup {id}
  /\ UNCHANGED <<shows, seasons, admin>>

----------------------------------------------------------------------------
(* Counts *)

Next1(a) ==
  LET d == admin[a]
  IN  admin' = [admin EXCEPT ![a] =
        IF Len(d.todo) = 1 THEN Nobody ELSE [d EXCEPT !.pc = "recount", !.todo = Tail(d.todo)]]

ReadCount(a) ==
  /\ In(a, "recount")
  /\ admin' = [admin EXCEPT ![a].pc = "patch", ![a].seen = RowsOf(Head(admin[a].todo))]
  /\ UNCHANGED <<rows, doubt, edits, lost>>

\* The rows that were read may not be those there are by now.
PatchCount(a) ==
  /\ In(a, "patch")
  /\ LET o == Head(admin[a].todo)
         n == Cardinality(admin[a].seen)
     IN  /\ shows' = IF o \in DOMAIN shows THEN [shows EXCEPT ![o] = n] ELSE shows
         /\ seasons' = {IF x.id = o THEN [x EXCEPT !.count = n] ELSE x : x \in seasons}
         /\ doubt' = IF admin[a].seen = RowsOf(o) THEN doubt \ {o} ELSE doubt \cup {o}
  /\ Next1(a)
  /\ UNCHANGED <<episodes, edits, lost>>

\* The read fails, or the patch does without effect; with its effect it is
\* PatchCount, for its error is dropped.
CountFails(a) ==
  /\ In(a, "recount") \/ In(a, "patch")
  /\ Lose
  /\ doubt' = doubt \cup {Head(admin[a].todo)}
  /\ Next1(a)
  /\ UNCHANGED <<rows, edits>>

OnDemandNext ==
  \E a \in Admins :
    \/ \E sh \in Shows : CreateShow(a, sh) \/ DeleteShow(a, sh) \/ AskSeason(a, sh)
    \/ \E o \in Objects, n \in 0..1 : SetCount(a, o, n)
    \/ \E number \in 1..MaxNumber, slug \in Slugs : NumberSeason(a, number, slug)
    \/ NumberSeasonBlind(a) \/ InsertSeason(a) \/ InsertSeasonFails(a)
    \/ \E sh \in Shows, id \in SeasonIds : DeleteSeason(a, sh, id) \/ DeleteSeasonFails(a, sh, id)
    \/ \E sh \in Shows, id \in SeasonIds \cup {<<>>} :
         AskEpisode(a, sh, id) \/ AskEpisodeBlind(a, sh, id)
    \/ InsertEpisode(a) \/ NumberEpisodeBlind(a) \/ InsertEpisodeFails(a)
    \/ \E id \in SeasonIds, number \in 1..MaxNumber :
         DeleteEpisode(a, id, number) \/ DeleteEpisodeFails(a, id, number)
    \/ ReadCount(a) \/ PatchCount(a) \/ CountFails(a)

OnDemandSpec == OnDemandInit /\ [][OnDemandNext]_onDemandVars

----------------------------------------------------------------------------
(* Properties *)

\* Every variable has its type; keys are unique and nothing is an orphan.
OnDemandTypeOK ==
  /\ DOMAIN shows \subseteq Shows /\ \A s \in DOMAIN shows : shows[s] \in Nat
  /\ \A x \in seasons : x.id \in SeasonIds /\ x.show \in DOMAIN shows /\ x.count \in Nat
  /\ \A x, y \in seasons : x.id = y.id => x = y
  /\ \A x \in episodes : Exists(x.season) /\ x.show \in DOMAIN shows
  /\ \A a \in Admins : admin[a].pc \in {"idle", "number", "insertSeason", "insertEpisode",
                                        "recount", "patch"}
  /\ \A a \in Admins : admin[a].todo # <<>> <=> admin[a].pc \in {"insertEpisode", "recount", "patch"}
  /\ doubt \subseteq Objects
  /\ edits \in 0..MaxEdits /\ lost \in 0..MaxLost

\* A show's season count and a season's episode count are right, unless a
\* request that will write it is still running, or it is in doubt since it was last
\* counted: it was set by hand, a request of the handlers failed (with or without
\* its effect), rows came or went between another's read and patch, or an episode
\* was filed under another show's season.  One recount of its own rows settles the
\* doubt, whatever came before; no order of creates, deletes and cascades without
\* such a mishap leaves a wrong count behind (the recounts of createOnDemandSeason,
\* deleteOnDemandSeason, deleteOnDemandEpisode and createSfxEpisode).
CountsTrue ==
  \A o \in Objects :
    Stands(o) /\ CountOf(o) # Truth(o) =>
      o \in doubt \/ \E a \in Admins : \E i \in DOMAIN admin[a].todo : admin[a].todo[i] = o
=============================================================================
