---------------------------- MODULE ContentProofs ----------------------------
(***************************************************************************)
(* What holds of the catalog's counts, of videos and collections, of radio *)
(* tables, of mirrored tables and of search indices, for any shows,        *)
(* programs, days, documents, requests and failures, and then of all the   *)
(* parts that MCContent puts side by side.                                 *)
(***************************************************************************)
EXTENDS MCContent, AlgorithmProofs, FiniteSetTheorems, TLAPS

----------------------------------------------------------------------------
(* Finite sets of numbers *)

\* Max of a finite set of numbers is its greatest member.
LEMMA GreatestOf ==
  ASSUME NEW S \in SUBSET Nat, IsFiniteSet(S), S # {}
  PROVE  Max(S) \in S /\ \A y \in S : y <= Max(S)
<1> DEFINE Before(x) == {e \in S : e < x}
<1>1. /\ Cardinality(S) \in Nat /\ \A x \in S : Cardinality(Before(x)) \in 0..(Cardinality(S) - 1)
      /\ \A k \in 0..(Cardinality(S) - 1) : \E x \in S : Cardinality(Before(x)) = k
  <2>1. S \in SUBSET Int
      OBVIOUS
  <2> QED BY <2>1, RanksAreInterval
<1>2. Cardinality(S) # 0
    BY FS_EmptySet
<1>3. PICK x \in S : Cardinality(Before(x)) = Cardinality(S) - 1
    BY <1>1, <1>2
<1>4. \A y \in S : y <= x
  <2> SUFFICES ASSUME NEW y \in S, x < y PROVE FALSE
      OBVIOUS
  <2>1. Before(x) \in SUBSET (S \ {x, y})
    <3>1. ~(x < x) /\ ~(y < x)
        OBVIOUS
    <3> QED BY <3>1
  <2>2. IsFiniteSet(S \ {x}) /\ Cardinality(S \ {x}) = Cardinality(S) - 1
      BY FS_RemoveElement
  <2>3. (S \ {x}) \ {y} = S \ {x, y} /\ y \in S \ {x}
      OBVIOUS
  <2>4. IsFiniteSet(S \ {x, y}) /\ Cardinality(S \ {x, y}) = Cardinality(S) - 2
    <3>1. IsFiniteSet((S \ {x}) \ {y}) /\ Cardinality((S \ {x}) \ {y}) = Cardinality(S \ {x}) - 1
        BY <2>2, <2>3, FS_RemoveElement
    <3> QED BY <1>1, <2>2, <2>3, <3>1
  <2>5. Cardinality(Before(x)) <= Cardinality(S) - 2
    <3>1. Cardinality(Before(x)) <= Cardinality(S \ {x, y})
        BY <2>1, <2>4, FS_Subset
    <3> QED BY <2>4, <3>1
  <2> QED BY <1>1, <1>3, <2>5
<1> QED
  <2>1. \E z \in S : \A y \in S : z >= y
      BY <1>4
  <2>2. Max(S) \in S /\ \A y \in S : Max(S) >= y
      BY <2>1 DEF Max
  <2> QED BY <2>2

----------------------------------------------------------------------------
(* Editing the catalog *)

\* A row of seasons, a row of episodes, and a request.
SeasonRows == [id : SeasonIds, show : Shows, ord : Nat, count : Nat]
EpisodeRows == [season : SeasonIds, number : Nat, show : Shows]
Readings == {S \in SUBSET (SeasonIds \cup EpisodeRows) : IsFiniteSet(S)}
Editing == [pc : {"idle", "number", "insertSeason", "insertEpisode", "recount", "patch"},
            show : Shows, season : SeasonIds \cup {<<>>}, number : Nat, episode : BOOLEAN,
            made : BOOLEAN, todo : Seq(Objects), seen : Readings]

\* Keys are unique and nothing is an orphan.
CatalogTypes ==
  /\ DOMAIN shows \subseteq Shows /\ shows \in [DOMAIN shows -> Nat]
  /\ seasons \subseteq SeasonRows /\ IsFiniteSet(seasons)
  /\ \A x \in seasons : x.show \in DOMAIN shows
  /\ \A x, y \in seasons : x.id = y.id => x = y
  /\ episodes \subseteq EpisodeRows /\ IsFiniteSet(episodes)
  /\ \A x \in episodes : Exists(x.season) /\ x.show \in DOMAIN shows

\* What a request has in hand.
Prepared(q) ==
  /\ q.pc \in {"insertSeason", "insertEpisode"} => q.season \in SeasonIds
  /\ q.pc = "insertEpisode" => q.todo = <<q.season, q.show>>
  /\ q.todo # <<>> <=> q.pc \in {"insertEpisode", "recount", "patch"}

EditTypes ==
  /\ admin \in [Admins -> Editing] /\ \A a \in Admins : Prepared(admin[a])
  /\ doubt \subseteq Objects
  /\ edits \in 0..MaxEdits /\ lost \in 0..MaxLost

\* A request that is bound to count an object, or to put it in doubt: it still has
\* to recount it, or it has made a season and goes on to the episode.
Obliged(q, o) ==
  \/ q.pc \in {"recount", "patch"} /\ \E i \in DOMAIN q.todo : q.todo[i] = o
  \/ q.pc = "insertEpisode" /\ q.made /\ o = q.show
Covered(o) == o \in doubt \/ \E a \in Admins : Obliged(admin[a], o)

\* A count is right unless it is covered.
ShowsCounted == \A s \in DOMAIN shows : shows[s] = Cardinality(SeasonsOf(s)) \/ Covered(s)
SeasonsCounted == \A x \in seasons : x.count = Cardinality(EpisodesOf(x.id)) \/ Covered(x.id)

\* The inductive invariant of the catalog.
OnDemandInv == CatalogTypes /\ EditTypes /\ ShowsCounted /\ SeasonsCounted

\* The next season and the next episode have numbers.
LEMMA NextNumbers ==
  ASSUME CatalogTypes
  PROVE  \A o : NextOrd(o) \in Nat \ {0} /\ NextNumber(o) \in Nat \ {0}
<1> SUFFICES ASSUME NEW o PROVE NextOrd(o) \in Nat \ {0} /\ NextNumber(o) \in Nat \ {0}
    OBVIOUS
<1>1. ASSUME NEW S \in SUBSET Nat, IsFiniteSet(S) PROVE Max({0} \cup S) \in Nat
  <2>1. IsFiniteSet({0} \cup S)
      BY <1>1, FS_Singleton, FS_Union
  <2>2. {0} \cup S \in SUBSET Nat /\ {0} \cup S # {}
      OBVIOUS
  <2> QED BY <2>1, <2>2, GreatestOf
<1>2. Max({0} \cup {x.ord : x \in SeasonsOf(o)}) \in Nat
  <2> DEFINE S == {x.ord : x \in SeasonsOf(o)}
             f == [x \in SeasonsOf(o) |-> x.ord]
  <2>1. IsFiniteSet(SeasonsOf(o))
      BY FS_Subset DEF CatalogTypes, SeasonsOf
  <2>2. f \in Surjection(SeasonsOf(o), S)
      BY DEF Surjection
  <2>3. S \in SUBSET Nat
      BY DEF CatalogTypes, SeasonRows, SeasonsOf
  <2> HIDE DEF S, f
  <2>4. IsFiniteSet(S)
      BY <2>1, <2>2, FS_Surjection
  <2> QED BY <1>1, <2>3, <2>4 DEF S
<1>3. Max({0} \cup {x.number : x \in EpisodesOf(o)}) \in Nat
  <2> DEFINE S == {x.number : x \in EpisodesOf(o)}
             f == [x \in EpisodesOf(o) |-> x.number]
  <2>1. IsFiniteSet(EpisodesOf(o))
      BY FS_Subset DEF CatalogTypes, EpisodesOf
  <2>2. f \in Surjection(EpisodesOf(o), S)
      BY DEF Surjection
  <2>3. S \in SUBSET Nat
      BY DEF CatalogTypes, EpisodeRows, EpisodesOf
  <2> HIDE DEF S, f
  <2>4. IsFiniteSet(S)
      BY <2>1, <2>2, FS_Surjection
  <2> QED BY <1>1, <2>3, <2>4 DEF S
<1> QED BY <1>2, <1>3 DEF NextOrd, NextNumber

\* What can be counted is finite, and a show has as many ids of seasons as seasons.
LEMMA CountsAreNumbers ==
  ASSUME CatalogTypes
  PROVE  /\ \A o : IsFiniteSet(SeasonsOf(o)) /\ Cardinality(SeasonsOf(o)) \in Nat
         /\ \A o : IsFiniteSet(EpisodesOf(o)) /\ Cardinality(EpisodesOf(o)) \in Nat
         /\ \A o : RowsOf(o) \in Readings
         /\ \A o : Truth(o) = IF o \in Shows THEN Cardinality(SeasonsOf(o))
                                             ELSE Cardinality(EpisodesOf(o))
<1>1. \A o : SeasonsOf(o) \in SUBSET seasons /\ EpisodesOf(o) \in SUBSET episodes
    BY DEF SeasonsOf, EpisodesOf
<1>2. IsFiniteSet(seasons) /\ IsFiniteSet(episodes)
    BY DEF CatalogTypes
<1>3. /\ \A o : IsFiniteSet(SeasonsOf(o)) /\ Cardinality(SeasonsOf(o)) \in Nat
      /\ \A o : IsFiniteSet(EpisodesOf(o)) /\ Cardinality(EpisodesOf(o)) \in Nat
    BY <1>1, <1>2, FS_Subset, FS_CardinalityType
<1>4. ASSUME NEW o
      PROVE  /\ IsFiniteSet({x.id : x \in SeasonsOf(o)})
             /\ Cardinality({x.id : x \in SeasonsOf(o)}) = Cardinality(SeasonsOf(o))
  <2> DEFINE S == SeasonsOf(o)
             T == {x.id : x \in S}
             f == [x \in S |-> x.id]
  <2>1. f \in [S -> T] /\ \A y \in T : \E x \in S : f[x] = y
      OBVIOUS
  <2>2. IsInjective(f)
    <3>1. \A x, y \in S : x.id = y.id => x = y
        BY <1>1 DEF CatalogTypes
    <3> QED BY <3>1 DEF IsInjective
  <2> HIDE DEF f, S, T
  <2>3. f \in Bijection(S, T)
      BY <2>1, <2>2 DEF Bijection, Injection, Surjection
  <2>4. IsFiniteSet(S)
      BY <1>3 DEF S
  <2>5. IsFiniteSet(T) /\ Cardinality(T) = Cardinality(S)
      BY <2>3, <2>4, FS_Bijection DEF ExistsBijection
  <2> QED BY <2>5 DEF S, T
<1>5. ASSUME NEW o PROVE RowsOf(o) \in Readings
  <2>1. {x.id : x \in SeasonsOf(o)} \in SUBSET SeasonIds
      BY <1>1 DEF CatalogTypes, SeasonRows
  <2>2. EpisodesOf(o) \in SUBSET EpisodeRows
      BY <1>1 DEF CatalogTypes
  <2>3. RowsOf(o) \in SUBSET (SeasonIds \cup EpisodeRows)
      BY <2>1, <2>2 DEF RowsOf
  <2>4. IsFiniteSet(RowsOf(o))
      BY <1>3, <1>4 DEF RowsOf
  <2> QED BY <2>3, <2>4 DEF Readings
<1>6. \A o : Truth(o) = IF o \in Shows THEN Cardinality(SeasonsOf(o)) ELSE Cardinality(EpisodesOf(o))
    BY <1>4 DEF Truth, RowsOf
<1> QED BY <1>3, <1>5, <1>6

\* A season is found by its id.
LEMMA SeasonFound ==
  ASSUME CatalogTypes, NEW id, Exists(id)
  PROVE  Season(id) \in seasons /\ Season(id).id = id /\ \A x \in seasons : x.id = id <=> x = Season(id)
<1>1. Season(id) \in seasons /\ Season(id).id = id
    BY DEF Season, Exists
<1> QED BY <1>1 DEF CatalogTypes

\* What the count of a season or show says after n was written for o.
LEMMA Relabelled ==
  ASSUME CatalogTypes, NEW o, NEW n \in Nat,
         seasons' = {IF x.id = o THEN [x EXCEPT !.count = n] ELSE x : x \in seasons}
  PROVE  /\ seasons' \subseteq SeasonRows /\ IsFiniteSet(seasons')
         /\ \A x, y \in seasons' : x.id = y.id => x = y
         /\ \A y \in seasons' : \E x \in seasons :
              y.id = x.id /\ y.show = x.show /\ y.count = IF x.id = o THEN n ELSE x.count
         /\ \A id : Exists(id) => Exists(id)'
         /\ \A s : Cardinality(SeasonsOf(s))' = Cardinality(SeasonsOf(s))
<1> DEFINE New(x) == IF x.id = o THEN [x EXCEPT !.count = n] ELSE x
<1>0. seasons \subseteq SeasonRows /\ IsFiniteSet(seasons) /\ \A x, y \in seasons : x.id = y.id => x = y
    BY DEF CatalogTypes
<1>1. \A x \in seasons : /\ New(x) \in SeasonRows /\ New(x).id = x.id /\ New(x).show = x.show
                         /\ New(x).count = IF x.id = o THEN n ELSE x.count
    BY <1>0 DEF SeasonRows
<1> HIDE DEF New
<1>2. seasons' = {New(x) : x \in seasons}
    BY DEF New
<1>3. \A x, y \in seasons' : x.id = y.id => x = y
    BY <1>0, <1>1, <1>2
<1>4. ASSUME NEW s PROVE /\ Cardinality({y \in seasons' : y.show = s}) = Cardinality(SeasonsOf(s))
                         /\ IsFiniteSet({y \in seasons' : y.show = s})
  <2> DEFINE S == SeasonsOf(s)
             T == {y \in seasons' : y.show = s}
             f == [x \in S |-> New(x)]
  <2>1. f \in [S -> T]
      BY <1>1, <1>2 DEF SeasonsOf
  <2>2. IsInjective(f)
    <3>1. \A x, y \in seasons : New(x) = New(y) => x = y
        BY <1>0, <1>1
    <3>2. S \subseteq seasons
        BY DEF SeasonsOf
    <3> HIDE DEF S
    <3> QED BY <3>1, <3>2 DEF IsInjective
  <2>3. \A y \in T : \E x \in S : f[x] = y
    <3> SUFFICES ASSUME NEW y \in T PROVE \E x \in S : New(x) = y
        OBVIOUS
    <3>1. PICK x \in seasons : y = New(x)
        BY <1>2
    <3>2. x \in S
        BY <1>1, <3>1 DEF SeasonsOf
    <3> QED BY <3>1, <3>2
  <2> HIDE DEF f, T, S
  <2>4. f \in Bijection(S, T)
      BY <2>1, <2>2, <2>3 DEF Bijection, Injection, Surjection
  <2>5. IsFiniteSet(S)
      BY CountsAreNumbers DEF S
  <2> QED BY <2>4, <2>5, FS_Bijection DEF S, T, ExistsBijection
<1>5. IsFiniteSet(seasons')
  <2> DEFINE f == [x \in seasons |-> New(x)]
  <2>1. f \in Surjection(seasons, seasons')
      BY <1>2 DEF Surjection
  <2> HIDE DEF f
  <2> QED BY <1>0, <2>1, FS_Surjection
<1>6. \A id : Exists(id) => Exists(id)'
    BY <1>1, <1>2 DEF Exists
<1>7. \A s : Cardinality(SeasonsOf(s))' = Cardinality(SeasonsOf(s))
    BY <1>4 DEF SeasonsOf
<1>8. seasons' \subseteq SeasonRows
      /\ \A y \in seasons' : \E x \in seasons :
              y.id = x.id /\ y.show = x.show /\ y.count = IF x.id = o THEN n ELSE x.count
    BY <1>1, <1>2
<1> QED BY <1>3, <1>5, <1>6, <1>7, <1>8

\* An empty catalog without requests has OnDemandInv.
LEMMA OnDemandInitInv == OnDemandInit => OnDemandInv
<1> SUFFICES ASSUME OnDemandInit PROVE OnDemandInv
    OBVIOUS
<1>1. CatalogTypes
  <2>1. IsFiniteSet(seasons) /\ IsFiniteSet(episodes)
      BY FS_EmptySet DEF OnDemandInit
  <2> QED BY <2>1 DEF CatalogTypes, OnDemandInit
<1>2. EditTypes
  <2>1. PICK h \in Shows : h = CHOOSE s \in Shows : TRUE
      BY OnDemandAssumption
  <2>2. {} \in Readings
      BY FS_EmptySet DEF Readings
  <2>3. Nobody \in Editing /\ Prepared(Nobody)
      BY <2>1, <2>2 DEF Nobody, Editing, Prepared
  <2> HIDE DEF Nobody, Editing, Prepared
  <2> QED BY <2>3, OnDemandAssumption DEF EditTypes, OnDemandInit
<1>3. ShowsCounted /\ SeasonsCounted
    BY DEF ShowsCounted, SeasonsCounted, OnDemandInit
<1> QED BY <1>1, <1>2, <1>3 DEF OnDemandInv

\* A request that is over has nothing to count.
LEMMA NobodyIsIdle ==
  /\ Nobody \in Editing /\ Prepared(Nobody) /\ Nobody.pc = "idle" /\ Nobody.todo = <<>>
  /\ Nobody.season = <<>> /\ Nobody.made = FALSE /\ \A o : ~Obliged(Nobody, o)
<1>1. PICK h \in Shows : h = CHOOSE s \in Shows : TRUE
    BY OnDemandAssumption
<1>2. Nobody.made = FALSE
    BY DEF Nobody
<1>3. {} \in Readings
    BY FS_EmptySet DEF Readings
<1> QED BY <1>1, <1>2, <1>3 DEF Nobody, Editing, Prepared, Obliged

\* When one request moves, the types stay and only what it gives up is uncovered.
LEMMA Edited ==
  ASSUME OnDemandInv, NEW a \in Admins, NEW q \in Editing, Prepared(q),
         admin' = [admin EXCEPT ![a] = q],
         doubt' \subseteq Objects, edits' \in 0..MaxEdits, lost' \in 0..MaxLost
  PROVE  /\ EditTypes'
         /\ \A o : Covered(o) => o \in doubt \/ Obliged(admin[a], o) \/ Covered(o)'
         /\ \A o : Obliged(q, o) => Covered(o)'
         /\ \A o \in doubt' : Covered(o)'
<1>1. admin \in [Admins -> Editing] /\ \A b \in Admins : Prepared(admin[b])
    BY DEF OnDemandInv, EditTypes
<1>2. admin'[a] = q /\ \A b \in Admins : b # a => admin'[b] = admin[b]
    BY <1>1
<1>3. admin' \in [Admins -> Editing] /\ \A b \in Admins : Prepared(admin'[b])
  <2>1. \A b \in Admins : admin'[b] = q \/ admin'[b] = admin[b]
      BY <1>2
  <2> QED BY <1>1, <2>1
<1>4. EditTypes'
    BY <1>3 DEF EditTypes
<1>5. \A o : Covered(o)' <=> (o \in doubt' \/ \E b \in Admins : Obliged(admin'[b], o))
    BY DEF Covered, Obliged
<1>6. \A o : Covered(o) <=> (o \in doubt \/ \E b \in Admins : Obliged(admin[b], o))
    BY DEF Covered
<1> QED BY <1>2, <1>4, <1>5, <1>6

\* A request that leaves the rows alone keeps OnDemandInv if it gives nothing up.
LEMMA Handled ==
  ASSUME OnDemandInv, NEW a \in Admins, NEW q \in Editing, Prepared(q),
         admin' = [admin EXCEPT ![a] = q], UNCHANGED rows,
         doubt \subseteq doubt', doubt' \subseteq Objects,
         edits' \in 0..MaxEdits, lost' \in 0..MaxLost,
         \A o : Obliged(admin[a], o) => Obliged(q, o) \/ o \in doubt'
  PROVE  OnDemandInv'
<1>1. EditTypes' /\ \A o : Covered(o) => Covered(o)'
    BY Edited
<1>2. shows' = shows /\ seasons' = seasons /\ episodes' = episodes
    BY DEF rows
<1>3. CatalogTypes'
    BY <1>2 DEF OnDemandInv, CatalogTypes, Exists
<1>4. /\ \A s : SeasonsOf(s)' = SeasonsOf(s)
      /\ \A s : EpisodesOf(s)' = EpisodesOf(s)
    BY <1>2 DEF SeasonsOf, EpisodesOf
<1>5. ShowsCounted'
    BY <1>1, <1>2, <1>4 DEF OnDemandInv, ShowsCounted
<1>6. SeasonsCounted'
    BY <1>1, <1>2, <1>4 DEF OnDemandInv, SeasonsCounted
<1> QED BY <1>1, <1>3, <1>5, <1>6 DEF OnDemandInv

\* Requests that only move on, or fail.
LEMMA AskSteps ==
  ASSUME OnDemandInv, NEW a \in Admins,
         \/ \E sh \in Shows : AskSeason(a, sh)
         \/ \E sh \in Shows, id \in SeasonIds \cup {<<>>} : AskEpisode(a, sh, id) \/ AskEpisodeBlind(a, sh, id)
  PROVE  OnDemandInv'
<1> USE OnDemandAssumption
<1>1. admin \in [Admins -> Editing] /\ doubt \subseteq Objects /\ edits \in 0..MaxEdits /\ lost \in 0..MaxLost
    BY DEF OnDemandInv, EditTypes
<1>2. ASSUME NEW sh \in Shows, NEW id \in SeasonIds \cup {<<>>}, NEW e \in BOOLEAN, Begin(a),
             Work(a, "number", sh, id, e), UNCHANGED <<rows, doubt>>, lost' \in 0..MaxLost
      PROVE  OnDemandInv'
  <2>1. PICK q : q = [Nobody EXCEPT !.pc = "number", !.show = sh, !.season = id, !.episode = e]
      OBVIOUS
  <2>2. admin' = [admin EXCEPT ![a] = q]
      BY <1>2, <2>1 DEF Work
  <2>3. q \in Editing /\ Prepared(q) /\ q.pc = "number"
      BY <2>1, NobodyIsIdle DEF Editing, Prepared
  <2>4. \A o : Obliged(admin[a], o) => FALSE
      BY <1>2 DEF Begin, In, Obliged
  <2>5. edits' \in 0..MaxEdits
      BY <1>1, <1>2 DEF Begin
  <2>6. doubt' = doubt /\ UNCHANGED rows
      BY <1>2
  <2> QED BY <1>1, <1>2, <2>2, <2>3, <2>4, <2>5, <2>6, Handled
<1>3. CASE \E sh \in Shows : AskSeason(a, sh)
  <2>1. PICK sh \in Shows : AskSeason(a, sh)
      BY <1>3
  <2>2. Begin(a) /\ Work(a, "number", sh, <<>>, FALSE) /\ UNCHANGED <<rows, doubt>> /\ lost' = lost
      BY <2>1 DEF AskSeason
  <2> QED BY <1>1, <1>2, <2>2
<1>4. CASE \E sh \in Shows, id \in SeasonIds \cup {<<>>} : AskEpisodeBlind(a, sh, id)
  <2>1. PICK sh \in Shows, id \in SeasonIds \cup {<<>>} : AskEpisodeBlind(a, sh, id)
      BY <1>4
  <2>2. Begin(a) /\ Work(a, "number", sh, id, TRUE) /\ UNCHANGED <<rows, doubt>> /\ Lose
      BY <2>1 DEF AskEpisodeBlind
  <2>3. lost' \in 0..MaxLost
      BY <1>1, <2>2 DEF Lose
  <2> QED BY <1>2, <2>2, <2>3
<1>5. CASE \E sh \in Shows, id \in SeasonIds \cup {<<>>} : AskEpisode(a, sh, id)
  <2>1. PICK sh \in Shows, id \in SeasonIds \cup {<<>>} : AskEpisode(a, sh, id)
      BY <1>5
  <2>2. Begin(a) /\ UNCHANGED <<rows, doubt>> /\ lost' = lost
      BY <2>1 DEF AskEpisode
  <2>3. CASE Exists(id)
    <3>1. PICK k \in Nat : k = NextNumber(id)
        BY NextNumbers DEF OnDemandInv
    <3>2. PICK q : q = [Nobody EXCEPT !.pc = "insertEpisode", !.show = sh, !.season = id, !.episode = TRUE,
                           !.number = k, !.todo = <<id, sh>>]
        OBVIOUS
    <3>3. admin' = [admin EXCEPT ![a] = q]
        BY <2>1, <2>3, <3>1, <3>2 DEF AskEpisode
    <3>4. id \in SeasonIds
        BY <2>3 DEF Exists, OnDemandInv, CatalogTypes, SeasonRows
    <3>5. PICK t : t = <<id, sh>> /\ t \in Seq(Objects) /\ t # <<>>
      <4>1. id \in Objects /\ sh \in Objects
          BY <3>4 DEF Objects
      <4>2. <<id, sh>> \in Seq(Objects) /\ <<id, sh>> # <<>>
          BY <4>1
      <4> QED BY <4>2
    <3>6. q.pc = "insertEpisode" /\ q.season = id /\ q.show = sh /\ q.todo = t /\ q \in Editing
        BY <3>2, <3>4, <3>5, NobodyIsIdle DEF Editing
    <3>7. Prepared(q)
        BY <3>4, <3>5, <3>6 DEF Prepared
    <3>8. \A o : Obliged(admin[a], o) => FALSE
        BY <2>2 DEF Begin, In, Obliged
    <3>9. edits' \in 0..MaxEdits
        BY <1>1, <2>2 DEF Begin
    <3>10. doubt' = doubt /\ UNCHANGED rows /\ lost' \in 0..MaxLost
        BY <1>1, <2>2
    <3> QED BY <1>1, <3>3, <3>6, <3>7, <3>8, <3>9, <3>10, Handled
  <2>4. CASE ~Exists(id)
    <3>1. Work(a, "number", sh, id, TRUE)
        BY <2>1, <2>4 DEF AskEpisode
    <3> QED BY <1>1, <1>2, <2>2, <3>1
  <2> QED BY <2>3, <2>4
<1> QED BY <1>3, <1>4, <1>5

\* The number and the id of a new season.
LEMMA NumberSteps ==
  ASSUME OnDemandInv, NEW a \in Admins,
         \/ \E number \in 1..MaxNumber, slug \in Slugs : NumberSeason(a, number, slug)
         \/ NumberSeasonBlind(a)
  PROVE  OnDemandInv'
<1> USE OnDemandAssumption
<1>1. admin \in [Admins -> Editing] /\ doubt \subseteq Objects /\ edits \in 0..MaxEdits /\ lost \in 0..MaxLost
      /\ Prepared(admin[a])
    BY DEF OnDemandInv, EditTypes
<1>2. ASSUME In(a, "number"), NEW id \in SeasonIds, NEW k \in Nat, Place(a, id, k),
             UNCHANGED <<rows, doubt, edits>>, lost' \in 0..MaxLost
      PROVE  OnDemandInv'
  <2>1. PICK q : q = [admin[a] EXCEPT !.pc = "insertSeason", !.season = id, !.number = k]
      OBVIOUS
  <2>2. admin' = [admin EXCEPT ![a] = q]
      BY <1>1, <1>2, <2>1 DEF Place
  <2>3. q \in Editing /\ q.pc = "insertSeason" /\ q.season = id /\ q.todo = admin[a].todo
      BY <1>1, <2>1 DEF Editing
  <2>4. Prepared(q)
      BY <1>1, <1>2, <2>3 DEF Prepared, In
  <2>5. \A o : Obliged(admin[a], o) => FALSE
      BY <1>2 DEF In, Obliged
  <2>6. edits' \in 0..MaxEdits /\ doubt' = doubt /\ UNCHANGED rows
      BY <1>1, <1>2
  <2> QED BY <1>1, <1>2, <2>2, <2>3, <2>4, <2>5, <2>6, Handled
<1>3. admin[a].show \in Shows /\ admin[a].season \in SeasonIds \cup {<<>>}
    BY <1>1 DEF Editing
<1>4. \A k \in 1..MaxNumber : /\ <<Slug[admin[a].show], k>> \in SeasonIds
                              /\ <<NoTitle, k>> \in SeasonIds /\ <<admin[a].show, k>> \in SeasonIds
    BY <1>3 DEF SeasonIds, Slugs
<1>5. CASE \E number \in 1..MaxNumber, slug \in Slugs : NumberSeason(a, number, slug)
  <2>1. PICK number \in 1..MaxNumber, slug \in Slugs : NumberSeason(a, number, slug)
      BY <1>5
  <2>2. PICK id : id = IF admin[a].season = <<>> THEN <<slug, number>> ELSE admin[a].season
      OBVIOUS
  <2>3. In(a, "number") /\ slug = Slug[admin[a].show] /\ Place(a, id, number)
        /\ UNCHANGED <<rows, doubt, edits>> /\ lost' = lost
      BY <2>1, <2>2 DEF NumberSeason
  <2>4. id \in SeasonIds
      BY <1>3, <1>4, <2>2, <2>3
  <2> QED BY <1>1, <1>2, <2>3, <2>4
<1>6. CASE NumberSeasonBlind(a)
  <2>1. In(a, "number") /\ Lose /\ UNCHANGED <<rows, doubt, edits>>
      BY <1>6 DEF NumberSeasonBlind
  <2>2. lost' \in 0..MaxLost
      BY <1>1, <2>1 DEF Lose
  <2>3. CASE Place(a, IF admin[a].season = <<>> THEN <<Slug[admin[a].show], 1>>
                                           ELSE admin[a].season, 1)
    <3>1. PICK id : id = IF admin[a].season = <<>> THEN <<Slug[admin[a].show], 1>> ELSE admin[a].season
        OBVIOUS
    <3>2. id \in SeasonIds
      <4>1. 1 \in 1..MaxNumber
          OBVIOUS
      <4>2. <<Slug[admin[a].show], 1>> \in SeasonIds
          BY <1>4, <4>1
      <4> QED BY <1>3, <3>1, <4>2
    <3>3. Place(a, id, 1)
        BY <2>3, <3>1
    <3> QED BY <1>2, <2>1, <2>2, <3>2, <3>3
  <2>4. CASE /\ NextOrd(admin[a].show) <= MaxNumber
             /\ Place(a, <<IF admin[a].episode THEN admin[a].show ELSE NoTitle,
                      NextOrd(admin[a].show)>>, NextOrd(admin[a].show))
    <3>1. PICK k : k = NextOrd(admin[a].show)
        OBVIOUS
    <3>2. k \in 1..MaxNumber
        BY <2>4, <3>1, NextNumbers DEF OnDemandInv
    <3>3. PICK id : id = <<IF admin[a].episode THEN admin[a].show ELSE NoTitle, k>>
        OBVIOUS
    <3>4. id \in SeasonIds
        BY <1>4, <3>2, <3>3
    <3>5. Place(a, id, k)
        BY <2>4, <3>1, <3>3
    <3> QED BY <1>2, <2>1, <2>2, <3>2, <3>4, <3>5
  <2> QED BY <1>6, <2>3, <2>4 DEF NumberSeasonBlind
<1> QED BY <1>5, <1>6

\* A request that has dealt with the head of its list still has to do with the rest.
LEMMA OneCountDone ==
  ASSUME NEW p \in Editing, Prepared(p), p.pc \in {"recount", "patch"}, NEW r,
         \/ Len(p.todo) = 1 /\ r = Nobody
         \/ Len(p.todo) # 1 /\ r = [p EXCEPT !.pc = "recount", !.todo = Tail(p.todo)]
  PROVE  /\ Head(p.todo) \in Objects /\ r \in Editing /\ Prepared(r)
         /\ \A o : Obliged(p, o) => o = Head(p.todo) \/ Obliged(r, o)
<1>1. p.todo \in Seq(Objects) /\ p.todo # <<>>
    BY DEF Editing, Prepared
<1>2. PICK t : t = p.todo
    OBVIOUS
<1>3. t \in Seq(Objects) /\ Len(t) \in Nat \ {0} /\ Head(t) \in Objects /\ Head(t) = t[1]
    BY <1>1, <1>2
<1>4. \A i \in DOMAIN t : i = 1 \/ (i - 1 \in DOMAIN Tail(t) /\ Tail(t)[i - 1] = t[i])
    BY <1>3
<1>5. CASE Len(t) = 1
  <2>1. r = Nobody
      BY <1>2, <1>5
  <2>2. \A i \in DOMAIN t : i = 1
      BY <1>3, <1>5
  <2>3. \A o : Obliged(p, o) => o = Head(t)
      BY <1>2, <1>3, <2>2 DEF Obliged
  <2> QED BY <1>2, <1>3, <2>1, <2>3, NobodyIsIdle
<1>6. CASE Len(t) # 1
  <2>1. r = [p EXCEPT !.pc = "recount", !.todo = Tail(t)]
      BY <1>2, <1>6
  <2>2. Tail(t) \in Seq(Objects) /\ Tail(t) # <<>>
    <3>1. t # <<>>
        BY <1>1, <1>2
    <3>2. Tail(t) \in Seq(Objects) /\ Len(Tail(t)) = Len(t) - 1
        BY <1>3, <3>1
    <3>3. Len(Tail(t)) # 0 /\ Len(<<>>) = 0
        BY <1>3, <1>6, <3>2
    <3> QED BY <3>2, <3>3
  <2>3. r \in Editing /\ r.pc = "recount" /\ r.todo = Tail(t)
      BY <2>1, <2>2 DEF Editing
  <2>4. Prepared(r)
      BY <2>2, <2>3 DEF Prepared
  <2>5. \A o : Obliged(p, o) => o = Head(t) \/ Obliged(r, o)
    <3> SUFFICES ASSUME NEW o, Obliged(p, o), o # Head(t) PROVE Obliged(r, o)
        OBVIOUS
    <3>1. PICK i \in DOMAIN t : t[i] = o
        BY <1>2 DEF Obliged
    <3>2. i - 1 \in DOMAIN Tail(t) /\ Tail(t)[i - 1] = o
        BY <1>3, <1>4, <3>1
    <3> QED BY <2>3, <3>2 DEF Obliged
  <2> QED BY <1>2, <1>3, <2>3, <2>4, <2>5
<1> QED BY <1>5, <1>6

\* What Next1 leaves of a request.
LEMMA NextOne ==
  ASSUME NEW a, Next1(a), NEW q,
         \/ Len(admin[a].todo) = 1 /\ q = Nobody
         \/ Len(admin[a].todo) # 1 /\ q = [admin[a] EXCEPT !.pc = "recount", !.todo = Tail(admin[a].todo)]
  PROVE  admin' = [admin EXCEPT ![a] = q]
<1>1. CASE Len(admin[a].todo) = 1
    BY <1>1 DEF Next1
<1>2. CASE Len(admin[a].todo) # 1
    BY <1>2 DEF Next1
<1> QED BY <1>1, <1>2

\* Reading a count, or failing at it.
LEMMA ReadSteps ==
  ASSUME OnDemandInv, NEW a \in Admins, ReadCount(a) \/ CountFails(a)
  PROVE  OnDemandInv'
<1> USE OnDemandAssumption
<1>1. admin \in [Admins -> Editing] /\ doubt \subseteq Objects /\ edits \in 0..MaxEdits /\ lost \in 0..MaxLost
      /\ Prepared(admin[a]) /\ admin[a] \in Editing
    BY DEF OnDemandInv, EditTypes
<1>2. CASE ReadCount(a)
  <2>1. PICK k \in Readings : k = RowsOf(Head(admin[a].todo))
      BY CountsAreNumbers DEF OnDemandInv
  <2>2. PICK q : q = [admin[a] EXCEPT !.pc = "patch", !.seen = k]
      OBVIOUS
  <2>3. admin' = [admin EXCEPT ![a] = q] /\ UNCHANGED rows /\ doubt' = doubt /\ edits' = edits /\ lost' = lost
        /\ admin[a].pc = "recount"
      BY <1>1, <1>2, <2>1, <2>2 DEF ReadCount, In
  <2>4. q \in Editing /\ q.pc = "patch" /\ q.todo = admin[a].todo
      BY <1>1, <2>2 DEF Editing
  <2>5. Prepared(q)
      BY <1>1, <2>3, <2>4 DEF Prepared
  <2>6. \A o : Obliged(admin[a], o) => Obliged(q, o)
      BY <2>3, <2>4 DEF Obliged
  <2> QED BY <1>1, <2>3, <2>4, <2>5, <2>6, Handled
<1>3. CASE CountFails(a)
  <2>1. PICK q : \/ Len(admin[a].todo) = 1 /\ q = Nobody
                 \/ /\ Len(admin[a].todo) # 1
                    /\ q = [admin[a] EXCEPT !.pc = "recount", !.todo = Tail(admin[a].todo)]
      OBVIOUS
  <2>2. admin' = [admin EXCEPT ![a] = q] /\ UNCHANGED rows /\ doubt' = doubt \cup {Head(admin[a].todo)}
        /\ edits' = edits /\ admin[a].pc \in {"recount", "patch"}
    <3>1. Next1(a) => admin' = [admin EXCEPT ![a] = q]
        BY <2>1, NextOne
    <3>2. admin[a].pc \in {"recount", "patch"}
        BY <1>3 DEF CountFails, In
    <3> QED BY <1>3, <3>1, <3>2 DEF CountFails
  <2>3. lost' \in 0..MaxLost
      BY <1>1, <1>3 DEF CountFails, Lose
  <2>4. /\ Head(admin[a].todo) \in Objects /\ q \in Editing /\ Prepared(q)
        /\ \A o : Obliged(admin[a], o) => o = Head(admin[a].todo) \/ Obliged(q, o)
      BY <1>1, <2>1, <2>2, OneCountDone
  <2>5. doubt \subseteq doubt' /\ doubt' \subseteq Objects /\ Head(admin[a].todo) \in doubt'
      BY <1>1, <2>2, <2>4
  <2>6. \A o : Obliged(admin[a], o) => Obliged(q, o) \/ o \in doubt'
      BY <2>4, <2>5
  <2>7. edits' \in 0..MaxEdits /\ UNCHANGED rows
      BY <1>1, <2>2
  <2> QED BY <2>2, <2>3, <2>4, <2>5, <2>6, <2>7, Handled
<1> QED BY <1>2, <1>3

\* Writing a count: it is right, or it is in doubt.
LEMMA PatchStep ==
  ASSUME OnDemandInv, NEW a \in Admins, PatchCount(a)
  PROVE  OnDemandInv'
<1>1. admin \in [Admins -> Editing] /\ doubt \subseteq Objects /\ edits \in 0..MaxEdits /\ lost \in 0..MaxLost
      /\ Prepared(admin[a]) /\ admin[a] \in Editing /\ CatalogTypes
    BY DEF OnDemandInv, EditTypes
<1>2. PICK q : \/ Len(admin[a].todo) = 1 /\ q = Nobody
               \/ /\ Len(admin[a].todo) # 1
                  /\ q = [admin[a] EXCEPT !.pc = "recount", !.todo = Tail(admin[a].todo)]
    OBVIOUS
<1>3. PICK o : o = Head(admin[a].todo)
    OBVIOUS
<1>4. PICK n \in Nat : n = Cardinality(admin[a].seen)
    BY <1>1, FS_CardinalityType DEF Editing, Readings
<1>5. /\ admin' = [admin EXCEPT ![a] = q] /\ episodes' = episodes /\ edits' = edits /\ lost' = lost
      /\ admin[a].pc \in {"recount", "patch"}
  <2>1. Next1(a) => admin' = [admin EXCEPT ![a] = q]
      BY <1>2, NextOne
  <2>2. admin[a].pc \in {"recount", "patch"}
      BY DEF PatchCount, In
  <2> QED BY <2>1, <2>2 DEF PatchCount
<1>6. /\ shows' = IF o \in DOMAIN shows THEN [shows EXCEPT ![o] = n] ELSE shows
      /\ seasons' = {IF x.id = o THEN [x EXCEPT !.count = n] ELSE x : x \in seasons}
      /\ doubt' = IF admin[a].seen = RowsOf(o) THEN doubt \ {o} ELSE doubt \cup {o}
    BY <1>3, <1>4 DEF PatchCount
<1>7. /\ o \in Objects /\ q \in Editing /\ Prepared(q)
      /\ \A p : Obliged(admin[a], p) => p = o \/ Obliged(q, p)
    BY <1>1, <1>2, <1>3, <1>5, OneCountDone
<1>8. doubt' \subseteq Objects /\ \A p \in doubt : p = o \/ p \in doubt'
    BY <1>1, <1>6, <1>7
<1>9. /\ EditTypes'
      /\ \A p : Covered(p) => p \in doubt \/ Obliged(admin[a], p) \/ Covered(p)'
      /\ \A p : Obliged(q, p) => Covered(p)'
      /\ \A p \in doubt' : Covered(p)'
  <2>1. edits' \in 0..MaxEdits /\ lost' \in 0..MaxLost
      BY <1>1, <1>5
  <2> QED BY <1>5, <1>7, <1>8, <2>1, Edited
<1>10. \A p : Covered(p) => p = o \/ Covered(p)'
    BY <1>7, <1>8, <1>9
<1>11. n = Truth(o) \/ Covered(o)'
    BY <1>4, <1>6, <1>9 DEF Truth
<1>12. DOMAIN shows' = DOMAIN shows /\ shows' \in [DOMAIN shows -> Nat]
       /\ \A s \in DOMAIN shows : shows'[s] = IF s = o THEN n ELSE shows[s]
    BY <1>1, <1>6 DEF CatalogTypes
<1>13. /\ seasons' \subseteq SeasonRows /\ IsFiniteSet(seasons')
       /\ \A x, y \in seasons' : x.id = y.id => x = y
       /\ \A y \in seasons' : \E x \in seasons :
            y.id = x.id /\ y.show = x.show /\ y.count = IF x.id = o THEN n ELSE x.count
       /\ \A id : Exists(id) => Exists(id)'
       /\ \A s : Cardinality(SeasonsOf(s))' = Cardinality(SeasonsOf(s))
    BY <1>1, <1>6, Relabelled
<1>14. CatalogTypes'
  <2>1. DOMAIN shows' \subseteq Shows /\ shows' \in [DOMAIN shows' -> Nat]
      BY <1>1, <1>12 DEF CatalogTypes
  <2>2. \A x \in seasons' : x.show \in DOMAIN shows'
      BY <1>1, <1>12, <1>13 DEF CatalogTypes
  <2>3. \A x \in episodes' : Exists(x.season)' /\ x.show \in DOMAIN shows'
      BY <1>1, <1>5, <1>12, <1>13 DEF CatalogTypes
  <2>4. episodes' \subseteq EpisodeRows /\ IsFiniteSet(episodes')
      BY <1>1, <1>5 DEF CatalogTypes
  <2> QED BY <1>13, <2>1, <2>2, <2>3, <2>4 DEF CatalogTypes
<1>15. ShowsCounted'
  <2> SUFFICES ASSUME NEW s \in DOMAIN shows'
               PROVE  shows'[s] = Cardinality(SeasonsOf(s))' \/ Covered(s)'
      BY DEF ShowsCounted
  <2>1. s \in DOMAIN shows /\ s \in Shows
      BY <1>1, <1>12 DEF CatalogTypes
  <2>2. CASE s = o
    <3>1. Truth(o) = Cardinality(SeasonsOf(s))
        BY <1>1, <2>1, <2>2, CountsAreNumbers
    <3> QED BY <1>11, <1>12, <1>13, <2>1, <2>2, <3>1
  <2>3. CASE s # o
      BY <1>10, <1>12, <1>13, <2>1, <2>3 DEF OnDemandInv, ShowsCounted
  <2> QED BY <2>2, <2>3
<1>16. SeasonsCounted'
  <2> SUFFICES ASSUME NEW y \in seasons'
               PROVE  y.count = Cardinality(EpisodesOf(y.id))' \/ Covered(y.id)'
      BY DEF SeasonsCounted
  <2>1. PICK x \in seasons : y.id = x.id /\ y.show = x.show /\ y.count = IF x.id = o THEN n ELSE x.count
      BY <1>13
  <2>2. EpisodesOf(x.id)' = EpisodesOf(x.id) /\ Cardinality(EpisodesOf(y.id))' = Cardinality(EpisodesOf(x.id))
      BY <1>5, <2>1 DEF EpisodesOf
  <2>3. x.id \in SeasonIds /\ x.id \notin Shows
      BY <1>1, IdAssumption DEF CatalogTypes, SeasonRows
  <2>4. CASE x.id = o
    <3>1. Truth(o) = Cardinality(EpisodesOf(x.id))
        BY <1>1, <2>3, <2>4, CountsAreNumbers
    <3> QED BY <1>11, <2>1, <2>2, <2>4, <3>1
  <2>5. CASE x.id # o
      BY <1>10, <2>1, <2>2, <2>5 DEF OnDemandInv, SeasonsCounted
  <2> QED BY <2>4, <2>5
<1> QED BY <1>9, <1>14, <1>15, <1>16 DEF OnDemandInv

\* Steps of no request in hand.
LEMMA Standing ==
  ASSUME OnDemandInv, NEW a \in Admins, admin' = admin, Begin(a), lost' = lost \/ Lose,
         doubt' \subseteq Objects
  PROVE  /\ EditTypes'
         /\ \A o : Covered(o) => o \in doubt \/ Covered(o)'
         /\ \A o \in doubt' : Covered(o)'
<1>1. admin \in [Admins -> Editing] /\ edits \in 0..MaxEdits /\ lost \in 0..MaxLost
      /\ Prepared(admin[a])
    BY DEF OnDemandInv, EditTypes
<1>2. admin' = [admin EXCEPT ![a] = admin[a]] /\ admin[a] \in Editing
    BY <1>1
<1>3. edits' \in 0..MaxEdits /\ lost' \in 0..MaxLost
    BY <1>1, OnDemandAssumption DEF Begin, Lose
<1>4. \A o : Obliged(admin[a], o) => FALSE
    BY DEF Begin, In, Obliged
<1>5. PICK q \in Editing : q = admin[a]
    BY <1>2
<1> QED BY <1>1, <1>2, <1>3, <1>4, <1>5, Edited

\* A new show has no seasons, for there are no orphans.
LEMMA CreateShowStep ==
  ASSUME OnDemandInv, NEW a \in Admins, NEW sh \in Shows, CreateShow(a, sh)
  PROVE  OnDemandInv'
<1>1. CatalogTypes /\ doubt \subseteq Objects
    BY DEF OnDemandInv, EditTypes
<1>2. /\ Begin(a) /\ sh \notin DOMAIN shows
      /\ shows' = [s \in DOMAIN shows \cup {sh} |-> IF s = sh THEN 0 ELSE shows[s]]
      /\ doubt' = doubt \ {sh}
      /\ seasons' = seasons /\ episodes' = episodes /\ admin' = admin /\ lost' = lost
    BY DEF CreateShow
<1>3. EditTypes' /\ \A o : Covered(o) => o = sh \/ Covered(o)'
    BY <1>1, <1>2, Standing
<1>4. CatalogTypes'
    BY <1>1, <1>2 DEF CatalogTypes, Exists
<1>5. /\ \A s : SeasonsOf(s)' = SeasonsOf(s)
      /\ \A s : EpisodesOf(s)' = EpisodesOf(s)
    BY <1>2 DEF SeasonsOf, EpisodesOf
<1>6. ShowsCounted'
  <2>1. SeasonsOf(sh) = {}
      BY <1>1, <1>2 DEF CatalogTypes, SeasonsOf
  <2>2. Cardinality(SeasonsOf(sh)) = 0
      BY <2>1, FS_EmptySet
  <2> SUFFICES ASSUME NEW s \in DOMAIN shows'
               PROVE  shows'[s] = Cardinality(SeasonsOf(s))' \/ Covered(s)'
      BY DEF ShowsCounted
  <2>3. CASE s = sh
      BY <1>2, <1>5, <2>2, <2>3
  <2>4. CASE s # sh
      BY <1>2, <1>3, <1>5, <2>4 DEF OnDemandInv, ShowsCounted
  <2> QED BY <2>3, <2>4
<1>7. SeasonsCounted'
  <2>1. \A x \in seasons : x.id # sh
      BY <1>1, IdAssumption DEF CatalogTypes, SeasonRows
  <2> QED BY <1>2, <1>3, <1>5, <2>1 DEF OnDemandInv, SeasonsCounted
<1> QED BY <1>3, <1>4, <1>6, <1>7 DEF OnDemandInv

\* A season that loses an episode to another show's deletion is in doubt.
LEMMA DeleteShowStep ==
  ASSUME OnDemandInv, NEW a \in Admins, NEW sh \in Shows, DeleteShow(a, sh)
  PROVE  OnDemandInv'
<1>1. CatalogTypes /\ doubt \subseteq Objects
    BY DEF OnDemandInv, EditTypes
<1>2. /\ Begin(a) /\ sh \in DOMAIN shows
      /\ shows' = [s \in DOMAIN shows \ {sh} |-> shows[s]]
      /\ seasons' = {x \in seasons : x.show # sh}
      /\ episodes' = {x \in episodes : x.show # sh /\ Season(x.season).show # sh}
      /\ doubt' = doubt \cup {x.season : x \in {y \in episodes : y.show = sh}}
      /\ admin' = admin /\ lost' = lost
    BY DEF DeleteShow
<1>3. EditTypes' /\ \A o : Covered(o) => Covered(o)'
  <2>1. \A x \in episodes : x.season \in Objects
      BY <1>1 DEF CatalogTypes, EpisodeRows, Objects
  <2>2. doubt' \subseteq Objects /\ doubt \subseteq doubt'
      BY <1>1, <1>2, <2>1
  <2> QED BY <1>2, <2>2, Standing
<1>4. \A x \in episodes : x.show = sh => Covered(x.season)'
  <2>1. \A x \in episodes : x.show = sh => x.season \in doubt'
      BY <1>2
  <2> QED BY <2>1 DEF Covered
<1>5. \A x \in episodes : /\ Season(x.season) \in seasons /\ Season(x.season).id = x.season
                          /\ \A y \in seasons : y.id = x.season => y = Season(x.season)
    BY <1>1, SeasonFound DEF CatalogTypes
<1>6. CatalogTypes'
  <2>1. IsFiniteSet(seasons') /\ IsFiniteSet(episodes')
      BY <1>1, <1>2, FS_Subset DEF CatalogTypes
  <2>2. \A x \in episodes' : Exists(x.season)' /\ x.show \in DOMAIN shows'
    <3> SUFFICES ASSUME NEW x \in episodes' PROVE Exists(x.season)' /\ x.show \in DOMAIN shows'
        OBVIOUS
    <3>1. x \in episodes /\ x.show # sh /\ Season(x.season).show # sh
        BY <1>2
    <3>2. Season(x.season) \in seasons' /\ Season(x.season).id = x.season
        BY <1>2, <1>5, <3>1
    <3>3. \E y \in seasons' : y.id = x.season
        BY <3>2
    <3> QED BY <1>1, <1>2, <3>1, <3>3 DEF CatalogTypes, Exists
  <2> QED BY <1>1, <1>2, <2>1, <2>2 DEF CatalogTypes
<1>7. ShowsCounted'
  <2> SUFFICES ASSUME NEW s \in DOMAIN shows'
               PROVE  shows'[s] = Cardinality(SeasonsOf(s))' \/ Covered(s)'
      BY DEF ShowsCounted
  <2>1. s \in DOMAIN shows /\ s # sh /\ shows'[s] = shows[s]
      BY <1>2
  <2>2. SeasonsOf(s)' = SeasonsOf(s)
      BY <1>2, <2>1 DEF SeasonsOf
  <2> QED BY <1>3, <2>1, <2>2 DEF OnDemandInv, ShowsCounted
<1>8. SeasonsCounted'
  <2> SUFFICES ASSUME NEW x \in seasons', ~Covered(x.id)'
               PROVE  x.count = Cardinality(EpisodesOf(x.id))'
      BY DEF SeasonsCounted
  <2>1. x \in seasons /\ x.show # sh
      BY <1>2
  <2>2. \A e \in episodes : e.season = x.id => e.show # sh /\ Season(e.season).show # sh
      BY <1>4, <1>5, <2>1
  <2>3. EpisodesOf(x.id)' = EpisodesOf(x.id)
      BY <1>2, <2>2 DEF EpisodesOf
  <2> QED BY <1>3, <2>1, <2>3 DEF OnDemandInv, SeasonsCounted
<1> QED BY <1>3, <1>6, <1>7, <1>8 DEF OnDemandInv

\* A count that was set by hand is in doubt.
LEMMA SetCountStep ==
  ASSUME OnDemandInv, NEW a \in Admins, NEW o \in Objects, NEW n \in 0..1, SetCount(a, o, n)
  PROVE  OnDemandInv'
<1>1. CatalogTypes /\ doubt \subseteq Objects
    BY DEF OnDemandInv, EditTypes
<1>2. /\ Begin(a) /\ Stands(o) /\ doubt' = doubt \cup {o} /\ n \in Nat
      /\ episodes' = episodes /\ admin' = admin /\ lost' = lost
    BY DEF SetCount
<1>3. EditTypes' /\ (\A p : Covered(p) => Covered(p)') /\ Covered(o)'
  <2>1. doubt' \subseteq Objects /\ doubt \subseteq doubt' /\ o \in doubt'
      BY <1>1, <1>2
  <2> QED BY <1>2, <2>1, Standing
<1>4. \A s : EpisodesOf(s)' = EpisodesOf(s)
    BY <1>2 DEF EpisodesOf
<1>5. CASE o \in Shows
  <2>1. shows' = [shows EXCEPT ![o] = n] /\ seasons' = seasons
      BY <1>5 DEF SetCount
  <2>2. \A s : SeasonsOf(s)' = SeasonsOf(s)
      BY <2>1 DEF SeasonsOf
  <2>3. CatalogTypes'
      BY <1>1, <1>2, <2>1 DEF CatalogTypes, Exists
  <2>4. ShowsCounted'
      BY <1>1, <1>3, <2>1, <2>2 DEF CatalogTypes, OnDemandInv, ShowsCounted
  <2>5. SeasonsCounted'
      BY <1>3, <1>4, <2>1 DEF OnDemandInv, SeasonsCounted
  <2> QED BY <1>3, <2>3, <2>4, <2>5 DEF OnDemandInv
<1>6. CASE o \notin Shows
  <2>1. shows' = shows /\ seasons' = {IF x.id = o THEN [x EXCEPT !.count = n] ELSE x : x \in seasons}
      BY <1>6 DEF SetCount
  <2>2. /\ seasons' \subseteq SeasonRows /\ IsFiniteSet(seasons')
        /\ \A x, y \in seasons' : x.id = y.id => x = y
        /\ \A y \in seasons' : \E x \in seasons :
             y.id = x.id /\ y.show = x.show /\ y.count = IF x.id = o THEN n ELSE x.count
        /\ \A id : Exists(id) => Exists(id)'
        /\ \A s : Cardinality(SeasonsOf(s))' = Cardinality(SeasonsOf(s))
      BY <1>1, <1>2, <2>1, Relabelled
  <2>3. CatalogTypes'
    <3>1. \A x \in seasons' : x.show \in DOMAIN shows'
        BY <1>1, <2>1, <2>2 DEF CatalogTypes
    <3>2. \A x \in episodes' : Exists(x.season)' /\ x.show \in DOMAIN shows'
        BY <1>1, <1>2, <2>1, <2>2 DEF CatalogTypes
    <3> QED BY <1>1, <1>2, <2>1, <2>2, <3>1, <3>2 DEF CatalogTypes
  <2>4. ShowsCounted'
      BY <1>3, <2>1, <2>2 DEF OnDemandInv, ShowsCounted
  <2>5. SeasonsCounted'
    <3> SUFFICES ASSUME NEW y \in seasons', ~Covered(y.id)'
                 PROVE  y.count = Cardinality(EpisodesOf(y.id))'
        BY DEF SeasonsCounted
    <3>1. PICK x \in seasons : y.id = x.id /\ y.count = IF x.id = o THEN n ELSE x.count
        BY <2>2
    <3>2. x.id # o /\ y.count = x.count
        BY <1>3, <3>1
    <3> QED BY <1>3, <1>4, <3>1, <3>2 DEF OnDemandInv, SeasonsCounted
  <2> QED BY <1>3, <2>3, <2>4, <2>5 DEF OnDemandInv
<1> QED BY <1>5, <1>6

\* A season that is added has no episodes, and its show is covered.
LEMMA SeasonFiled ==
  ASSUME OnDemandInv, NEW id \in SeasonIds, NEW sh \in Shows, NEW m \in Nat,
         sh \in DOMAIN shows, ~Exists(id),
         seasons' = seasons \cup {[id |-> id, show |-> sh, ord |-> m, count |-> 0]},
         shows' = shows, episodes' = episodes, EditTypes',
         \A o : Covered(o) => o = id \/ Covered(o)', Covered(sh)'
  PROVE  OnDemandInv'
<1>1. CatalogTypes
    BY DEF OnDemandInv
<1>2. PICK row : row = [id |-> id, show |-> sh, ord |-> m, count |-> 0]
    OBVIOUS
<1>3. /\ seasons' = seasons \cup {row} /\ row \in SeasonRows
      /\ row.id = id /\ row.show = sh /\ row.count = 0
    BY <1>2 DEF SeasonRows
<1>4. CatalogTypes'
  <2>1. IsFiniteSet(seasons')
      BY <1>1, <1>3, FS_AddElement DEF CatalogTypes
  <2>2. \A x, y \in seasons' : x.id = y.id => x = y
      BY <1>1, <1>3 DEF CatalogTypes, Exists
  <2>3. \A x \in episodes' : Exists(x.season)' /\ x.show \in DOMAIN shows'
      BY <1>1, <1>3 DEF CatalogTypes, Exists
  <2>4. seasons' \subseteq SeasonRows /\ \A x \in seasons' : x.show \in DOMAIN shows'
      BY <1>1, <1>3 DEF CatalogTypes
  <2> QED BY <1>1, <2>1, <2>2, <2>3, <2>4 DEF CatalogTypes
<1>5. ShowsCounted'
  <2> SUFFICES ASSUME NEW s \in DOMAIN shows', ~Covered(s)'
               PROVE  shows'[s] = Cardinality(SeasonsOf(s))'
      BY DEF ShowsCounted
  <2>1. s # sh /\ s \in Shows /\ s # id
      BY <1>1, IdAssumption DEF CatalogTypes
  <2>2. SeasonsOf(s)' = SeasonsOf(s)
      BY <1>3, <2>1 DEF SeasonsOf
  <2> QED BY <2>1, <2>2 DEF OnDemandInv, ShowsCounted
<1>6. SeasonsCounted'
  <2> SUFFICES ASSUME NEW x \in seasons', ~Covered(x.id)'
               PROVE  x.count = Cardinality(EpisodesOf(x.id))'
      BY DEF SeasonsCounted
  <2>1. EpisodesOf(x.id)' = EpisodesOf(x.id)
      BY DEF EpisodesOf
  <2>2. CASE x = row
    <3>1. EpisodesOf(id) = {}
        BY <1>1 DEF CatalogTypes, EpisodesOf
    <3> QED BY <1>3, <2>1, <2>2, <3>1, FS_EmptySet
  <2>3. CASE x # row
    <3>1. x \in seasons /\ x.id # id
        BY <1>3, <2>3 DEF Exists
    <3> QED BY <2>1, <3>1 DEF OnDemandInv, SeasonsCounted
  <2> QED BY <2>2, <2>3
<1> QED BY <1>4, <1>5, <1>6 DEF OnDemandInv

\* The show of a season that is inserted is bound to be counted.
LEMMA InsertSeasonStep ==
  ASSUME OnDemandInv, NEW a \in Admins, InsertSeason(a)
  PROVE  OnDemandInv'
<1>1. admin \in [Admins -> Editing] /\ doubt \subseteq Objects /\ edits \in 0..MaxEdits /\ lost \in 0..MaxLost
      /\ Prepared(admin[a]) /\ admin[a] \in Editing /\ CatalogTypes
    BY DEF OnDemandInv, EditTypes
<1>2. admin[a].pc = "insertSeason" /\ shows' = shows /\ episodes' = episodes /\ edits' = edits /\ lost' = lost
    BY DEF InsertSeason, In
<1>3. \A o : Obliged(admin[a], o) => FALSE
    BY <1>2 DEF Obliged
<1>4. edits' \in 0..MaxEdits /\ lost' \in 0..MaxLost
    BY <1>1, <1>2
<1> DEFINE Legal == admin[a].show \in DOMAIN shows /\ ~Exists(admin[a].season)
<1>5. CASE ~Legal
  <2>1. seasons' = seasons /\ admin' = [admin EXCEPT ![a] = Nobody] /\ doubt' = doubt
      BY <1>5 DEF InsertSeason
  <2>2. UNCHANGED rows
      BY <1>2, <2>1 DEF rows
  <2> QED BY <1>1, <1>3, <1>4, <2>1, <2>2, NobodyIsIdle, Handled
<1>6. CASE Legal
  <2>1. PICK id \in SeasonIds : id = admin[a].season
      BY <1>1, <1>2 DEF Prepared
  <2>2. PICK sh \in Shows : sh = admin[a].show
      BY <1>1 DEF Editing
  <2>3. PICK m \in Nat : m = admin[a].number
      BY <1>1 DEF Editing
  <2>4. PICK row : row = [id |-> id, show |-> sh, ord |-> m, count |-> 0]
      OBVIOUS
  <2>5. /\ seasons' = seasons \cup {row} /\ doubt' = doubt \ {id}
        /\ sh \in DOMAIN shows /\ ~Exists(id)
      BY <1>6, <2>1, <2>2, <2>3, <2>4 DEF InsertSeason
  <2>6. row \in SeasonRows /\ row.id = id /\ row.show = sh /\ row.count = 0
      BY <2>4 DEF SeasonRows
  <2>7. PICK q \in Editing : admin' = [admin EXCEPT ![a] = q] /\ Prepared(q) /\ Obliged(q, sh)
    <3>1. CASE admin[a].episode
      <4>1. PICK k \in Nat : k = NextNumber(id)
          BY <1>1, NextNumbers
      <4>2. PICK t : t = <<id, sh>>
          OBVIOUS
      <4>3. t \in Seq(Objects) /\ t # <<>>
        <5>1. id \in Objects /\ sh \in Objects
            BY DEF Objects
        <5> QED BY <4>2, <5>1
      <4>4. PICK q : q = [admin[a] EXCEPT !.pc = "insertEpisode", !.made = TRUE, !.number = k, !.todo = t]
          OBVIOUS
      <4>5. admin' = [admin EXCEPT ![a] = q]
          BY <1>6, <2>1, <2>2, <3>1, <4>1, <4>2, <4>4 DEF InsertSeason
      <4>6. q \in Editing /\ q.pc = "insertEpisode" /\ q.season = id /\ q.show = sh /\ q.todo = t
          BY <1>1, <2>1, <2>2, <4>3, <4>4 DEF Editing
      <4>7. q.made
          BY <1>1, <4>4 DEF Editing
      <4>8. Prepared(q) /\ Obliged(q, sh)
          BY <4>2, <4>3, <4>6, <4>7 DEF Prepared, Obliged
      <4> QED BY <4>5, <4>6, <4>8
    <3>2. CASE ~admin[a].episode
      <4>1. PICK t : t = <<sh>>
          OBVIOUS
      <4>2. t \in Seq(Objects) /\ t # <<>> /\ 1 \in DOMAIN t /\ t[1] = sh
        <5>1. sh \in Objects
            BY DEF Objects
        <5> QED BY <4>1, <5>1
      <4>3. PICK q : q = [admin[a] EXCEPT !.pc = "recount", !.todo = t]
          OBVIOUS
      <4>4. admin' = [admin EXCEPT ![a] = q]
          BY <1>6, <2>2, <3>2, <4>1, <4>3 DEF InsertSeason
      <4>5. q \in Editing /\ q.pc = "recount" /\ q.todo = t
          BY <1>1, <4>2, <4>3 DEF Editing
      <4>6. Prepared(q) /\ Obliged(q, sh)
          BY <4>2, <4>5 DEF Prepared, Obliged
      <4> QED BY <4>4, <4>5, <4>6
    <3> QED BY <3>1, <3>2
  <2>8. EditTypes' /\ (\A o : Covered(o) => o = id \/ Covered(o)') /\ Covered(sh)'
    <3>1. doubt' \subseteq Objects /\ \A o \in doubt : o = id \/ o \in doubt'
        BY <1>1, <2>5
    <3>2. /\ EditTypes'
          /\ \A o : Covered(o) => o \in doubt \/ Obliged(admin[a], o) \/ Covered(o)'
          /\ \A o : Obliged(q, o) => Covered(o)'
          /\ \A o \in doubt' : Covered(o)'
        BY <1>4, <2>7, <3>1, Edited
    <3> QED BY <1>3, <2>7, <3>1, <3>2
  <2> QED
    <3>1. seasons' = seasons \cup {[id |-> id, show |-> sh, ord |-> m, count |-> 0]}
        BY <2>4, <2>5
    <3> QED BY <1>2, <2>5, <2>8, <3>1, SeasonFiled
<1> QED BY <1>5, <1>6

\* A season that was inserted though the answer was an error has its show in doubt.
LEMMA InsertSeasonFailsStep ==
  ASSUME OnDemandInv, NEW a \in Admins, InsertSeasonFails(a)
  PROVE  OnDemandInv'
<1>1. admin \in [Admins -> Editing] /\ doubt \subseteq Objects /\ edits \in 0..MaxEdits /\ lost \in 0..MaxLost
      /\ Prepared(admin[a]) /\ admin[a] \in Editing
    BY DEF OnDemandInv, EditTypes
<1>2. /\ admin[a].pc = "insertSeason" /\ shows' = shows /\ episodes' = episodes /\ edits' = edits
      /\ admin' = [admin EXCEPT ![a] = Nobody]
    BY DEF InsertSeasonFails, In, Finish
<1>3. \A o : Obliged(admin[a], o) => FALSE
    BY <1>2 DEF Obliged
<1>4. edits' \in 0..MaxEdits /\ lost' \in 0..MaxLost
    BY <1>1, <1>2, OnDemandAssumption DEF InsertSeasonFails, Lose
<1>5. CASE seasons' = seasons /\ doubt' = doubt
  <2>1. UNCHANGED rows
      BY <1>2, <1>5 DEF rows
  <2> QED BY <1>1, <1>2, <1>3, <1>4, <1>5, <2>1, NobodyIsIdle, Handled
<1>6. CASE ~(seasons' = seasons /\ doubt' = doubt)
  <2>1. PICK id \in SeasonIds : id = admin[a].season
      BY <1>1, <1>2 DEF Prepared
  <2>2. PICK sh \in Shows : sh = admin[a].show
      BY <1>1 DEF Editing
  <2>3. PICK m \in Nat : m = admin[a].number
      BY <1>1 DEF Editing
  <2>4. /\ sh \in DOMAIN shows /\ ~Exists(id)
        /\ seasons' = seasons \cup {[id |-> id, show |-> sh, ord |-> m, count |-> 0]}
        /\ doubt' = (doubt \ {id}) \cup {sh}
      BY <1>6, <2>1, <2>2, <2>3 DEF InsertSeasonFails
  <2>5. /\ doubt' \subseteq Objects /\ sh \in doubt'
        /\ \A o \in doubt : o = id \/ o \in doubt'
      BY <1>1, <2>4 DEF Objects
  <2>6. /\ EditTypes'
        /\ \A o : Covered(o) => o \in doubt \/ Obliged(admin[a], o) \/ Covered(o)'
        /\ \A o \in doubt' : Covered(o)'
      BY <1>1, <1>2, <1>4, <2>5, NobodyIsIdle, Edited
  <2>7. (\A o : Covered(o) => o = id \/ Covered(o)') /\ Covered(sh)'
      BY <1>3, <2>5, <2>6
  <2> QED BY <1>2, <2>4, <2>6, <2>7, SeasonFiled
<1> QED BY <1>5, <1>6

\* Beginning to recount one object.
LEMMA Recounting ==
  ASSUME NEW sh \in Shows, NEW id \in SeasonIds \cup {<<>>}, NEW o \in Objects, NEW q,
         q = [Nobody EXCEPT !.pc = "recount", !.show = sh, !.season = id, !.todo = <<o>>]
  PROVE  q \in Editing /\ Prepared(q) /\ Obliged(q, o)
<1>1. PICK t : t = <<o>>
    OBVIOUS
<1>2. t \in Seq(Objects) /\ t # <<>> /\ 1 \in DOMAIN t /\ t[1] = o
    BY <1>1
<1>3. q = [Nobody EXCEPT !.pc = "recount", !.show = sh, !.season = id, !.todo = t]
    BY <1>1
<1>4. q \in Editing /\ q.pc = "recount" /\ q.todo = t
    BY <1>2, <1>3, NobodyIsIdle DEF Editing
<1> QED BY <1>2, <1>4 DEF Prepared, Obliged

\* A season goes with its episodes if its show is covered; nothing else is miscounted.
LEMMA SeasonGone ==
  ASSUME OnDemandInv, NEW sh \in Shows, NEW id \in SeasonIds, RemoveSeason(sh, id), shows' = shows,
         EditTypes', \A o : Covered(o) => Covered(o)', Covered(sh)'
  PROVE  OnDemandInv'
<1>1. CatalogTypes
    BY DEF OnDemandInv
<1>2. /\ seasons' \subseteq seasons /\ episodes' \subseteq episodes
      /\ \A x \in seasons : x \in seasons' \/ (x.id = id /\ x.show = sh)
      /\ \A x \in episodes : x \in episodes' \/ x.season = id
    BY DEF RemoveSeason, EpisodesOf
<1>3. \A x \in seasons, y \in seasons' : x.id = id /\ x.show = sh => y.id # id
    BY <1>1 DEF RemoveSeason, CatalogTypes
<1>4. \A x \in seasons, y \in episodes' : x.id = id /\ x.show = sh => y.season # id
    BY DEF RemoveSeason, EpisodesOf
<1>5. (\E x \in seasons : x.id = id /\ x.show = sh) \/ (seasons' = seasons /\ episodes' = episodes)
    BY DEF RemoveSeason
<1>6. CatalogTypes'
  <2>1. IsFiniteSet(seasons') /\ IsFiniteSet(episodes')
      BY <1>1, <1>2, FS_Subset DEF CatalogTypes
  <2>2. \A x \in episodes' : Exists(x.season)' /\ x.show \in DOMAIN shows'
    <3> SUFFICES ASSUME NEW x \in episodes' PROVE Exists(x.season)' /\ x.show \in DOMAIN shows'
        OBVIOUS
    <3>1. PICK y \in seasons : y.id = x.season
        BY <1>1, <1>2 DEF CatalogTypes, Exists
    <3>2. y \in seasons'
        BY <1>2, <1>4, <3>1
    <3> QED BY <1>1, <1>2, <3>1, <3>2 DEF CatalogTypes, Exists
  <2> QED BY <1>1, <1>2, <2>1, <2>2 DEF CatalogTypes
<1>7. ShowsCounted'
  <2> SUFFICES ASSUME NEW s \in DOMAIN shows', ~Covered(s)'
               PROVE  shows'[s] = Cardinality(SeasonsOf(s))'
      BY DEF ShowsCounted
  <2>1. s # sh
      OBVIOUS
  <2>2. SeasonsOf(s)' = SeasonsOf(s)
      BY <1>2, <2>1 DEF SeasonsOf
  <2> QED BY <2>2 DEF OnDemandInv, ShowsCounted
<1>8. SeasonsCounted'
  <2> SUFFICES ASSUME NEW x \in seasons', ~Covered(x.id)'
               PROVE  x.count = Cardinality(EpisodesOf(x.id))'
      BY DEF SeasonsCounted
  <2>1. EpisodesOf(x.id)' = EpisodesOf(x.id)
    <3>1. CASE x.id = id
      <4>1. episodes' = episodes
          BY <1>3, <1>5, <3>1
      <4> QED BY <4>1 DEF EpisodesOf
    <3>2. CASE x.id # id
        BY <1>2, <3>2 DEF EpisodesOf
    <3> QED BY <3>1, <3>2
  <2> QED BY <1>2, <2>1 DEF OnDemandInv, SeasonsCounted
<1> QED BY <1>6, <1>7, <1>8 DEF OnDemandInv

\* The show of a season that is deleted is bound to be counted, or in doubt.
LEMMA DeleteSeasonStep ==
  ASSUME OnDemandInv, NEW a \in Admins, NEW sh \in Shows, NEW id \in SeasonIds,
         DeleteSeason(a, sh, id) \/ DeleteSeasonFails(a, sh, id)
  PROVE  OnDemandInv'
<1>1. admin \in [Admins -> Editing] /\ doubt \subseteq Objects /\ edits \in 0..MaxEdits /\ lost \in 0..MaxLost
    BY DEF OnDemandInv, EditTypes
<1>2. Begin(a) /\ RemoveSeason(sh, id) /\ shows' = shows
    BY DEF DeleteSeason, DeleteSeasonFails
<1>3. sh \in Objects
    BY DEF Objects
<1>4. CASE DeleteSeason(a, sh, id)
  <2>1. PICK q : q = [Nobody EXCEPT !.pc = "recount", !.show = sh, !.season = <<>>, !.todo = <<sh>>]
      OBVIOUS
  <2>2. q = [Nobody EXCEPT !.pc = "recount", !.show = sh, !.todo = <<sh>>]
      BY <2>1, NobodyIsIdle DEF Editing
  <2>3. admin' = [admin EXCEPT ![a] = q] /\ doubt' = doubt /\ lost' = lost
      BY <1>4, <2>2 DEF DeleteSeason
  <2>4. q \in Editing /\ Prepared(q) /\ Obliged(q, sh)
      BY <1>3, <2>1, Recounting
  <2>5. \A o : Obliged(admin[a], o) => FALSE
      BY <1>2 DEF Begin, In, Obliged
  <2>6. edits' \in 0..MaxEdits /\ lost' \in 0..MaxLost
      BY <1>1, <1>2, <2>3, OnDemandAssumption DEF Begin
  <2>7. /\ EditTypes'
        /\ \A o : Covered(o) => o \in doubt \/ Obliged(admin[a], o) \/ Covered(o)'
        /\ \A o : Obliged(q, o) => Covered(o)'
        /\ \A o \in doubt' : Covered(o)'
      BY <1>1, <2>3, <2>4, <2>6, Edited
  <2>8. (\A o : Covered(o) => Covered(o)') /\ Covered(sh)'
      BY <2>3, <2>4, <2>5, <2>7
  <2> QED BY <1>2, <2>7, <2>8, SeasonGone
<1>5. CASE DeleteSeasonFails(a, sh, id)
  <2>1. doubt' = doubt \cup {sh} /\ doubt' \subseteq Objects /\ admin' = admin /\ Lose
      BY <1>1, <1>3, <1>5 DEF DeleteSeasonFails
  <2>2. /\ EditTypes'
        /\ \A o : Covered(o) => o \in doubt \/ Covered(o)'
        /\ \A o \in doubt' : Covered(o)'
      BY <1>2, <2>1, Standing
  <2>3. (\A o : Covered(o) => Covered(o)') /\ Covered(sh)'
      BY <2>1, <2>2
  <2> QED BY <1>2, <2>2, <2>3, SeasonGone
<1> QED BY <1>4, <1>5

\* An episode goes if its season is covered.
LEMMA EpisodeGone ==
  ASSUME OnDemandInv, NEW id \in SeasonIds, NEW number, RemoveEpisode(id, number),
         shows' = shows, seasons' = seasons,
         EditTypes', \A o : Covered(o) => Covered(o)', Covered(id)'
  PROVE  OnDemandInv'
<1>1. CatalogTypes
    BY DEF OnDemandInv
<1>2. episodes' \subseteq episodes /\ \A x \in episodes : x \in episodes' \/ x.season = id
    BY DEF RemoveEpisode
<1>3. \A s : SeasonsOf(s)' = SeasonsOf(s)
    BY DEF SeasonsOf
<1>4. CatalogTypes'
  <2>1. IsFiniteSet(episodes')
      BY <1>1, <1>2, FS_Subset DEF CatalogTypes
  <2> QED BY <1>1, <1>2, <2>1 DEF CatalogTypes, Exists
<1>5. ShowsCounted'
    BY <1>3 DEF OnDemandInv, ShowsCounted
<1>6. SeasonsCounted'
  <2> SUFFICES ASSUME NEW x \in seasons', ~Covered(x.id)'
               PROVE  x.count = Cardinality(EpisodesOf(x.id))'
      BY DEF SeasonsCounted
  <2>1. x.id # id
      OBVIOUS
  <2>2. EpisodesOf(x.id)' = EpisodesOf(x.id)
      BY <1>2, <2>1 DEF EpisodesOf
  <2> QED BY <2>2 DEF OnDemandInv, SeasonsCounted
<1> QED BY <1>4, <1>5, <1>6 DEF OnDemandInv

\* The season of an episode that is deleted is bound to be counted, or in doubt.
LEMMA DeleteEpisodeStep ==
  ASSUME OnDemandInv, NEW a \in Admins, NEW id \in SeasonIds, NEW number,
         DeleteEpisode(a, id, number) \/ DeleteEpisodeFails(a, id, number)
  PROVE  OnDemandInv'
<1>1. admin \in [Admins -> Editing] /\ doubt \subseteq Objects /\ edits \in 0..MaxEdits /\ lost \in 0..MaxLost
    BY DEF OnDemandInv, EditTypes
<1>2. Begin(a) /\ RemoveEpisode(id, number) /\ shows' = shows /\ seasons' = seasons
    BY DEF DeleteEpisode, DeleteEpisodeFails
<1>3. id \in Objects
    BY DEF Objects
<1>4. CASE DeleteEpisode(a, id, number)
  <2>1. PICK sh \in Shows : sh = CHOOSE s \in Shows : TRUE
      BY OnDemandAssumption
  <2>2. PICK q : q = [Nobody EXCEPT !.pc = "recount", !.show = sh, !.season = id, !.todo = <<id>>]
      OBVIOUS
  <2>3. q = [Nobody EXCEPT !.pc = "recount", !.season = id, !.todo = <<id>>]
    <3>1. Nobody.show = sh
        BY <2>1 DEF Nobody
    <3> QED BY <2>2, <3>1, NobodyIsIdle DEF Editing
  <2>4. admin' = [admin EXCEPT ![a] = q] /\ doubt' = doubt /\ lost' = lost
      BY <1>4, <2>3 DEF DeleteEpisode
  <2>5. q \in Editing /\ Prepared(q) /\ Obliged(q, id)
      BY <1>3, <2>2, Recounting
  <2>6. \A o : Obliged(admin[a], o) => FALSE
      BY <1>2 DEF Begin, In, Obliged
  <2>7. edits' \in 0..MaxEdits /\ lost' \in 0..MaxLost
      BY <1>1, <1>2, <2>4, OnDemandAssumption DEF Begin
  <2>8. /\ EditTypes'
        /\ \A o : Covered(o) => o \in doubt \/ Obliged(admin[a], o) \/ Covered(o)'
        /\ \A o : Obliged(q, o) => Covered(o)'
        /\ \A o \in doubt' : Covered(o)'
      BY <1>1, <2>4, <2>5, <2>7, Edited
  <2>9. (\A o : Covered(o) => Covered(o)') /\ Covered(id)'
      BY <2>4, <2>5, <2>6, <2>8
  <2> QED BY <1>2, <2>8, <2>9, EpisodeGone
<1>5. CASE DeleteEpisodeFails(a, id, number)
  <2>1. doubt' = doubt \cup {id} /\ doubt' \subseteq Objects /\ admin' = admin /\ Lose
      BY <1>1, <1>3, <1>5 DEF DeleteEpisodeFails
  <2>2. /\ EditTypes'
        /\ \A o : Covered(o) => o \in doubt \/ Covered(o)'
        /\ \A o \in doubt' : Covered(o)'
      BY <1>2, <2>1, Standing
  <2>3. (\A o : Covered(o) => Covered(o)') /\ Covered(id)'
      BY <2>1, <2>2
  <2> QED BY <1>2, <2>2, <2>3, EpisodeGone
<1> QED BY <1>4, <1>5

\* An episode is added if its season and show are there and the season is covered.
LEMMA EpisodeFiled ==
  ASSUME OnDemandInv, NEW id \in SeasonIds, NEW sh \in Shows, NEW m \in Nat,
         Exists(id), sh \in DOMAIN shows,
         episodes' = episodes \cup {[season |-> id, number |-> m, show |-> sh]},
         shows' = shows, seasons' = seasons,
         EditTypes', \A o : Covered(o) => Covered(o)', Covered(id)'
  PROVE  OnDemandInv'
<1>1. CatalogTypes
    BY DEF OnDemandInv
<1>2. PICK row : row = [season |-> id, number |-> m, show |-> sh]
    OBVIOUS
<1>3. episodes' = episodes \cup {row} /\ row \in EpisodeRows /\ row.season = id /\ row.show = sh
    BY <1>2 DEF EpisodeRows
<1>4. \A s : SeasonsOf(s)' = SeasonsOf(s)
    BY DEF SeasonsOf
<1>5. CatalogTypes'
  <2>1. IsFiniteSet(episodes')
      BY <1>1, <1>3, FS_AddElement DEF CatalogTypes
  <2>2. \A x \in episodes' : Exists(x.season)' /\ x.show \in DOMAIN shows'
      BY <1>1, <1>3 DEF CatalogTypes, Exists
  <2> QED BY <1>1, <1>3, <2>1, <2>2 DEF CatalogTypes
<1>6. ShowsCounted'
    BY <1>4 DEF OnDemandInv, ShowsCounted
<1>7. SeasonsCounted'
  <2> SUFFICES ASSUME NEW x \in seasons', ~Covered(x.id)'
               PROVE  x.count = Cardinality(EpisodesOf(x.id))'
      BY DEF SeasonsCounted
  <2>1. x.id # id
      OBVIOUS
  <2>2. EpisodesOf(x.id)' = EpisodesOf(x.id)
      BY <1>3, <2>1 DEF EpisodesOf
  <2> QED BY <2>2 DEF OnDemandInv, SeasonsCounted
<1> QED BY <1>5, <1>6, <1>7 DEF OnDemandInv

\* An episode that is inserted, its season bound to be counted, or refused, its
\* show in doubt if the season was made for it.
LEMMA EpisodeSteps ==
  ASSUME OnDemandInv, NEW a \in Admins, InsertEpisode(a) \/ NumberEpisodeBlind(a) \/ InsertEpisodeFails(a)
  PROVE  OnDemandInv'
<1> USE OnDemandAssumption
<1>1. admin \in [Admins -> Editing] /\ doubt \subseteq Objects /\ edits \in 0..MaxEdits /\ lost \in 0..MaxLost
      /\ Prepared(admin[a]) /\ admin[a] \in Editing /\ CatalogTypes
    BY DEF OnDemandInv, EditTypes
<1>2. admin[a].pc = "insertEpisode"
    BY DEF InsertEpisode, NumberEpisodeBlind, InsertEpisodeFails, In
<1>3. PICK id \in SeasonIds : id = admin[a].season
    BY <1>1, <1>2 DEF Prepared
<1>4. PICK sh \in Shows : sh = admin[a].show
    BY <1>1 DEF Editing
<1>5. \A o : Obliged(admin[a], o) => admin[a].made /\ o = sh
    BY <1>2, <1>4 DEF Obliged
<1>6. sh \in Objects /\ id \in Objects
    BY DEF Objects
<1>7. ASSUME admin' = [admin EXCEPT ![a] = Nobody], UNCHANGED rows, edits' = edits, lost' \in 0..MaxLost,
             doubt' = IF admin[a].made THEN doubt \cup {sh} ELSE doubt
      PROVE  OnDemandInv'
  <2>1. doubt \subseteq doubt' /\ doubt' \subseteq Objects
      BY <1>1, <1>6, <1>7
  <2>2. \A o : Obliged(admin[a], o) => Obliged(Nobody, o) \/ o \in doubt'
      BY <1>5, <1>7
  <2>3. edits' \in 0..MaxEdits
      BY <1>1, <1>7
  <2> QED BY <1>1, <1>7, <2>1, <2>2, <2>3, NobodyIsIdle, Handled
<1>8. CASE InsertEpisodeFails(a)
  <2>1. /\ admin' = [admin EXCEPT ![a] = Nobody] /\ shows' = shows /\ seasons' = seasons
        /\ edits' = edits
      BY <1>8 DEF InsertEpisodeFails, Finish
  <2>2. edits' \in 0..MaxEdits /\ lost' \in 0..MaxLost
      BY <1>1, <1>8, <2>1 DEF InsertEpisodeFails, Lose
  <2>3. CASE episodes' = episodes /\ doubt' = IF admin[a].made THEN doubt \cup {sh} ELSE doubt
      BY <1>7, <2>1, <2>2, <2>3 DEF rows
  <2>4. CASE ~(episodes' = episodes /\ doubt' = IF admin[a].made THEN doubt \cup {sh} ELSE doubt)
    <3>1. PICK m \in Nat : m = admin[a].number
        BY <1>1 DEF Editing
    <3>2. PICK U : U = IF admin[a].made THEN {sh} ELSE {}
        OBVIOUS
    <3>3. /\ Exists(id) /\ sh \in DOMAIN shows
          /\ episodes' = episodes \cup {[season |-> id, number |-> m, show |-> sh]}
          /\ doubt' = doubt \cup U \cup {id}
        BY <1>3, <1>4, <1>8, <2>4, <3>1, <3>2 DEF InsertEpisodeFails
    <3>4. /\ doubt \subseteq doubt' /\ doubt' \subseteq Objects /\ id \in doubt'
          /\ admin[a].made => sh \in doubt'
        BY <1>1, <1>6, <3>2, <3>3
    <3>5. /\ EditTypes'
          /\ \A o : Covered(o) => o \in doubt \/ Obliged(admin[a], o) \/ Covered(o)'
          /\ \A o \in doubt' : Covered(o)'
        BY <1>1, <2>1, <2>2, <3>4, NobodyIsIdle, Edited
    <3>6. (\A o : Covered(o) => Covered(o)') /\ Covered(id)'
        BY <1>5, <3>4, <3>5
    <3> QED BY <2>1, <3>3, <3>5, <3>6, EpisodeFiled
  <2> QED BY <2>3, <2>4
<1>9. CASE NumberEpisodeBlind(a)
  <2>1. PICK q : q = [admin[a] EXCEPT !.number = 1]
      OBVIOUS
  <2>2. admin' = [admin EXCEPT ![a] = q] /\ UNCHANGED rows /\ doubt' = doubt /\ edits' = edits
      BY <1>1, <1>9, <2>1 DEF NumberEpisodeBlind
  <2>3. lost' \in 0..MaxLost
      BY <1>1, <1>9 DEF NumberEpisodeBlind, Lose
  <2>4. /\ q \in Editing /\ q.pc = admin[a].pc /\ q.season = admin[a].season /\ q.show = admin[a].show
        /\ q.todo = admin[a].todo
      BY <1>1, <2>1 DEF Editing
  <2>5. q.made = admin[a].made
      BY <1>1, <2>1 DEF Editing
  <2>6. Prepared(q)
      BY <1>1, <2>4 DEF Prepared
  <2>7. \A o : Obliged(admin[a], o) => Obliged(q, o)
      BY <2>4, <2>5 DEF Obliged
  <2>8. edits' \in 0..MaxEdits
      BY <1>1, <2>2
  <2> QED BY <1>1, <2>2, <2>3, <2>4, <2>6, <2>7, <2>8, Handled
<1>10. CASE InsertEpisode(a)
  <2>1. PICK m \in Nat : m = admin[a].number
      BY <1>1 DEF Editing
  <2> DEFINE Legal == Exists(id) /\ m \notin {x.number : x \in EpisodesOf(id)} /\ sh \in DOMAIN shows
  <2>2. shows' = shows /\ seasons' = seasons /\ edits' = edits /\ lost' = lost
      BY <1>10 DEF InsertEpisode
  <2>3. edits' \in 0..MaxEdits /\ lost' \in 0..MaxLost
      BY <1>1, <2>2
  <2>4. CASE ~Legal
    <3>1. admin' = [admin EXCEPT ![a] = Nobody] /\ episodes' = episodes
        BY <1>3, <1>4, <1>10, <2>1, <2>4 DEF InsertEpisode
    <3>2. doubt' = IF admin[a].made THEN doubt \cup {sh} ELSE doubt
        BY <1>3, <1>4, <1>10, <2>1, <2>4 DEF InsertEpisode
    <3>3. UNCHANGED rows
        BY <2>2, <3>1 DEF rows
    <3> QED BY <1>7, <2>2, <2>3, <3>1, <3>2, <3>3
  <2>5. CASE Legal
    <3>1. PICK row : row = [season |-> id, number |-> m, show |-> sh]
        OBVIOUS
    <3>2. row \in EpisodeRows /\ row.season = id /\ row.show = sh
        BY <3>1 DEF EpisodeRows
    <3>3. PICK q : q = [admin[a] EXCEPT !.pc = "recount"]
        OBVIOUS
    <3>4. /\ episodes' = episodes \cup {row} /\ admin' = [admin EXCEPT ![a] = q] /\ doubt' = doubt
        BY <1>3, <1>4, <1>10, <2>1, <2>5, <3>1, <3>3 DEF InsertEpisode
    <3>5. q \in Editing /\ q.pc = "recount" /\ q.todo = <<id, sh>>
        BY <1>1, <1>2, <1>3, <1>4, <3>3 DEF Editing, Prepared
    <3>6. PICK t : t = <<id, sh>> /\ t # <<>> /\ 1 \in DOMAIN t /\ 2 \in DOMAIN t /\ t[1] = id /\ t[2] = sh
      <4>1. PICK t \in Seq(Objects) : t = <<id, sh>>
        <5>1. <<id, sh>> \in Seq(Objects)
            BY <1>6
        <5> QED BY <5>1
      <4>2. Len(t) = 2 /\ t[1] = id /\ t[2] = sh
          BY <4>1
      <4>3. DOMAIN t = 1..Len(t)
          OBVIOUS
      <4>4. 1 \in DOMAIN t /\ 2 \in DOMAIN t
          BY <4>2, <4>3
      <4>5. t # <<>>
        <5>1. <<id, sh>> # <<>>
            BY <1>6
        <5> QED BY <4>1, <5>1
      <4> QED BY <4>1, <4>2, <4>4, <4>5
    <3>7. Prepared(q) /\ Obliged(q, id) /\ Obliged(q, sh)
        BY <3>5, <3>6 DEF Prepared, Obliged
    <3>8. EditTypes' /\ (\A o : Covered(o) => Covered(o)') /\ Covered(id)'
      <4>1. /\ EditTypes'
            /\ \A o : Covered(o) => o \in doubt \/ Obliged(admin[a], o) \/ Covered(o)'
            /\ \A o : Obliged(q, o) => Covered(o)'
            /\ \A o \in doubt' : Covered(o)'
          BY <1>1, <2>3, <3>4, <3>5, <3>7, Edited
      <4> QED BY <1>5, <3>4, <3>7, <4>1
    <3>9. episodes' = episodes \cup {[season |-> id, number |-> m, show |-> sh]}
        BY <3>1, <3>4
    <3> QED BY <2>2, <2>5, <3>8, <3>9, EpisodeFiled
  <2> QED BY <2>4, <2>5
<1> QED BY <1>8, <1>9, <1>10

\* Every step of the handlers keeps OnDemandInv.
LEMMA OnDemandNextInv == OnDemandInv /\ [OnDemandNext]_onDemandVars => OnDemandInv'
<1> SUFFICES ASSUME OnDemandInv, [OnDemandNext]_onDemandVars PROVE OnDemandInv'
    OBVIOUS
<1>1. CASE UNCHANGED onDemandVars
  <2>1. /\ shows' = shows /\ seasons' = seasons /\ episodes' = episodes /\ admin' = admin
        /\ doubt' = doubt /\ edits' = edits /\ lost' = lost
      BY <1>1 DEF onDemandVars
  <2>2. CatalogTypes'
      BY <2>1 DEF OnDemandInv, CatalogTypes, Exists
  <2>3. EditTypes'
      BY <2>1 DEF OnDemandInv, EditTypes
  <2>4. /\ \A s : SeasonsOf(s)' = SeasonsOf(s)
        /\ \A s : EpisodesOf(s)' = EpisodesOf(s)
      BY <2>1 DEF SeasonsOf, EpisodesOf
  <2>5. \A o : Covered(o) => Covered(o)'
      BY <2>1 DEF Covered, Obliged
  <2>6. ShowsCounted'
      BY <2>1, <2>4, <2>5 DEF OnDemandInv, ShowsCounted
  <2>7. SeasonsCounted'
      BY <2>1, <2>4, <2>5 DEF OnDemandInv, SeasonsCounted
  <2> QED BY <2>2, <2>3, <2>6, <2>7 DEF OnDemandInv
<1>2. CASE OnDemandNext
  <2> SUFFICES ASSUME NEW a \in Admins,
                      \/ \E sh \in Shows : CreateShow(a, sh) \/ DeleteShow(a, sh) \/ AskSeason(a, sh)
                      \/ \E o \in Objects, n \in 0..1 : SetCount(a, o, n)
                      \/ \E number \in 1..MaxNumber, slug \in Slugs : NumberSeason(a, number, slug)
                      \/ NumberSeasonBlind(a) \/ InsertSeason(a) \/ InsertSeasonFails(a)
                      \/ \E sh \in Shows, id \in SeasonIds :
                           DeleteSeason(a, sh, id) \/ DeleteSeasonFails(a, sh, id)
                      \/ \E sh \in Shows, id \in SeasonIds \cup {<<>>} :
                           AskEpisode(a, sh, id) \/ AskEpisodeBlind(a, sh, id)
                      \/ InsertEpisode(a) \/ NumberEpisodeBlind(a) \/ InsertEpisodeFails(a)
                      \/ \E id \in SeasonIds, number \in 1..MaxNumber :
                           DeleteEpisode(a, id, number) \/ DeleteEpisodeFails(a, id, number)
                      \/ ReadCount(a) \/ PatchCount(a) \/ CountFails(a)
               PROVE  OnDemandInv'
      BY <1>2 DEF OnDemandNext
  <2> QED BY AskSteps, NumberSteps, ReadSteps, PatchStep, CreateShowStep, DeleteShowStep, SetCountStep,
             InsertSeasonStep, InsertSeasonFailsStep, DeleteSeasonStep, DeleteEpisodeStep, EpisodeSteps
<1> QED BY <1>1, <1>2

\* OnDemandInv gives the type invariant.
LEMMA OnDemandInvTypes == OnDemandInv => OnDemandTypeOK
<1> SUFFICES ASSUME OnDemandInv PROVE OnDemandTypeOK
    OBVIOUS
<1>1. \A a \in Admins : admin[a] \in Editing /\ Prepared(admin[a])
    BY DEF OnDemandInv, EditTypes
<1>2. /\ \A a \in Admins : admin[a].pc \in {"idle", "number", "insertSeason", "insertEpisode",
                                        "recount", "patch"}
      /\ \A a \in Admins : admin[a].todo # <<>> <=> admin[a].pc \in {"insertEpisode", "recount", "patch"}
    BY <1>1 DEF Editing, Prepared
<1>3. \A x \in seasons : x.id \in SeasonIds /\ x.show \in DOMAIN shows /\ x.count \in Nat
    BY DEF OnDemandInv, CatalogTypes, SeasonRows
<1> QED BY <1>2, <1>3 DEF OnDemandTypeOK, OnDemandInv, CatalogTypes, EditTypes

\* What is covered is in doubt or on a request's list.
LEMMA OnDemandInvCounts == OnDemandInv => CountsTrue
<1> SUFFICES ASSUME OnDemandInv, NEW o \in Objects, Stands(o), CountOf(o) # Truth(o)
             PROVE  o \in doubt \/ \E a \in Admins : \E i \in DOMAIN admin[a].todo : admin[a].todo[i] = o
    BY DEF CountsTrue
<1>1. CatalogTypes
    BY DEF OnDemandInv
<1>2. Covered(o)
  <2>1. CASE o \in Shows
    <3>1. o \in DOMAIN shows
      <4>1. ~Exists(o)
          BY <1>1, <2>1, IdAssumption DEF CatalogTypes, SeasonRows, Exists
      <4> QED BY <4>1 DEF Stands
    <3> QED BY <1>1, <2>1, <3>1, CountsAreNumbers DEF CountOf, OnDemandInv, ShowsCounted
  <2>2. CASE o \notin Shows
    <3>1. Exists(o)
        BY <1>1, <2>2 DEF Stands, CatalogTypes
    <3>2. Season(o) \in seasons /\ Season(o).id = o
        BY <1>1, <3>1, SeasonFound
    <3> QED BY <1>1, <2>2, <3>2, CountsAreNumbers DEF CountOf, OnDemandInv, SeasonsCounted
  <2> QED BY <2>1, <2>2
<1>3. ASSUME NEW a \in Admins, Obliged(admin[a], o)
      PROVE  \E i \in DOMAIN admin[a].todo : admin[a].todo[i] = o
  <2>1. CASE admin[a].pc = "insertEpisode"
    <3>1. o = admin[a].show /\ admin[a].todo = <<admin[a].season, admin[a].show>>
        BY <1>3, <2>1 DEF Obliged, OnDemandInv, EditTypes, Prepared
    <3>2. admin[a].todo \in Seq(Objects)
        BY DEF OnDemandInv, EditTypes, Editing
    <3>3. Len(admin[a].todo) = 2 /\ admin[a].todo[2] = o
        BY <3>1
    <3>4. 2 \in DOMAIN admin[a].todo
        BY <3>2, <3>3
    <3> QED BY <3>3, <3>4
  <2>2. CASE admin[a].pc # "insertEpisode"
      BY <1>3, <2>2 DEF Obliged
  <2> QED BY <2>1, <2>2
<1> QED BY <1>2, <1>3 DEF Covered

\* The counts of shows and seasons say what the catalog holds, for any shows, ids,
\* requests, edits and failures, but for doubts and counts under way
\* (ondemand_crud.go).
THEOREM CountsAreTrue == OnDemandSpec => []CountsTrue
<1>1. OnDemandSpec => []OnDemandInv
    BY OnDemandInitInv, OnDemandNextInv, PTL DEF OnDemandSpec
<1> QED BY <1>1, OnDemandInvCounts, PTL

----------------------------------------------------------------------------
(* Videos and collections *)

\* Bunny's webhooks, a request's steps, and a request.
Hooks == {"resolution", "finished", "failed"}
CreatorSteps == {"new", "show", "list", "create", "link", "assign", "insert", "done", "failed"}
Creating == [pc : CreatorSteps, processing : BOOLEAN, named : BOOLEAN, guid : Nat]

\* The types, with what bounds the collections.
BunnyTypes ==
  /\ video \in [Creators -> {"transcoding", "finished", "failed"}]
  /\ event \in [Creators -> SUBSET Hooks]
  /\ hook \subseteq Creators \X Hooks /\ \A h \in hook : h[2] \in event[h[1]]
  /\ creator \in [Creators -> Creating]
  /\ episode \in [Creators -> {"none", "processing", "ready"}]
  /\ collections \in Nat /\ linked \in 0..collections
  /\ assigned \in [Creators -> Nat]
  /\ \A c \in Creators : creator[c].guid <= collections /\ assigned[c] <= collections
  /\ missed \subseteq Creators /\ clashed \in BOOLEAN /\ bunnyFaults \in 0..MaxBunnyFaults

\* A request that has not asked for a collection may still make one.
MayMake == {c \in Creators : creator[c].pc \in {"new", "show", "list", "create"}}
CollectionsBounded == collections + Cardinality(MayMake) <= Cardinality(Creators)

\* An episode that is, or will be, written as processing gets its last webhook
\* after the row, or is counted as missed, or it is of a failure and the row lacks
\* the guid.
Delivered(c) ==
  /\ creator[c].pc = "new" => ~creator[c].processing
  /\ creator[c].pc \notin {"done", "failed"} => episode[c] = "none"
  /\ episode[c] = "processing" => creator[c].processing
  /\ (/\ video[c] # "transcoding" /\ event[c] \subseteq {"resolution"}
      /\ creator[c].processing /\ episode[c] # "ready")
       => c \in missed \/ (video[c] = "failed" /\ ~creator[c].named)
  /\ "failed" \in event[c] => video[c] = "failed"

\* Only one request makes the collection, and every other finds it.
Collected(c) ==
  /\ creator[c].pc = "create" => collections = 0 /\ ~OthersCreate(c)
  /\ creator[c].pc \in {"link", "assign"} => creator[c].guid = 1
  /\ creator[c].pc \in {"assign", "insert", "done"} => linked = 1
  /\ creator[c].pc \in {"insert", "done"} /\ creator[c].named => assigned[c] = 1
AllCollected ==
  clashed \/ bunnyFaults > 0 \/ (collections <= 1 /\ \A c \in Creators : Collected(c))

\* The inductive invariant of videos and collections.
BunnyInv ==
  /\ BunnyTypes /\ CollectionsBounded /\ AllCollected
  /\ \A c \in Creators : Delivered(c)

\* It holds before any request.
LEMMA BunnyInitInv == BunnyInit => BunnyInv
<1> SUFFICES ASSUME BunnyInit PROVE BunnyInv
    OBVIOUS
<1>1. BunnyTypes
  <2> DEFINE fresh == [pc |-> "new", processing |-> FALSE, named |-> FALSE, guid |-> 0]
  <2>1. fresh \in Creating /\ fresh.guid = 0
      BY DEF Creating, CreatorSteps
  <2>2. creator \in [Creators -> Creating] /\ \A c \in Creators : creator[c].guid = 0
      BY <2>1 DEF BunnyInit
  <2>3. 0 \in 0..MaxBunnyFaults
      BY BunnyAssumption
  <2>4. video \in [Creators -> {"transcoding", "finished", "failed"}] /\ event \in [Creators -> SUBSET Hooks]
        /\ episode \in [Creators -> {"none", "processing", "ready"}] /\ assigned \in [Creators -> Nat]
        /\ \A c \in Creators : assigned[c] = 0
      BY DEF BunnyInit
  <2>5. /\ hook = {} /\ collections = 0 /\ linked = 0 /\ missed = {} /\ clashed = FALSE
        /\ bunnyFaults = 0
      BY DEF BunnyInit
  <2>6. \A c \in Creators : creator[c].guid <= collections /\ assigned[c] <= collections
      BY <2>2, <2>4, <2>5
  <2>7. hook \subseteq Creators \X Hooks /\ \A h \in hook : h[2] \in event[h[1]]
      BY <2>5
  <2>8. collections \in Nat /\ linked \in 0..collections /\ missed \subseteq Creators
        /\ bunnyFaults \in 0..MaxBunnyFaults
      BY <2>3, <2>5
  <2>9. clashed \in BOOLEAN
      BY <2>5
  <2> QED BY <2>2, <2>4, <2>6, <2>7, <2>8, <2>9 DEF BunnyTypes
<1>2. MayMake = Creators
    BY DEF BunnyInit, MayMake
<1>3. CollectionsBounded
    BY <1>2, BunnyAssumption, FS_CardinalityType DEF BunnyInit, CollectionsBounded
<1>4. AllCollected
    BY DEF BunnyInit, AllCollected, Collected
<1>5. \A c \in Creators : Delivered(c)
    BY DEF BunnyInit, Delivered
<1> QED BY <1>1, <1>3, <1>4, <1>5 DEF BunnyInv

\* A request never comes back to the steps before "link", and leaves one when it
\* makes a collection.
LEMMA MayMakeShrinks ==
  ASSUME BunnyInv, BunnyTypes', NEW c \in Creators, NEW q \in Creating,
         creator' = [creator EXCEPT ![c] = q],
         q.pc \in {"new", "show", "list", "create"} => c \in MayMake,
         \/ collections' = collections
         \/ /\ collections' = collections + 1 /\ c \in MayMake
            /\ q.pc \notin {"new", "show", "list", "create"}
  PROVE  CollectionsBounded'
<1>1. BunnyTypes /\ CollectionsBounded
    BY DEF BunnyInv
<1>2. IsFiniteSet(MayMake)
    BY BunnyAssumption, FS_Subset DEF MayMake
<1>3. MayMake' = MayMake \/ (MayMake' = MayMake \ {c} /\ c \in MayMake)
    BY <1>1 DEF BunnyTypes, MayMake
<1>4. Cardinality(Creators) \in Nat /\ Cardinality(MayMake) \in Nat
    BY <1>2, BunnyAssumption, FS_CardinalityType
<1>5. c \in MayMake => Cardinality(MayMake \ {c}) = Cardinality(MayMake) - 1
    BY <1>2, FS_RemoveElement
<1>6. c \in MayMake /\ q.pc \notin {"new", "show", "list", "create"} => MayMake' = MayMake \ {c}
    BY <1>1 DEF BunnyTypes, MayMake
<1>7. collections \in Nat
    BY <1>1 DEF BunnyTypes
<1> QED BY <1>1, <1>3, <1>4, <1>5, <1>6, <1>7 DEF CollectionsBounded

\* A step of a request: what it writes for the show and its collection, and the
\* step it goes to.
LEMMA CreatorKeeps ==
  ASSUME BunnyInv, NEW c \in Creators, NEW q \in Creating,
         creator' = [creator EXCEPT ![c] = q],
         q.pc \in {"new", "show", "list", "create"} => c \in MayMake,
         \/ collections' = collections
         \/ /\ collections' = collections + 1 /\ c \in MayMake
            /\ q.pc \notin {"new", "show", "list", "create"},
         q.guid <= collections', linked' \in 0..collections',
         assigned' = assigned \/ assigned' = [assigned EXCEPT ![c] = q.guid],
         clashed' \in BOOLEAN, episode' \in [Creators -> {"none", "processing", "ready"}],
         UNCHANGED <<video, event, hook, missed>>,
         NoBunnyFault \/ BunnyFault, AllCollected',
         \A d \in Creators : Delivered(d)'
  PROVE  BunnyInv'
<1>1. BunnyTypes
    BY DEF BunnyInv
<1>2. bunnyFaults' \in 0..MaxBunnyFaults
    BY <1>1, BunnyAssumption DEF BunnyTypes, NoBunnyFault, BunnyFault
<1>3. collections' \in Nat /\ collections' >= collections
    BY <1>1 DEF BunnyTypes
<1>4. assigned' \in [Creators -> Nat] /\ \A d \in Creators : assigned'[d] <= collections'
    BY <1>1, <1>3 DEF BunnyTypes, Creating
<1>5. creator' \in [Creators -> Creating] /\ \A d \in Creators : creator'[d].guid <= collections'
    BY <1>1, <1>3 DEF BunnyTypes, Creating
<1>6. BunnyTypes'
    BY <1>1, <1>2, <1>3, <1>4, <1>5 DEF BunnyTypes
<1>7. CollectionsBounded'
    BY <1>6, MayMakeShrinks
<1> QED BY <1>6, <1>7 DEF BunnyInv

\* Every step keeps it.
LEMMA BunnyNextInv == BunnyInv /\ [BunnyNext]_bunnyVars => BunnyInv'
<1> SUFFICES ASSUME BunnyInv, [BunnyNext]_bunnyVars PROVE BunnyInv'
    OBVIOUS
<1>0. BunnyTypes /\ CollectionsBounded /\ AllCollected /\ \A c \in Creators : Delivered(c)
    BY DEF BunnyInv
<1>f. BunnyFault => bunnyFaults' > 0
    BY <1>0, BunnyAssumption DEF BunnyFault, BunnyTypes
<1>c. \A c \in Creators : creator[c] \in Creating
    BY <1>0 DEF BunnyTypes
<1>1. CASE UNCHANGED bunnyVars
    BY <1>0, <1>1 DEF bunnyVars, BunnyInv, BunnyTypes, CollectionsBounded, MayMake, AllCollected,
       Collected, OthersCreate, Delivered
\* A request's step that touches no row keeps what is delivered, if it keeps the
\* flag, and the request is past its first step.
<1>d. ASSUME NEW c \in Creators, NEW q \in Creating, creator' = [creator EXCEPT ![c] = q],
             q.processing = creator[c].processing, q.named = creator[c].named, q.pc # "new",
             creator[c].pc \in {"new", "show", "list", "create", "link", "assign"},
             UNCHANGED <<video, event, missed, episode>>
      PROVE  /\ \A d \in Creators : Delivered(d)'
             /\ episode' \in [Creators -> {"none", "processing", "ready"}]
    BY <1>0, <1>d DEF BunnyTypes, Delivered
\* A request's step that touches nothing of the collection.
<1>e. ASSUME NEW c \in Creators, NEW q \in Creating, creator' = [creator EXCEPT ![c] = q],
             q.pc \in {"show", "list", "failed"},
             collections' = collections, linked' = linked, assigned' = assigned, clashed' = clashed,
             NoBunnyFault \/ BunnyFault
      PROVE  AllCollected'
    BY <1>0, <1>f, <1>e DEF BunnyTypes, AllCollected, Collected, OthersCreate, NoBunnyFault
<1>2. ASSUME NEW c \in Creators, FetchVideo(c) \/ \E named \in BOOLEAN : TakeUrl(c, named) PROVE BunnyInv'
  <2>0. PICK named \in BOOLEAN : Begun(c, named)
      BY <1>2 DEF FetchVideo, TakeUrl
  <2>1. PICK q : q = [creator[c] EXCEPT !.pc = "show", !.named = named,
                                        !.processing = video[c] = "transcoding"]
      OBVIOUS
  <2>2. creator' = [creator EXCEPT ![c] = q]
      BY <1>0, <2>0, <2>1 DEF Begun, BunnyTypes
  <2>3. q \in Creating /\ q.pc = "show" /\ q.processing = (video[c] = "transcoding") /\ q.guid = creator[c].guid
      BY <1>c, <2>1 DEF Creating, CreatorSteps
  <2>4. UNCHANGED <<video, event, hook, missed, collections, linked, assigned, clashed, episode>>
        /\ NoBunnyFault /\ c \in MayMake
      BY <1>2 DEF FetchVideo, TakeUrl, bunnyWorld, showVars, MayMake, AtStep
  <2>5. \A d \in Creators : Delivered(d)'
    <3> SUFFICES ASSUME NEW d \in Creators PROVE Delivered(d)'
        OBVIOUS
    <3>1. Delivered(d) /\ creator'[d] = IF d = c THEN q ELSE creator[d]
        BY <1>0, <2>2 DEF BunnyTypes
    <3>2. CASE d = c
      <4>1. creator[c].pc = "new"
          BY <1>2 DEF FetchVideo, TakeUrl, AtStep
      <4> QED BY <2>3, <2>4, <3>1, <3>2, <4>1 DEF Delivered
    <3>3. CASE d # c
        BY <2>4, <3>1, <3>3 DEF Delivered
    <3> QED BY <3>2, <3>3
  <2>6. AllCollected'
      BY <1>e, <2>2, <2>3, <2>4
  <2> QED BY <1>0, <2>2, <2>3, <2>4, <2>5, <2>6, CreatorKeeps DEF BunnyTypes
<1>3. ASSUME NEW c \in Creators, FetchVideoFails(c) PROVE BunnyInv'
  <2>1. PICK q : q = [creator[c] EXCEPT !.pc = "failed"]
      OBVIOUS
  <2>2. creator' = [creator EXCEPT ![c] = q]
      BY <1>0, <1>3, <2>1 DEF FetchVideoFails, GoToStep, BunnyTypes
  <2>3. q \in Creating /\ q.pc = "failed" /\ q.processing = creator[c].processing /\ q.guid = creator[c].guid /\ q.named = creator[c].named
      BY <1>c, <2>1 DEF Creating, CreatorSteps
  <2>4. UNCHANGED <<video, event, hook, missed, collections, linked, assigned, clashed, episode>>
        /\ BunnyFault
      BY <1>3 DEF FetchVideoFails, bunnyWorld, showVars
  <2>5. \A d \in Creators : Delivered(d)'
      BY <1>3, <1>d, <2>2, <2>3, <2>4 DEF FetchVideoFails, AtStep
  <2>6. AllCollected'
      BY <1>e, <2>2, <2>3, <2>4
  <2> QED BY <1>0, <2>2, <2>3, <2>4, <2>5, <2>6, CreatorKeeps DEF BunnyTypes
<1>4. ASSUME NEW c \in Creators, ReadShow(c) PROVE BunnyInv'
  <2>a. AtStep(c, "show") /\ UNCHANGED <<video, event, hook, missed, collections, linked, assigned, clashed, episode>>
      BY <1>4 DEF ReadShow, bunnyWorld, showVars
  <2>b. c \in MayMake
      BY <2>a DEF MayMake, AtStep
  <2>1. CASE creator' = [creator EXCEPT ![c].pc = IF linked = 0 THEN "list" ELSE Assigning(c),
                                      ![c].guid = linked] /\ NoBunnyFault
    <3>0. PICK step \in CreatorSteps : step = IF linked = 0 THEN "list" ELSE Assigning(c)
        BY DEF CreatorSteps, Assigning
    <3>1. PICK q : q = [creator[c] EXCEPT !.pc = step, !.guid = linked]
        OBVIOUS
    <3>2. creator' = [creator EXCEPT ![c] = q]
        BY <1>0, <2>1, <3>0, <3>1 DEF BunnyTypes
    <3>a. q \in Creating /\ q.pc = step /\ q.guid = linked /\ q.processing = creator[c].processing /\ q.named = creator[c].named
      <4>1. linked \in Nat
          BY <1>0 DEF BunnyTypes
      <4> QED BY <1>c, <3>0, <3>1, <4>1 DEF Creating
    <3>3. q \in Creating /\ q.pc = (IF linked = 0 THEN "list" ELSE Assigning(c)) /\ q.guid = linked
          /\ q.processing = creator[c].processing /\ q.named = creator[c].named
        BY <3>0, <3>a
    <3>4. \A d \in Creators : Delivered(d)'
        BY <1>d, <2>a, <3>2, <3>3 DEF AtStep, Assigning
    <3>5. AllCollected'
      <4>1. SUFFICES ASSUME ~clashed, bunnyFaults = 0 PROVE collections <= 1 /\ \A d \in Creators : Collected(d)'
          BY <1>0, <2>1, <2>a DEF AllCollected, NoBunnyFault, BunnyTypes
      <4>2. collections <= 1 /\ \A d \in Creators : Collected(d)
          BY <1>0, <4>1 DEF AllCollected
      <4>3. linked = 0 \/ linked = 1
          BY <1>0, <4>2 DEF BunnyTypes
      <4>4. creator'[c] = q /\ \A d \in Creators \ {c} : creator'[d] = creator[d]
          BY <1>0, <3>2 DEF BunnyTypes
      <4>5. Collected(c)'
          BY <2>a, <3>3, <4>3, <4>4 DEF Collected, Assigning
      <4>6. ASSUME NEW d \in Creators \ {c} PROVE Collected(d)'
          BY <2>a, <3>3, <4>2, <4>4 DEF Collected, OthersCreate, Assigning
      <4> QED BY <4>2, <4>5, <4>6
    <3>6. q.guid <= collections' /\ linked' \in 0..collections' /\ clashed' \in BOOLEAN
          /\ episode' \in [Creators -> {"none", "processing", "ready"}]
        BY <1>0, <2>a, <3>3 DEF BunnyTypes
    <3> QED BY <2>a, <2>b, <2>1, <3>2, <3>3, <3>4, <3>5, <3>6, CreatorKeeps
  <2>2. CASE GoToStep(c, "insert") /\ BunnyFault
    <3>1. PICK q : q = [creator[c] EXCEPT !.pc = "insert"]
        OBVIOUS
    <3>2. creator' = [creator EXCEPT ![c] = q]
        BY <1>0, <2>2, <3>1 DEF GoToStep, BunnyTypes
    <3>3. q \in Creating /\ q.pc = "insert" /\ q.guid = creator[c].guid /\ q.processing = creator[c].processing /\ q.named = creator[c].named
        BY <1>c, <3>1 DEF Creating, CreatorSteps
    <3>4. \A d \in Creators : Delivered(d)'
        BY <1>d, <2>a, <3>2, <3>3 DEF AtStep
    <3>5. AllCollected'
        BY <1>f, <2>2 DEF AllCollected
    <3> QED BY <1>0, <2>a, <2>2, <3>2, <3>3, <3>4, <3>5, CreatorKeeps DEF BunnyTypes
  <2> QED BY <1>4, <2>1, <2>2 DEF ReadShow
<1>5. ASSUME NEW c \in Creators, ListCollections(c) PROVE BunnyInv'
  <2>a. AtStep(c, "list") /\ UNCHANGED <<video, event, hook, missed, collections, linked, assigned, episode>>
      BY <1>5 DEF ListCollections, bunnyWorld
  <2>b. c \in MayMake
      BY <2>a DEF MayMake, AtStep
  <2>1. CASE /\ creator' = [creator EXCEPT ![c].pc = IF collections = 0 THEN "create" ELSE "link",
                                      ![c].guid = IF collections = 0 THEN 0 ELSE 1]
             /\ clashed' = (clashed \/ OthersCreate(c))
             /\ NoBunnyFault
    <3>0. PICK step \in CreatorSteps, g \in {0, 1} :
            /\ step = IF collections = 0 THEN "create" ELSE "link"
            /\ g = IF collections = 0 THEN 0 ELSE 1
        BY DEF CreatorSteps
    <3>1. PICK q : q = [creator[c] EXCEPT !.pc = step, !.guid = g]
        OBVIOUS
    <3>2. creator' = [creator EXCEPT ![c] = q]
        BY <1>0, <2>1, <3>0, <3>1 DEF BunnyTypes
    <3>a. q \in Creating /\ q.pc = step /\ q.guid = g /\ q.processing = creator[c].processing /\ q.named = creator[c].named
        BY <1>c, <3>0, <3>1 DEF Creating
    <3>3. q \in Creating /\ q.pc = (IF collections = 0 THEN "create" ELSE "link")
          /\ q.guid = (IF collections = 0 THEN 0 ELSE 1) /\ q.processing = creator[c].processing /\ q.named = creator[c].named
        BY <3>0, <3>a
    <3>4. \A d \in Creators : Delivered(d)'
        BY <1>d, <2>a, <3>2, <3>3 DEF AtStep
    <3>5. AllCollected'
      <4>1. SUFFICES ASSUME ~clashed, ~OthersCreate(c), bunnyFaults = 0
                     PROVE collections <= 1 /\ \A d \in Creators : Collected(d)'
        <5>1. clashed' = (clashed \/ OthersCreate(c))
            BY <2>1
        <5>2. bunnyFaults' = bunnyFaults /\ collections' = collections /\ bunnyFaults \in Nat
            BY <1>0, <2>1, <2>a, BunnyAssumption DEF NoBunnyFault, BunnyTypes
        <5>3. bunnyFaults # 0 => bunnyFaults' > 0
            BY <5>2
        <5> QED BY <5>1, <5>2, <5>3, Zenon DEF AllCollected
      <4>2. collections <= 1 /\ \A d \in Creators : Collected(d)
          BY <1>0, <4>1 DEF AllCollected
      <4>3. creator'[c] = q /\ \A d \in Creators \ {c} : creator'[d] = creator[d]
          BY <1>0, <3>2 DEF BunnyTypes
      <4>4. Collected(c)'
          BY <2>a, <3>3, <4>1, <4>3 DEF Collected, OthersCreate
      <4>5. ASSUME NEW d \in Creators \ {c} PROVE Collected(d)'
          BY <2>a, <3>3, <4>1, <4>2, <4>3 DEF Collected, OthersCreate
      <4> QED BY <4>2, <4>4, <4>5
    <3>6. q.guid <= collections' /\ linked' \in 0..collections' /\ clashed' \in BOOLEAN
          /\ episode' \in [Creators -> {"none", "processing", "ready"}]
        BY <1>0, <2>1, <2>a, <3>3 DEF BunnyTypes, OthersCreate
    <3> QED BY <2>a, <2>b, <2>1, <3>2, <3>3, <3>4, <3>5, <3>6, CreatorKeeps
  <2>2. CASE GoToStep(c, "create") /\ clashed' = TRUE /\ BunnyFault
    <3>1. PICK q : q = [creator[c] EXCEPT !.pc = "create"]
        OBVIOUS
    <3>2. creator' = [creator EXCEPT ![c] = q]
        BY <1>0, <2>2, <3>1 DEF GoToStep, BunnyTypes
    <3>3. q \in Creating /\ q.pc = "create" /\ q.guid = creator[c].guid /\ q.processing = creator[c].processing /\ q.named = creator[c].named
        BY <1>c, <3>1 DEF Creating, CreatorSteps
    <3>4. \A d \in Creators : Delivered(d)'
        BY <1>d, <2>a, <3>2, <3>3 DEF AtStep
    <3>5. AllCollected'
        BY <1>f, <2>2 DEF AllCollected
    <3> QED BY <1>0, <2>a, <2>b, <2>2, <3>2, <3>3, <3>4, <3>5, CreatorKeeps DEF BunnyTypes
  <2> QED BY <1>5, <2>1, <2>2 DEF ListCollections
<1>6. ASSUME NEW c \in Creators, CreateCollection(c) PROVE BunnyInv'
  <2>a. AtStep(c, "create") /\ UNCHANGED <<video, event, hook, missed, linked, assigned, clashed, episode>>
      BY <1>6 DEF CreateCollection, bunnyWorld
  <2>b. c \in MayMake
      BY <2>a DEF MayMake, AtStep
  <2>1. CASE /\ collections' = collections + 1
             /\ creator' = [creator EXCEPT ![c].pc = "link", ![c].guid = collections + 1]
             /\ NoBunnyFault
    <3>1. PICK q : q = [creator[c] EXCEPT !.pc = "link", !.guid = collections + 1]
        OBVIOUS
    <3>2. creator' = [creator EXCEPT ![c] = q]
        BY <1>0, <2>1, <3>1 DEF BunnyTypes
    <3>a. collections + 1 \in Nat /\ "link" \in CreatorSteps
        BY <1>0 DEF CreatorSteps, BunnyTypes
    <3>3. q \in Creating /\ q.pc = "link" /\ q.guid = collections + 1 /\ q.processing = creator[c].processing /\ q.named = creator[c].named
        BY <1>c, <3>a, <3>1 DEF Creating
    <3>4. \A d \in Creators : Delivered(d)'
        BY <1>d, <2>a, <3>2, <3>3 DEF AtStep
    <3>5. AllCollected'
      <4>1. SUFFICES ASSUME ~clashed, bunnyFaults = 0
                     PROVE collections' <= 1 /\ \A d \in Creators : Collected(d)'
          BY <1>0, <2>1, <2>a DEF AllCollected, NoBunnyFault, BunnyTypes
      <4>2. collections = 0 /\ ~OthersCreate(c) /\ \A d \in Creators : Collected(d)
          BY <1>0, <2>a, <4>1 DEF AllCollected, Collected, AtStep
      <4>3. creator'[c] = q /\ \A d \in Creators \ {c} : creator'[d] = creator[d]
          BY <1>0, <3>2 DEF BunnyTypes
      <4>4. Collected(c)'
          BY <2>a, <3>3, <4>2, <4>3 DEF Collected, OthersCreate
      <4>5. ASSUME NEW d \in Creators \ {c} PROVE Collected(d)'
          BY <2>a, <3>3, <4>2, <4>3 DEF Collected, OthersCreate
      <4> QED BY <2>1, <4>2, <4>4, <4>5
    <3>6. linked' \in 0..collections' /\ q.guid <= collections'
        BY <1>0, <2>a, <2>1, <3>3 DEF BunnyTypes
    <3> QED BY <1>0, <2>a, <2>b, <2>1, <3>2, <3>3, <3>4, <3>5, <3>6, CreatorKeeps DEF BunnyTypes
  <2>2. CASE collections' \in {collections, collections + 1} /\ GoToStep(c, "insert") /\ BunnyFault
    <3>1. PICK q : q = [creator[c] EXCEPT !.pc = "insert"]
        OBVIOUS
    <3>2. creator' = [creator EXCEPT ![c] = q]
        BY <1>0, <2>2, <3>1 DEF GoToStep, BunnyTypes
    <3>3. q \in Creating /\ q.pc = "insert" /\ q.guid = creator[c].guid /\ q.processing = creator[c].processing /\ q.named = creator[c].named
        BY <1>c, <3>1 DEF Creating, CreatorSteps
    <3>4. \A d \in Creators : Delivered(d)'
        BY <1>d, <2>a, <3>2, <3>3 DEF AtStep
    <3>5. AllCollected'
        BY <1>f, <2>2 DEF AllCollected
    <3>6. linked' \in 0..collections' /\ q.guid <= collections'
        BY <1>0, <1>c, <2>a, <2>2, <3>3 DEF BunnyTypes, Creating
    <3> QED BY <1>0, <2>a, <2>b, <2>2, <3>2, <3>3, <3>4, <3>5, <3>6, CreatorKeeps DEF BunnyTypes
  <2> QED BY <1>6, <2>1, <2>2 DEF CreateCollection
<1>7. ASSUME NEW c \in Creators, LinkShow(c) PROVE BunnyInv'
  <2>a. /\ AtStep(c, "link")
        /\ UNCHANGED <<video, event, hook, missed, collections, assigned, clashed, episode>>
        /\ \/ linked' = creator[c].guid /\ NoBunnyFault
           \/ linked' = linked /\ BunnyFault
      BY <1>7 DEF LinkShow, bunnyWorld
  <2>0. PICK step \in CreatorSteps : step = Assigning(c)
      BY DEF CreatorSteps, Assigning
  <2>1. PICK q : q = [creator[c] EXCEPT !.pc = step]
      OBVIOUS
  <2>2. creator' = [creator EXCEPT ![c] = q]
      BY <1>0, <1>7, <2>0, <2>1 DEF LinkShow, GoToStep, BunnyTypes
  <2>b. q \in Creating /\ q.pc = step /\ q.guid = creator[c].guid /\ q.processing = creator[c].processing /\ q.named = creator[c].named
      BY <1>c, <2>1 DEF Creating
  <2>3. /\ q \in Creating /\ q.pc = (IF creator[c].named THEN "assign" ELSE "insert")
        /\ q.guid = creator[c].guid /\ q.processing = creator[c].processing /\ q.named = creator[c].named
      BY <2>0, <2>b DEF Assigning
  <2>4. \A d \in Creators : Delivered(d)'
      BY <1>d, <2>a, <2>2, <2>3 DEF AtStep
  <2>5. linked' \in 0..collections' /\ q.guid <= collections'
      BY <1>0, <1>c, <2>a, <2>3 DEF BunnyTypes, Creating
  <2>6. AllCollected'
    <3>1. SUFFICES ASSUME ~clashed, bunnyFaults = 0, linked' = creator[c].guid
                   PROVE collections <= 1 /\ \A d \in Creators : Collected(d)'
        BY <1>0, <1>f, <2>a DEF AllCollected, NoBunnyFault, BunnyTypes
    <3>2. collections <= 1 /\ \A d \in Creators : Collected(d)
        BY <1>0, <3>1 DEF AllCollected
    <3>3. creator[c].guid = 1
        BY <2>a, <3>2 DEF Collected, AtStep
    <3> QED BY <1>0, <2>a, <2>2, <2>3, <3>1, <3>2, <3>3 DEF BunnyTypes, Collected, OthersCreate
  <2> QED BY <1>0, <2>a, <2>2, <2>3, <2>4, <2>5, <2>6, CreatorKeeps DEF BunnyTypes
<1>8. ASSUME NEW c \in Creators, AssignVideo(c) PROVE BunnyInv'
  <2>a. /\ AtStep(c, "assign")
        /\ UNCHANGED <<video, event, hook, missed, collections, linked, clashed, episode>>
        /\ \/ assigned' = [assigned EXCEPT ![c] = creator[c].guid] /\ NoBunnyFault
           \/ assigned' = assigned /\ BunnyFault
      BY <1>8 DEF AssignVideo, bunnyWorld
  <2>1. PICK q : q = [creator[c] EXCEPT !.pc = "insert"]
      OBVIOUS
  <2>2. creator' = [creator EXCEPT ![c] = q]
      BY <1>0, <1>8, <2>1 DEF AssignVideo, GoToStep, BunnyTypes
  <2>3. q \in Creating /\ q.pc = "insert" /\ q.guid = creator[c].guid /\ q.processing = creator[c].processing /\ q.named = creator[c].named
      BY <1>c, <2>1 DEF Creating, CreatorSteps
  <2>4. \A d \in Creators : Delivered(d)'
      BY <1>d, <2>a, <2>2, <2>3 DEF AtStep
  <2>6. AllCollected'
    <3>1. SUFFICES ASSUME ~clashed, bunnyFaults = 0, assigned' = [assigned EXCEPT ![c] = creator[c].guid]
                   PROVE collections <= 1 /\ \A d \in Creators : Collected(d)'
        BY <1>0, <1>f, <2>a DEF AllCollected, NoBunnyFault, BunnyTypes
    <3>2. collections <= 1 /\ \A d \in Creators : Collected(d)
        BY <1>0, <3>1 DEF AllCollected
    <3>3. creator[c].guid = 1 /\ linked = 1
        BY <2>a, <3>2 DEF Collected, AtStep
    <3> QED BY <1>0, <2>a, <2>2, <2>3, <3>1, <3>2, <3>3 DEF BunnyTypes, Collected, OthersCreate
  <2> QED BY <1>0, <2>a, <2>2, <2>3, <2>4, <2>6, CreatorKeeps DEF BunnyTypes
<1>9. ASSUME NEW c \in Creators, InsertBunnyEpisode(c) PROVE BunnyInv'
  <2>a. /\ AtStep(c, "insert")
        /\ UNCHANGED <<video, event, hook, missed, collections, linked, assigned, clashed>>
      BY <1>9 DEF InsertBunnyEpisode, bunnyWorld, showVars
  <2>0. PICK step \in {"done", "failed"} :
          /\ GoToStep(c, step)
          /\ \/ episode' = [episode EXCEPT ![c] = IF creator[c].processing THEN "processing" ELSE "ready"]
             \/ episode' = episode
          /\ (step = "done" /\ NoBunnyFault) \/ BunnyFault
      BY <1>9 DEF InsertBunnyEpisode
  <2>1. PICK q : q = [creator[c] EXCEPT !.pc = step]
      OBVIOUS
  <2>2. creator' = [creator EXCEPT ![c] = q]
      BY <1>0, <2>0, <2>1 DEF GoToStep, BunnyTypes
  <2>3. q \in Creating /\ q.pc = step /\ q.guid = creator[c].guid /\ q.processing = creator[c].processing /\ q.named = creator[c].named
      BY <1>c, <2>1 DEF Creating, CreatorSteps
  <2>4. \A d \in Creators : Delivered(d)'
    <3> SUFFICES ASSUME NEW d \in Creators PROVE Delivered(d)'
        OBVIOUS
    <3>1. Delivered(d) /\ Delivered(c) /\ creator[c].pc = "insert"
        BY <1>0, <2>a DEF AtStep
    <3>2. /\ creator'[d].processing = creator[d].processing
          /\ creator'[d].named = creator[d].named
          /\ d # c => creator'[d] = creator[d] /\ episode'[d] = episode[d]
          /\ creator'[c].pc \in {"done", "failed"}
        BY <1>0, <2>0, <2>2, <2>3 DEF BunnyTypes
    <3>3. \/ episode'[c] = IF creator[c].processing THEN "processing" ELSE "ready"
          \/ episode'[c] = episode[c]
        BY <1>0, <2>0 DEF BunnyTypes
    <3>4. creator[c].processing \in BOOLEAN
        BY <1>c DEF Creating
    <3>5. UNCHANGED <<video, event, missed>>
        BY <2>a
    <3>6. CASE d # c
        BY <3>1, <3>2, <3>5, <3>6 DEF Delivered
    <3>7. CASE d = c
      <4>1. creator'[c].pc \in {"done", "failed"} /\ creator'[c].processing = creator[c].processing
          BY <3>2, <3>7
      <4>2. episode'[c] = "processing" => creator[c].processing
          BY <3>1, <3>3 DEF Delivered
      <4>3. creator[c].processing /\ episode'[c] # "ready" => episode[c] # "ready"
          BY <3>1 DEF Delivered
      <4>4. creator'[c].named = creator[c].named
          BY <3>2, <3>7
      <4> QED BY <3>1, <3>5, <3>7, <4>1, <4>2, <4>3, <4>4 DEF Delivered
    <3> QED BY <3>6, <3>7
  <2>5. episode' \in [Creators -> {"none", "processing", "ready"}]
      BY <1>0, <2>0 DEF BunnyTypes
  <2>6. AllCollected'
    <3>1. SUFFICES ASSUME ~clashed, bunnyFaults = 0, step = "done"
                   PROVE collections <= 1 /\ \A d \in Creators : Collected(d)'
        BY <1>0, <1>f, <2>0, <2>a DEF AllCollected, NoBunnyFault, BunnyTypes
    <3>2. collections <= 1 /\ \A d \in Creators : Collected(d)
        BY <1>0, <3>1 DEF AllCollected
    <3> QED BY <1>0, <2>a, <2>2, <2>3, <3>1, <3>2 DEF BunnyTypes, Collected, OthersCreate, AtStep
  <2> QED BY <1>0, <2>0, <2>a, <2>2, <2>3, <2>4, <2>5, <2>6, CreatorKeeps DEF BunnyTypes
\* Bunny's own steps and its webhooks touch neither a request nor a collection.
<1>g. ASSUME UNCHANGED <<creator, collections, linked, assigned, clashed>>,
             video' \in [Creators -> {"transcoding", "finished", "failed"}],
             event' \in [Creators -> SUBSET Hooks],
             hook' \subseteq Creators \X Hooks, \A h \in hook' : h[2] \in event'[h[1]],
             episode' \in [Creators -> {"none", "processing", "ready"}],
             missed' \subseteq Creators, NoBunnyFault \/ BunnyFault,
             \A d \in Creators : Delivered(d)'
      PROVE  BunnyInv'
  <2>1. bunnyFaults' \in 0..MaxBunnyFaults
      BY <1>0, <1>g, BunnyAssumption DEF BunnyTypes, NoBunnyFault, BunnyFault
  <2>2. BunnyTypes'
      BY <1>0, <1>g, <2>1 DEF BunnyTypes
  <2>3. CollectionsBounded'
      BY <1>0, <1>g DEF CollectionsBounded, MayMake
  <2>4. AllCollected'
      BY <1>0, <1>f, <1>g DEF AllCollected, Collected, OthersCreate, NoBunnyFault
  <2> QED BY <1>g, <2>2, <2>3, <2>4 DEF BunnyInv
<1>10. ASSUME NEW c \in Creators, NEW e \in Hooks, Transcode(c, e) PROVE BunnyInv'
  <2>1. /\ video' \in [Creators -> {"transcoding", "finished", "failed"}]
        /\ event' \in [Creators -> SUBSET Hooks]
        /\ \A d \in Creators : event[d] \subseteq event'[d]
      BY <1>0, <1>10 DEF Transcode, BunnyTypes, Hooks
  <2>2. \A h \in hook : h[2] \in event'[h[1]]
      BY <1>0, <2>1 DEF BunnyTypes
  <2>3. \A d \in Creators : Delivered(d)'
      BY <1>0, <1>10 DEF Transcode, BunnyTypes, Delivered, Hooks
  <2> QED BY <1>0, <1>10, <1>g, <2>1, <2>2, <2>3 DEF Transcode, BunnyTypes, showVars
<1>11. ASSUME NEW c \in Creators, NEW e \in Hooks, HookFetch(c, e) PROVE BunnyInv'
  <2>1. hook' \subseteq Creators \X Hooks /\ \A h \in hook' : h[2] \in event'[h[1]]
      BY <1>0, <1>11 DEF HookFetch, BunnyTypes
  <2>2. \A d \in Creators : Delivered(d)'
      BY <1>0, <1>11 DEF HookFetch, BunnyTypes, Delivered
  <2> QED BY <1>0, <1>11, <1>g, <2>1, <2>2 DEF HookFetch, BunnyTypes, showVars
\* The last webhook of a video is missed, or makes its row ready, or is of a
\* failure and the row lacks the guid.
<1>h. ASSUME NEW c \in Creators, NEW e \in Hooks, NEW gone \in BOOLEAN, HookDone(c, e, gone),
             UNCHANGED <<video, creator, collections, linked, assigned, clashed>>,
             NoBunnyFault \/ BunnyFault,
             \/ episode' = episode
             \/ episode[c] # "none" /\ episode' = [episode EXCEPT ![c] = "ready"],
             \/ gone
             \/ e = "resolution" /\ episode' = episode
             \/ creator[c].pc = "new"
             \/ episode' = [episode EXCEPT ![c] = "ready"]
             \/ e = "failed" /\ e \in event[c] /\ ~creator[c].named
      PROVE  BunnyInv'
  <2>1. event' \in [Creators -> SUBSET Hooks] /\ hook' \subseteq Creators \X Hooks
        /\ missed' \subseteq Creators
      BY <1>0, <1>h DEF HookDone, BunnyTypes
  <2>2. ASSUME NEW x \in hook' PROVE x[2] \in event'[x[1]]
    <3>1. x \in hook /\ x # <<c, e>> /\ x = <<x[1], x[2]>> /\ x[1] \in Creators
        BY <1>0, <1>h, <2>2 DEF HookDone, BunnyTypes
    <3>2. x[2] \in event[x[1]]
        BY <1>0, <3>1 DEF BunnyTypes
    <3> QED BY <1>0, <1>h, <3>1, <3>2 DEF HookDone, BunnyTypes
  <2>3. episode' \in [Creators -> {"none", "processing", "ready"}]
      BY <1>0, <1>h DEF BunnyTypes
  <2>4. ASSUME NEW d \in Creators PROVE Delivered(d)'
    <3>1. CASE d # c
        BY <1>0, <1>h, <3>1 DEF HookDone, BunnyTypes, Delivered
    <3>2. CASE d = c
      <4>1. event'[c] = event[c] \ {e} /\ Delivered(c)
          BY <1>0, <1>h DEF HookDone, BunnyTypes
      <4>2. CASE gone
          BY <1>0, <1>h, <3>2, <4>1, <4>2 DEF HookDone, BunnyTypes, Delivered
      <4>3. CASE ~gone
        <5>1. missed' = missed /\ video' = video /\ creator' = creator
            BY <1>h, <4>3 DEF HookDone
        <5>2. CASE e = "resolution" /\ episode' = episode
            BY <3>2, <4>1, <5>1, <5>2 DEF Delivered, Hooks
        <5>3. CASE creator[c].pc = "new"
            BY <1>0, <1>h, <3>2, <4>1, <5>1, <5>3 DEF Delivered, BunnyTypes
        <5>4. CASE episode' = [episode EXCEPT ![c] = "ready"] /\ creator[c].pc # "new"
            BY <1>0, <1>h, <3>2, <4>1, <5>1, <5>4 DEF Delivered, BunnyTypes
        <5>5. CASE e = "failed" /\ e \in event[c] /\ ~creator[c].named /\ episode' = episode
            BY <1>0, <3>2, <4>1, <5>1, <5>5 DEF Delivered, BunnyTypes, Hooks
        <5> QED BY <1>h, <4>3, <5>2, <5>3, <5>4, <5>5
      <4> QED BY <4>2, <4>3
    <3> QED BY <3>1, <3>2
  <2> QED BY <1>0, <1>g, <1>h, <2>1, <2>2, <2>3, <2>4 DEF BunnyTypes
<1>12. ASSUME NEW c \in Creators, NEW e \in Hooks, HookPatch(c, e) PROVE BunnyInv'
  <2>0. PICK gone \in BOOLEAN :
          /\ HookDone(c, e, gone) /\ UNCHANGED <<video, creator, collections, linked, assigned, clashed>>
          /\ \/ /\ episode' = [episode EXCEPT ![c] = IF @ = "none" THEN @ ELSE "ready"]
                /\ gone = (e # "resolution" /\ episode[c] = "none" /\ ~AtStep(c, "new")) /\ NoBunnyFault
             \/ episode' = episode /\ gone = TRUE /\ BunnyFault
      BY <1>12 DEF HookPatch, showVars
  <2>1. episode \in [Creators -> {"none", "processing", "ready"}]
      BY <1>0 DEF BunnyTypes
  <2>2. CASE episode[c] = "none"
    <3>1. episode' = episode
        BY <2>0, <2>1, <2>2
    <3> QED BY <1>h, <2>0, <2>2, <3>1 DEF AtStep
  <2>3. CASE episode[c] # "none"
      BY <1>h, <2>0, <2>3
  <2> QED BY <2>2, <2>3
<1>13. ASSUME NEW c \in Creators, HookFailed(c) PROVE BunnyInv'
  <2>0. PICK gone \in BOOLEAN :
          /\ HookDone(c, "failed", gone) /\ "failed" \in event[c]
          /\ UNCHANGED <<video, creator, collections, linked, assigned, clashed>>
          /\ \/ /\ episode' = [episode EXCEPT ![c] = IF @ = "none" \/ ~creator[c].named THEN @ ELSE "ready"]
                /\ gone = (episode[c] = "none" /\ ~AtStep(c, "new")) /\ NoBunnyFault
             \/ episode' = episode /\ gone = TRUE /\ BunnyFault
      BY <1>13 DEF HookFailed, showVars
  <2>1. episode \in [Creators -> {"none", "processing", "ready"}] /\ "failed" \in Hooks
      BY <1>0 DEF BunnyTypes, Hooks
  <2>2. CASE episode[c] = "none"
    <3>1. episode' = episode
        BY <2>0, <2>1, <2>2
    <3> QED BY <1>h, <2>0, <2>1, <2>2, <3>1 DEF AtStep
  <2>3. CASE episode[c] # "none" /\ creator[c].named
      BY <1>h, <2>0, <2>1, <2>3
  <2>4. CASE episode[c] # "none" /\ ~creator[c].named
    <3>1. episode' = episode
        BY <2>0, <2>1, <2>4
    <3> QED BY <1>h, <2>0, <2>1, <2>4, <3>1
  <2> QED BY <2>2, <2>3, <2>4
<1> QED BY <1>1, <1>2, <1>3, <1>4, <1>5, <1>6, <1>7, <1>8, <1>9, <1>10, <1>11, <1>12, <1>13
        DEF BunnyNext, Hooks

\* It gives the type invariant.
LEMMA BunnyInvTypes == BunnyInv => BunnyTypeOK
<1> SUFFICES ASSUME BunnyInv PROVE BunnyTypeOK
    OBVIOUS
<1>1. BunnyTypes /\ CollectionsBounded
    BY DEF BunnyInv
<1>2. IsFiniteSet(MayMake)
    BY BunnyAssumption, FS_Subset DEF MayMake
<1>3. collections \in 0..Cardinality(Creators)
    BY <1>1, <1>2, BunnyAssumption, FS_CardinalityType DEF BunnyTypes, CollectionsBounded
<1>4. /\ \A c \in Creators : creator[c] \in [pc : CreatorSteps, processing : BOOLEAN,
                                                named : BOOLEAN, guid : 0..collections]
      /\ \A c \in Creators : assigned[c] \in 0..collections
    BY <1>1 DEF BunnyTypes, Creating
<1>5. /\ creator \in [Creators -> [pc : CreatorSteps, processing : BOOLEAN,
                                                named : BOOLEAN, guid : 0..collections]]
      /\ assigned \in [Creators -> 0..collections]
    BY <1>1, <1>4 DEF BunnyTypes
<1> QED BY <1>1, <1>3, <1>5 DEF BunnyTypes, BunnyTypeOK, CreatorSteps, Hooks

\* And the two properties.
LEMMA BunnyInvTrue == BunnyInv => ReadyUnlessMissed /\ OneCollection
<1>1. BunnyInv => ReadyUnlessMissed
    BY DEF BunnyInv, ReadyUnlessMissed, Delivered
<1>2. BunnyInv => OneCollection
    BY DEF BunnyInv, BunnyTypes, AllCollected, Collected, OneCollection
<1> QED BY <1>1, <1>2

\* It holds in every reachable state.
LEMMA BunnyAlways == BunnySpec => []BunnyInv
  BY BunnyInitInv, BunnyNextInv, PTL DEF BunnySpec

\* Once Bunny is done with a video and has delivered its webhooks, the episode is
\* not processing, unless it is counted as missed, or the video failed and its row
\* has no guid (handleBunnyWebhook, handleCreateSfxEpisode).
THEOREM ReadyOrMissed == BunnySpec => []ReadyUnlessMissed
  BY BunnyInvTrue, BunnyAlways, PTL

\* A show has one collection and its videos are in it, if their guids were known,
\* for any number of requests that create its episodes (bunnyCreateCollection).
THEOREM CollectionsAreOne == BunnySpec => []OneCollection
  BY BunnyInvTrue, BunnyAlways, PTL

----------------------------------------------------------------------------
(* Radio tables *)

\* A run of a radio job.
Runs == [pc : {"idle", "check", "insert", "daily", "append"}, batch : SUBSET Song,
         figure : 0..MaxSongs, todo : SUBSET Appended]

\* The types.
RadioTypes ==
  /\ job \in {"history", "reports", "nowplaying", "listeners"}
  /\ songs \in 0..MaxSongs /\ radioFaults \in 0..MaxRadioFaults
  /\ pulled \subseteq Song /\ history \subseteq pulled /\ excused \subseteq pulled
  /\ daily \in 0..MaxSongs
  /\ newest \in [Appended -> 0..MaxSongs]
  /\ sync \in [RadioActors -> Runs]
  /\ spent \subseteq RadioRequests

\* What one run has in hand, in a behaviour about its job.
Batched(q) ==
  /\ q.batch \subseteq 1..songs
  /\ q.pc = "idle" => q.batch = {}
  /\ q.pc = "append" <=> q.todo # {}
  /\ q.pc \in {"check", "insert"} => job = "history" /\ q.batch \subseteq pulled
  /\ q.pc \in {"daily", "append"} => job # "history"

\* Nothing is pulled for the table of songs but by its own job.
PulledByHistory == job # "history" => pulled = {}

\* An insert that will be refused has its songs excused.
Forewarned ==
  \A a \in RadioActors :
    Syncing(a, "insert") /\ sync[a].batch \cap history # {} => sync[a].batch \subseteq excused

\* The inductive invariant of the radio jobs.
RadioInv ==
  /\ RadioTypes /\ \A a \in RadioActors : Batched(sync[a])
  /\ PulledByHistory /\ Forewarned /\ SongsKept

\* It holds before any run.
LEMMA RadioInitInv == RadioInit => RadioInv
<1> SUFFICES ASSUME RadioInit PROVE RadioInv
    OBVIOUS
<1> USE RadioAssumption
<1>1. Resting \in Runs /\ Batched(Resting)
    BY DEF Resting, Runs, Batched
<1>2. RadioTypes
  <2>1. 0 \in 0..MaxSongs /\ 0 \in 0..MaxRadioFaults
      OBVIOUS
  <2>2. newest \in [Appended -> 0..MaxSongs]
      BY <2>1 DEF RadioInit
  <2>3. sync \in [RadioActors -> Runs]
      BY <1>1 DEF RadioInit
  <2> QED BY <2>1, <2>2, <2>3 DEF RadioInit, RadioTypes
<1> QED BY <1>1, <1>2 DEF RadioInit, RadioInv, PulledByHistory, Forewarned, SongsKept, Syncing, Resting

\* Max of two numbers.
LEMMA Larger ==
  ASSUME NEW m \in Nat, NEW i \in 0..m, NEW j \in 0..m
  PROVE  Max({i, j}) \in 0..m
<1>1. \E x \in {i, j} : \A y \in {i, j} : x >= y
    OBVIOUS
<1>2. Max({i, j}) \in {i, j}
    BY <1>1 DEF Max
<1> QED BY <1>2

\* Every step keeps it.
LEMMA RadioNextInv == RadioInv /\ [RadioNext]_radioVars => RadioInv'
<1> SUFFICES ASSUME RadioInv, [RadioNext]_radioVars PROVE RadioInv'
    OBVIOUS
<1> USE RadioAssumption
<1>0. /\ RadioTypes /\ \A a \in RadioActors : Batched(sync[a])
      /\ PulledByHistory /\ Forewarned /\ SongsKept
    BY DEF RadioInv
<1>a. Resting \in Runs /\ Batched(Resting) /\ Batched(Resting)' /\ Resting.pc = "idle"
    BY DEF Resting, Runs, Batched
<1>1. CASE UNCHANGED radioVars
    BY <1>0, <1>1 DEF radioVars, RadioInv, RadioTypes, Batched, PulledByHistory, Forewarned, SongsKept, Syncing
<1>2. CASE PlaySong
    BY <1>0, <1>2 DEF PlaySong, radioTables, RadioInv, RadioTypes, Batched, PulledByHistory, Forewarned,
       SongsKept, Syncing
<1>3. ASSUME NEW a \in RadioActors, PullFromAzura(a) PROVE RadioInv'
  <2> DEFINE fresh == [pc |-> FirstStep, batch |-> Listed, figure |-> songs, todo |-> {job} \cap Appended]
  <2>1. PICK q \in {Resting, fresh} : sync' = [sync EXCEPT ![a] = q]
      BY <1>3 DEF PullFromAzura
  <2>2. /\ pulled' = IF job = "history" THEN pulled \cup Listed ELSE pulled
        /\ StartsRun(a)
        /\ UNCHANGED <<job, songs, history, daily, newest, excused, radioFaults>>
      BY <1>3 DEF PullFromAzura, radioTables
  <2>3. Listed \subseteq Song /\ Listed \subseteq 1..songs
      BY <1>0 DEF Listed, RadioTypes, Song
  <2>4. q = Resting => Listed = {} \/ job # "history"
    <3>1. Resting # fresh
        BY <1>0, <1>a DEF RadioTypes, FirstStep
    <3>2. ~(songs = 0 /\ job \in {"history", "listeners"}) => sync' = [sync EXCEPT ![a] = fresh]
        BY <1>3 DEF PullFromAzura
    <3>3. songs = 0 => Listed = {}
        BY DEF Listed, Song
    <3>4. sync'[a] = q /\ (~(songs = 0 /\ job \in {"history", "listeners"}) => sync'[a] = fresh)
        BY <1>0, <2>1, <3>2 DEF RadioTypes
    <3> QED BY <3>1, <3>3, <3>4
  <2>5. fresh \in Runs
      BY <1>0, <2>3 DEF RadioTypes, Runs, FirstStep
  <2> DEFINE Fits(p) == /\ p.batch \subseteq 1..songs
                        /\ p.pc = "idle" => p.batch = {}
                        /\ p.pc = "append" <=> p.todo # {}
                        /\ p.pc \in {"check", "insert"} => job = "history" /\ p.batch \subseteq pulled'
                        /\ p.pc \in {"daily", "append"} => job # "history"
  <2>6. Fits(fresh)
    <3>1. job = "history" => Listed \subseteq pulled'
        BY <2>2
    <3>2. /\ fresh.pc = FirstStep /\ fresh.batch = Listed /\ fresh.todo = {job} \cap Appended
          /\ FirstStep \in {"check", "daily", "append"}
          /\ FirstStep = "check" <=> job = "history"
          /\ FirstStep = "append" <=> job \in {"nowplaying", "listeners"}
        BY <1>0 DEF RadioTypes, FirstStep
    <3>3. FirstStep = "append" <=> {job} \cap Appended # {}
        BY <1>0, <3>2 DEF RadioTypes, Appended
    <3> QED BY <2>3, <3>1, <3>2, <3>3
  <2>7. fresh.pc # "insert" /\ fresh.batch = Listed
      BY <1>0 DEF RadioTypes, FirstStep
  <2>a. q = fresh \/ q = Resting
      BY <2>1
  <2>b. Fits(Resting)
      BY DEF Resting
  <2> HIDE DEF fresh
  <2>8. q \in Runs /\ Fits(q) /\ q.pc # "insert"
      BY <1>a, <2>a, <2>b, <2>5, <2>6, <2>7
  <2>9. RadioTypes'
      BY <1>0, <2>1, <2>2, <2>3, <2>8 DEF RadioTypes, StartsRun
  <2>10. \A b \in RadioActors : Batched(sync[b])'
    <3> SUFFICES ASSUME NEW b \in RadioActors PROVE Batched(sync[b])'
        OBVIOUS
    <3>1. CASE b = a
      <4>1. sync'[b] = q
          BY <1>0, <2>1, <3>1 DEF RadioTypes
      <4> QED BY <2>2, <2>8, <4>1 DEF Batched
    <3>2. CASE b # a
      <4>1. sync'[b] = sync[b] /\ Batched(sync[b])
          BY <1>0, <2>1, <3>2 DEF RadioTypes
      <4>2. pulled \subseteq pulled'
          BY <2>2
      <4> QED BY <2>2, <4>1, <4>2 DEF Batched
    <3> QED BY <3>1, <3>2
  <2>11. PulledByHistory' /\ Forewarned'
      BY <1>0, <2>1, <2>2, <2>8 DEF RadioTypes, PulledByHistory, Forewarned, Syncing
  <2>12. SongsKept'
    <3>1. sync[a].batch = {}
        BY <1>0, <2>2 DEF Batched, StartsRun, Syncing
    <3>2. sync'[a] = q /\ \A b \in RadioActors : b # a => sync'[b] = sync[b]
        BY <1>0, <2>1 DEF RadioTypes
    <3>3. \A s \in pulled' : s \in pulled \/ s \in q.batch
        BY <2>2, <2>4, <2>7, <2>a
    <3> QED BY <1>0, <2>2, <3>1, <3>2, <3>3 DEF SongsKept
  <2> QED BY <2>9, <2>10, <2>11, <2>12 DEF RadioInv
<1>4. ASSUME NEW a \in RadioActors, PullFails(a) PROVE RadioInv'
    BY <1>0, <1>4 DEF PullFails, StartsRun, RadioFault, radioTables, RadioInv, RadioTypes, Batched,
       PulledByHistory, Forewarned, SongsKept, Syncing
\* A step of a run that leaves history alone.
<1>b. ASSUME NEW a \in RadioActors, NEW q \in Runs, sync' = [sync EXCEPT ![a] = q],
             Batched(q), ~Syncing(a, "idle"), q.pc # "insert", job # "history",
             UNCHANGED <<job, songs, history, spent, pulled, excused>>,
             daily' \in 0..MaxSongs, newest' \in [Appended -> 0..MaxSongs],
             radioFaults' \in 0..MaxRadioFaults
      PROVE  RadioInv'
  <2>1. RadioTypes'
      BY <1>0, <1>b DEF RadioTypes
  <2>2. \A b \in RadioActors : Batched(sync[b])'
      BY <1>0, <1>b DEF RadioTypes, Batched
  <2>3. PulledByHistory' /\ Forewarned' /\ SongsKept'
      BY <1>0, <1>b DEF RadioTypes, PulledByHistory, Forewarned, SongsKept, Syncing
  <2> QED BY <2>1, <2>2, <2>3 DEF RadioInv
<1>c. \A a \in RadioActors : sync[a] \in Runs /\ Batched(sync[a])
    BY <1>0 DEF RadioTypes
<1>d. 0..MaxSongs \subseteq Nat /\ (RadioFault => radioFaults' \in 0..MaxRadioFaults)
    BY <1>0 DEF RadioFault, RadioTypes
\* The check: what it takes out of the batch is stored, and what it leaves is new,
\* or excused.
<1>5. ASSUME NEW a \in RadioActors, NEW known \in SUBSET history, Syncing(a, "check"),
             sync' = [sync EXCEPT ![a].pc = "insert", ![a].batch = @ \ known],
             \/ known = history /\ excused' = excused
             \/ excused' = excused \cup sync[a].batch,
             UNCHANGED <<job, songs, history, daily, newest, spent, pulled>>,
             radioFaults' \in 0..MaxRadioFaults
      PROVE  RadioInv'
  <2>1. PICK q : q = [sync[a] EXCEPT !.pc = "insert", !.batch = @ \ known]
      OBVIOUS
  <2>2. sync'[a] = q /\ (\A b \in RadioActors : b # a => sync'[b] = sync[b])
        /\ sync' = [sync EXCEPT ![a] = q]
      BY <1>0, <1>5, <2>1 DEF RadioTypes
  <2>3. q \in Runs /\ q.pc = "insert" /\ q.batch = sync[a].batch \ known /\ q.todo = sync[a].todo
      BY <1>c, <2>1 DEF Runs
  <2>4. sync[a].pc = "check" /\ sync[a].batch \subseteq pulled /\ excused \subseteq excused'
      BY <1>c, <1>5 DEF Batched, Syncing
  <2>5. RadioTypes'
      BY <1>0, <1>5, <2>2, <2>3, <2>4 DEF RadioTypes
  <2>6. \A b \in RadioActors : Batched(sync[b])'
    <3> SUFFICES ASSUME NEW b \in RadioActors PROVE Batched(sync[b])'
        OBVIOUS
    <3>1. CASE b = a
        BY <1>c, <1>5, <2>2, <2>3, <2>4, <3>1 DEF Batched
    <3>2. CASE b # a
        BY <1>c, <1>5, <2>2, <3>2 DEF Batched
    <3> QED BY <3>1, <3>2
  <2>7. PulledByHistory'
      BY <1>0, <1>5 DEF PulledByHistory
  <2>8. Forewarned'
      BY <1>0, <1>5, <2>2, <2>3, <2>4 DEF Forewarned, Syncing
  <2>9. SongsKept'
    <3> SUFFICES ASSUME NEW s \in pulled' \ history', s \notin excused'
                 PROVE  \E b \in RadioActors : s \in sync'[b].batch
        BY DEF SongsKept
    <3>1. PICK b \in RadioActors : s \in sync[b].batch
        BY <1>0, <1>5, <2>4 DEF SongsKept
    <3>2. s \in sync'[b].batch
        BY <1>5, <2>2, <2>3, <3>1
    <3> QED BY <3>2
  <2> QED BY <2>5, <2>6, <2>7, <2>8, <2>9 DEF RadioInv
<1>6. ASSUME NEW a \in RadioActors, ExistingShIDs(a) \/ ExistingShIDsFails(a) PROVE RadioInv'
  <2>1. CASE ExistingShIDs(a)
    <3>1. radioFaults' \in 0..MaxRadioFaults
        BY <1>0, <2>1 DEF ExistingShIDs, RadioTypes
    <3> QED BY <1>5, <2>1, <3>1 DEF ExistingShIDs, radioTables
  <2>2. CASE ExistingShIDsFails(a)
    <3>1. PICK known \in SUBSET history :
            sync' = [sync EXCEPT ![a].pc = "insert", ![a].batch = @ \ known]
        BY <2>2 DEF ExistingShIDsFails
    <3> QED BY <1>5, <1>d, <2>2, <3>1 DEF ExistingShIDsFails, radioTables
  <2> QED BY <1>6, <2>1, <2>2
\* The insert: its songs are stored, and those that run into them are warned, or
\* they are excused.
<1>7. ASSUME NEW a \in RadioActors, Syncing(a, "insert"), Rest(a),
             \/ StoreSongs(a) /\ excused' = excused \cup Forestalled(a)
             \/ /\ history' = history /\ excused \subseteq excused' /\ sync[a].batch \subseteq excused'
                /\ excused' \subseteq pulled,
             UNCHANGED <<job, songs, daily, newest, spent, pulled>>,
             radioFaults' \in 0..MaxRadioFaults
      PROVE  RadioInv'
  <2>1. sync' = [sync EXCEPT ![a] = Resting] /\ sync'[a] = Resting
        /\ \A b \in RadioActors : b # a => sync'[b] = sync[b]
      BY <1>0, <1>7 DEF Rest, RadioTypes
  <2>2. sync[a].batch \subseteq pulled
      BY <1>c, <1>7 DEF Batched, Syncing
  <2>3. Forestalled(a) \subseteq pulled
      BY <1>c DEF Forestalled, Batched, Syncing
  <2>4. /\ history \subseteq history' /\ history' \subseteq pulled
        /\ excused \subseteq excused' /\ excused' \subseteq pulled
        /\ \A s \in sync[a].batch : s \in history' \/ s \in excused'
      BY <1>0, <1>7, <2>2, <2>3 DEF StoreSongs, RadioTypes
  <2>5. RadioTypes'
      BY <1>0, <1>a, <1>7, <2>1, <2>4 DEF RadioTypes
  <2>6. \A b \in RadioActors : Batched(sync[b])'
    <3> SUFFICES ASSUME NEW b \in RadioActors PROVE Batched(sync[b])'
        OBVIOUS
    <3>1. CASE b = a
        BY <1>a, <2>1, <3>1 DEF Batched
    <3>2. CASE b # a
        BY <1>c, <1>7, <2>1, <3>2 DEF Batched
    <3> QED BY <3>1, <3>2
  <2>7. PulledByHistory'
      BY <1>0, <1>7 DEF PulledByHistory
  <2>8. Forewarned'
    <3> SUFFICES ASSUME NEW b \in RadioActors, sync'[b].pc = "insert", sync'[b].batch \cap history' # {}
                 PROVE  sync'[b].batch \subseteq excused'
        BY DEF Forewarned, Syncing
    <3>1. b # a /\ sync'[b] = sync[b] /\ Syncing(b, "insert")
        BY <1>a, <2>1 DEF Syncing
    <3>2. CASE sync[b].batch \cap history # {}
        BY <1>0, <2>4, <3>1, <3>2 DEF Forewarned
    <3>3. CASE sync[b].batch \cap history = {}
      <4>1. /\ StoreSongs(a) /\ excused' = excused \cup Forestalled(a)
            /\ sync[b].batch \cap sync[a].batch # {}
          BY <1>7, <3>1, <3>3 DEF StoreSongs
      <4> QED BY <3>1, <4>1 DEF Forestalled
    <3> QED BY <3>2, <3>3
  <2>9. SongsKept'
    <3> SUFFICES ASSUME NEW s \in pulled' \ history', s \notin excused'
                 PROVE  \E b \in RadioActors : s \in sync'[b].batch
        BY DEF SongsKept
    <3>1. PICK b \in RadioActors : s \in sync[b].batch
        BY <1>0, <1>7, <2>4 DEF SongsKept
    <3>2. b # a
        BY <2>4, <3>1
    <3> QED BY <2>1, <3>1, <3>2
  <2> QED BY <2>5, <2>6, <2>7, <2>8, <2>9 DEF RadioInv
<1>8. ASSUME NEW a \in RadioActors, InsertSongs(a) \/ SongsRefused(a) \/ InsertSongsFails(a)
      PROVE  RadioInv'
  <2>1. CASE InsertSongs(a)
    <3>1. radioFaults' \in 0..MaxRadioFaults
        BY <1>0, <2>1 DEF InsertSongs, RadioTypes
    <3> QED BY <1>7, <2>1, <3>1 DEF InsertSongs
  <2>2. CASE SongsRefused(a)
    <3>1. radioFaults' \in 0..MaxRadioFaults /\ excused' \subseteq pulled
        BY <1>0, <2>2 DEF SongsRefused, RadioTypes
    <3>2. sync[a].batch \subseteq excused' /\ excused \subseteq excused'
        BY <1>0, <2>2 DEF SongsRefused, Forewarned
    <3> QED BY <1>7, <2>2, <3>1, <3>2 DEF SongsRefused, radioTables
  <2>3. CASE InsertSongsFails(a)
    <3>1. excused \cup sync[a].batch \subseteq pulled
        BY <1>0, <1>c, <2>3 DEF InsertSongsFails, RadioTypes, Batched, Syncing
    <3> QED BY <1>7, <1>d, <2>3, <3>1 DEF InsertSongsFails
  <2> QED BY <1>8, <2>1, <2>2, <2>3
<1>9. ASSUME NEW a \in RadioActors, UpsertDaily(a) PROVE RadioInv'
  <2>1. PICK q : q = [sync[a] EXCEPT !.pc = "append", !.todo = {"hourly"}]
      OBVIOUS
  <2>2. sync' = [sync EXCEPT ![a] = q] /\ Syncing(a, "daily")
      BY <1>0, <1>9, <2>1 DEF UpsertDaily, RadioTypes
  <2>0. job # "history"
      BY <1>c, <2>2 DEF Batched, Syncing
  <2>3. q \in Runs /\ Batched(q) /\ q.pc # "insert"
      BY <1>c, <2>0, <2>1 DEF Runs, Batched, Appended
  <2>4. daily' \in 0..MaxSongs
      BY <1>c, <1>9 DEF UpsertDaily, Runs
  <2> QED BY <1>0, <1>9, <1>b, <2>0, <2>2, <2>3, <2>4 DEF UpsertDaily, RadioTypes, Syncing
<1>10. ASSUME NEW a \in RadioActors, UpsertDailyFails(a) PROVE RadioInv'
  <2>1. daily' \in 0..MaxSongs
      BY <1>0, <1>c, <1>10 DEF UpsertDailyFails, Runs, RadioTypes
  <2>2. job # "history"
      BY <1>c, <1>10 DEF UpsertDailyFails, Batched, Syncing
  <2> QED BY <1>0, <1>a, <1>b, <1>d, <1>10, <2>1, <2>2 DEF UpsertDailyFails, RadioTypes, Syncing, Rest
<1>11. ASSUME NEW a \in RadioActors, NEW t \in Appended,
              AppendRows(a, t) \/ SkipReport(a, t) \/ AppendFails(a, t)
       PROVE  RadioInv'
  <2> DEFINE left == (sync[a].todo \ {t}) \cup Following(t)
             q == [sync[a] EXCEPT !.todo = left]
  <2>1. Syncing(a, "append")
      BY <1>11 DEF AppendRows, SkipReport, AppendFails
  <2>2. sync' = [sync EXCEPT ![a] = Resting] \/ (left # {} /\ sync' = [sync EXCEPT ![a] = q])
      BY <1>0, <1>11 DEF AppendRows, SkipReport, AppendFails, GoOn, Rest, RadioTypes
  <2>3. left \subseteq Appended
      BY <1>c DEF Runs, Following, Appended
  <2>a. job # "history"
      BY <1>c, <2>1 DEF Batched, Syncing
  <2>4. q \in Runs /\ q.pc = "append" /\ (left # {} => Batched(q))
      BY <1>c, <2>1, <2>3, <2>a DEF Runs, Batched, Syncing
  <2>5. newest' \in [Appended -> 0..MaxSongs]
    <3>1. Max({newest[t], sync[a].figure}) \in 0..MaxSongs
        BY <1>0, <1>c, Larger DEF RadioTypes, Runs
    <3>2. AppendTo(a, t) \/ UNCHANGED newest
        BY <1>11 DEF AppendRows, SkipReport, AppendFails, radioTables
    <3> QED BY <1>0, <3>1, <3>2 DEF RadioTypes, AppendTo
  <2>6. UNCHANGED <<job, songs, history, daily, spent, pulled, excused>>
        /\ radioFaults' \in 0..MaxRadioFaults
      BY <1>0, <1>d, <1>11 DEF AppendRows, SkipReport, AppendFails, radioTables, RadioTypes
  <2>7. ~Syncing(a, "idle") /\ daily' \in 0..MaxSongs
      BY <1>0, <2>1, <2>6 DEF Syncing, RadioTypes
  <2> HIDE DEF left, q
  <2> QED BY <1>a, <1>b, <2>2, <2>4, <2>5, <2>6, <2>7, <2>a
<1> QED BY <1>1, <1>2, <1>3, <1>4, <1>6, <1>8, <1>9, <1>10, <1>11 DEF RadioNext, RadioStep

\* It gives the type invariant.
LEMMA RadioInvTypes == RadioInv => RadioTypeOK
  BY DEF RadioInv, RadioTypes, RadioTypeOK, Runs, Batched

\* It holds in every reachable state.
LEMMA RadioAlways == RadioSpec => []RadioInv
  BY RadioInitInv, RadioNextInv, PTL DEF RadioSpec

\* A song that a run has pulled is stored or in a run's hands, for any window,
\* songs, requests and failures, but for those of a run that a failure or another
\* run's insert keeps from storing them (syncRadioHistory, the key of radio_history).
THEOREM SongsAreKept == RadioSpec => []SongsKept
<1>1. RadioInv => SongsKept
    BY DEF RadioInv
<1> QED BY <1>1, RadioAlways, PTL

----------------------------------------------------------------------------
(* The mirror of the EPG *)

\* A run; the steps that fill the table of radio programs have some in hand.
MirrorSteps == {"idle", "truncate", "insert", "radio", "truncateRadio", "insertRadio"}
Mirrors == {q \in [pc : MirrorSteps, batch : SUBSET Programs] :
              q.pc \in {"truncateRadio", "insertRadio"} => q.batch # {} /\ q.batch \subseteq RadioPrograms}

\* The types.
EpgTypes ==
  /\ lineup \subseteq Programs /\ lineupEdits \in 0..MaxLineupEdits
  /\ metadata \subseteq Ids(Programs) /\ radioRows \in [RadioPrograms -> Nat]
  /\ mirror \in [EpgActors -> Mirrors]
  /\ epgSpent \subseteq EpgRequests /\ epgFaults \in 0..MaxEpgFaults
  /\ tangled \in BOOLEAN /\ torn \in {"no", "failed", "refused"}

\* While the lineup stays, it is all that any run writes.
KeysOfLineup ==
  lineupEdits = 0 =>
    /\ metadata \in {{}, Ids(lineup)}
    /\ \A a \in EpgActors : mirror[a].pc \in {"truncate", "insert"} => mirror[a].batch = lineup

\* Why an insert can be refused.
RefusedFor == torn = "refused" => tangled \/ lineupEdits > 0 \/ Clashes(lineup)

\* At most one run is going.
OneMirror ==
  \A a, b \in EpgActors : Mirroring(a, "idle") \/ Mirroring(b, "idle") \/ a = b

\* A run fills tables it has emptied.
Filling(a) ==
  /\ Mirroring(a, "insert") => metadata = {}
  /\ Mirroring(a, "insertRadio") => \A p \in mirror[a].batch : radioRows[p] = 0

\* While the lineup stays, what a run has in hand is what the table still lacks.
Copying(a) ==
  /\ mirror[a].pc \in {"radio", "truncateRadio", "insertRadio"} => metadata = Ids(lineup)
  /\ Mirroring(a, "truncateRadio") => mirror[a].batch = lineup \cap RadioPrograms
  /\ Mirroring(a, "insertRadio") => Copied \cup mirror[a].batch = lineup \cap RadioPrograms

Single == \A p \in RadioPrograms : radioRows[p] <= 1
TablesAgree ==
  \/ metadata = {} /\ Copied = {}
  \/ metadata = Ids(lineup) /\ Copied = lineup \cap RadioPrograms

\* What holds until two runs overlap.
MirrorSound ==
  /\ OneMirror /\ Single
  /\ \A a \in EpgActors : Filling(a)
  /\ lineupEdits = 0 =>
       /\ \A a \in EpgActors : Copying(a)
       /\ Copied \subseteq lineup
       /\ torn # "no" \/ (\E a \in EpgActors : ~Mirroring(a, "idle")) \/ TablesAgree

\* The inductive invariant of the mirror.
EpgInv == EpgTypes /\ KeysOfLineup /\ RefusedFor /\ (tangled \/ MirrorSound)

\* It holds at first.
LEMMA EpgInitInv == EpgInit => EpgInv
<1> SUFFICES ASSUME EpgInit PROVE EpgInv
    OBVIOUS
<1>1. Asleep \in Mirrors /\ Asleep.pc = "idle"
    BY DEF Asleep, Mirrors, MirrorSteps
<1>2. mirror \in [EpgActors -> Mirrors] /\ \A a \in EpgActors : mirror[a].pc = "idle"
    BY <1>1 DEF EpgInit
<1>3. radioRows \in [RadioPrograms -> Nat] /\ \A p \in RadioPrograms : radioRows[p] = 0
    BY DEF EpgInit, NoRows
<1>4. 0 \in 0..MaxLineupEdits /\ 0 \in 0..MaxEpgFaults
    BY EpgAssumption
<1>5. EpgTypes
    BY <1>2, <1>3, <1>4 DEF EpgInit, EpgTypes
<1>6. Copied = {}
    BY <1>3 DEF Copied
<1>7. MirrorSound
    BY <1>2, <1>3, <1>6
       DEF EpgInit, MirrorSound, OneMirror, Single, Filling, Copying, TablesAgree, Mirroring
<1> QED BY <1>2, <1>5, <1>7 DEF EpgInit, EpgInv, KeysOfLineup, RefusedFor

\* Its parts, when nothing that they speak of changes.
LEMMA EpgStands ==
  ASSUME EpgInv, UNCHANGED <<lineup, lineupEdits, metadata, radioRows, mirror, tangled, torn, epgSpent, epgFaults>>
  PROVE  EpgInv'
  BY DEF EpgInv, EpgTypes, KeysOfLineup, RefusedFor, MirrorSound, OneMirror, Single, Filling, Copying,
     TablesAgree, Copied, Mirroring

\* The step of a run that was going, or that starts alone.
LEMMA MirrorTurn ==
  ASSUME EpgInv, NEW a \in EpgActors, NEW q \in Mirrors, mirror' = [mirror EXCEPT ![a] = q],
         UNCHANGED <<lineup, lineupEdits>>, epgSpent' \subseteq EpgRequests,
         tangled' \in BOOLEAN, tangled => tangled',
         tangled' \/ \A b \in EpgActors \ {a} : Mirroring(b, "idle"),
         metadata' \subseteq Ids(Programs), radioRows' \in [RadioPrograms -> Nat],
         torn' \in {"no", "failed", "refused"}, epgFaults' \in 0..MaxEpgFaults,
         lineupEdits = 0 => metadata' \in {{}, Ids(lineup)}
                            /\ (q.pc \in {"truncate", "insert"} => q.batch = lineup),
         torn' = "refused" => torn = "refused" \/ tangled \/ lineupEdits > 0 \/ Clashes(lineup),
         ~tangled' => Single' /\ Filling(a)',
         ~tangled' /\ lineupEdits = 0 =>
           Copying(a)' /\ Copied' \subseteq lineup /\ (torn' # "no" \/ q.pc # "idle" \/ TablesAgree')
  PROVE  EpgInv'
<1>0. EpgTypes /\ KeysOfLineup /\ RefusedFor
    BY DEF EpgInv
<1>1. mirror'[a] = q /\ \A b \in EpgActors \ {a} : mirror'[b] = mirror[b]
    BY <1>0 DEF EpgTypes
<1>2. EpgTypes'
    BY <1>0 DEF EpgTypes
<1>3. KeysOfLineup'
  <2>1. ASSUME lineupEdits = 0, NEW b \in EpgActors, mirror'[b].pc \in {"truncate", "insert"}
        PROVE  mirror'[b].batch = lineup
      BY <1>0, <1>1, <2>1 DEF KeysOfLineup
  <2> QED BY <2>1 DEF KeysOfLineup, Ids
<1>4. RefusedFor'
    BY <1>0 DEF RefusedFor, Clashes
<1>5. ASSUME ~tangled' PROVE MirrorSound'
  <2>1. \A b \in EpgActors \ {a} : mirror'[b].pc = "idle"
      BY <1>1, <1>5 DEF Mirroring
  <2>2. OneMirror'
      BY <2>1 DEF OneMirror, Mirroring
  <2>3. \A b \in EpgActors : Filling(b)'
      BY <1>5, <2>1 DEF Filling, Mirroring
  <2>4. ASSUME lineupEdits = 0 PROVE \A b \in EpgActors : Copying(b)'
      BY <1>5, <2>1, <2>4 DEF Copying, Mirroring
  <2>5. q.pc # "idle" => (\E b \in EpgActors : ~Mirroring(b, "idle"))'
      BY <1>1 DEF Mirroring
  <2> QED BY <1>5, <2>2, <2>3, <2>4, <2>5 DEF MirrorSound
<1> QED BY <1>2, <1>3, <1>4, <1>5 DEF EpgInv

\* Every step keeps it.
LEMMA EpgNextInv == EpgInv /\ [EpgNext]_epgVars => EpgInv'
<1> SUFFICES ASSUME EpgInv, [EpgNext]_epgVars PROVE EpgInv'
    OBVIOUS
<1>0. EpgTypes /\ KeysOfLineup /\ RefusedFor /\ (tangled \/ MirrorSound)
    BY DEF EpgInv
<1>a. Asleep \in Mirrors /\ Asleep.pc = "idle" /\ Asleep.batch = {}
    BY DEF Asleep, Mirrors, MirrorSteps
<1>t. /\ lineup \subseteq Programs /\ lineupEdits \in 0..MaxLineupEdits
      /\ metadata \subseteq Ids(Programs) /\ radioRows \in [RadioPrograms -> Nat]
      /\ epgSpent \subseteq EpgRequests /\ epgFaults \in 0..MaxEpgFaults
      /\ tangled \in BOOLEAN /\ torn \in {"no", "failed", "refused"}
      /\ \A a \in EpgActors : mirror[a] \in Mirrors
    BY <1>0 DEF EpgTypes
<1>f. EpgFault => epgFaults' \in 0..MaxEpgFaults
    BY <1>t, EpgAssumption DEF EpgFault
<1>i. \A S \in SUBSET Programs : Ids(S) \subseteq Ids(Programs)
    BY DEF Ids
\* A run that is going is the only one, until two overlap.
<1>o. ASSUME NEW a \in EpgActors, ~Mirroring(a, "idle")
      PROVE  tangled \/ \A b \in EpgActors \ {a} : Mirroring(b, "idle")
    BY <1>0, <1>o DEF MirrorSound, OneMirror
<1>1. CASE UNCHANGED epgVars
    BY <1>1, EpgStands DEF epgVars
<1>2. ASSUME NEW p \in Programs, EditLineup(p) PROVE EpgInv'
  <2>1. /\ lineup' \subseteq Programs /\ lineupEdits' \in 0..MaxLineupEdits /\ lineupEdits' > 0
        /\ UNCHANGED <<metadata, radioRows, mirror, epgSpent, tangled, torn, epgFaults>>
      BY <1>2, <1>t, EpgAssumption DEF EditLineup
  <2>2. EpgTypes'
      BY <1>0, <2>1 DEF EpgTypes
  <2>3. tangled' \/ MirrorSound'
      BY <1>0, <2>1 DEF MirrorSound, OneMirror, Single, Filling, Mirroring
  <2> QED BY <2>1, <2>2, <2>3 DEF EpgInv, KeysOfLineup, RefusedFor
<1>3. ASSUME NEW a \in EpgActors, StartMirror(a) PROVE EpgInv'
  <2>1. PICK q : q = [pc |-> "truncate", batch |-> lineup]
      OBVIOUS
  <2>2. /\ mirror' = [mirror EXCEPT ![a] = q] /\ Mirroring(a, "idle")
        /\ epgSpent' \subseteq EpgRequests
        /\ tangled' = (tangled \/ \E b \in EpgActors : ~Mirroring(b, "idle"))
        /\ UNCHANGED <<lineup, lineupEdits, metadata, radioRows, torn, epgFaults>>
      BY <1>3, <1>t, <2>1 DEF StartMirror, Advance
  <2>3. q \in Mirrors /\ q.pc = "truncate" /\ q.batch = lineup
      BY <1>t, <2>1 DEF Mirrors, MirrorSteps
  <2>4. mirror'[a] = q
      BY <1>0, <2>2 DEF EpgTypes
  <2>5. Filling(a)' /\ Copying(a)'
      BY <2>3, <2>4 DEF Filling, Copying, Mirroring
  <2>6. ASSUME ~tangled' PROVE Single' /\ (lineupEdits = 0 => Copied' \subseteq lineup)
      BY <1>0, <2>2, <2>6 DEF MirrorSound, Single, Copied
  <2>7. lineupEdits = 0 => metadata' \in {{}, Ids(lineup)}
      BY <1>0, <2>2 DEF KeysOfLineup
  <2>8. tangled' \in BOOLEAN /\ (tangled => tangled')
        /\ (tangled' \/ \A b \in EpgActors \ {a} : Mirroring(b, "idle"))
      BY <2>2
  <2> QED BY <1>t, <2>2, <2>3, <2>5, <2>6, <2>7, <2>8, MirrorTurn
<1>4. ASSUME NEW a \in EpgActors, TruncateMetadata(a) PROVE EpgInv'
  <2>1. PICK q : q = [pc |-> "insert", batch |-> mirror[a].batch]
      OBVIOUS
  <2>2. mirror' = [mirror EXCEPT ![a] = q] /\ Mirroring(a, "truncate") /\ metadata' = {}
        /\ UNCHANGED <<lineup, lineupEdits, radioRows, epgSpent, tangled, torn, epgFaults>>
      BY <1>4, <2>1 DEF TruncateMetadata, Advance
  <2>3. q \in Mirrors /\ q.pc = "insert" /\ q.batch = mirror[a].batch
      BY <1>t, <2>1 DEF Mirrors, MirrorSteps
  <2>4. mirror'[a] = q
      BY <1>0, <2>2 DEF EpgTypes
  <2>5. Filling(a)' /\ Copying(a)'
      BY <2>2, <2>3, <2>4 DEF Filling, Copying, Mirroring
  <2>6. ASSUME ~tangled' PROVE Single' /\ (lineupEdits = 0 => Copied' \subseteq lineup)
      BY <1>0, <2>2, <2>6 DEF MirrorSound, Single, Copied
  <2>7. lineupEdits = 0 => q.batch = lineup
      BY <1>0, <2>2, <2>3 DEF KeysOfLineup, Mirroring
  <2>8. tangled \/ \A b \in EpgActors \ {a} : Mirroring(b, "idle")
      BY <1>o, <2>2 DEF Mirroring
  <2> QED BY <1>t, <2>2, <2>3, <2>5, <2>6, <2>7, <2>8, MirrorTurn
\* What an insert of the keys makes of the table.
<1>k. ASSUME NEW a \in EpgActors, Accepted(a), metadata' = metadata \cup Ids(mirror[a].batch)
      PROVE  /\ metadata' \subseteq Ids(Programs)
             /\ lineupEdits = 0 => metadata' = Ids(lineup)
  <2>1. mirror[a].batch \subseteq Programs /\ mirror[a].pc = "insert"
      BY <1>k, <1>t DEF Mirrors, Accepted, Mirroring
  <2>2. lineupEdits = 0 => mirror[a].batch = lineup /\ metadata \subseteq Ids(lineup)
      BY <1>0, <2>1 DEF KeysOfLineup
  <2> QED BY <1>k, <1>i, <1>t, <2>1, <2>2
<1>5. ASSUME NEW a \in EpgActors, InsertMetadata(a) PROVE EpgInv'
  <2>1. PICK q : q = [pc |-> "radio", batch |-> {}]
      OBVIOUS
  <2>2. mirror' = [mirror EXCEPT ![a] = q] /\ Accepted(a) /\ Mirroring(a, "insert")
        /\ metadata' = metadata \cup Ids(mirror[a].batch)
        /\ UNCHANGED <<lineup, lineupEdits, radioRows, epgSpent, tangled, torn, epgFaults>>
      BY <1>5, <2>1 DEF InsertMetadata, Accepted, Inserted, Advance
  <2>3. q \in Mirrors /\ q.pc = "radio"
      BY <2>1 DEF Mirrors, MirrorSteps
  <2>4. mirror'[a] = q
      BY <1>0, <2>2 DEF EpgTypes
  <2>5. metadata' \subseteq Ids(Programs) /\ (lineupEdits = 0 => metadata' = Ids(lineup))
      BY <1>k, <2>2
  <2>6. Filling(a)' /\ (lineupEdits = 0 => Copying(a)')
      BY <2>2, <2>3, <2>4, <2>5 DEF Filling, Copying, Mirroring, Ids
  <2>7. ASSUME ~tangled' PROVE Single' /\ (lineupEdits = 0 => Copied' \subseteq lineup)
      BY <1>0, <2>2, <2>7 DEF MirrorSound, Single, Copied
  <2>8. tangled \/ \A b \in EpgActors \ {a} : Mirroring(b, "idle")
      BY <1>o, <2>2 DEF Mirroring
  <2> QED BY <1>t, <2>2, <2>3, <2>5, <2>6, <2>7, <2>8, MirrorTurn
<1>6. ASSUME NEW a \in EpgActors, MetadataRefused(a) PROVE EpgInv'
  <2>2. mirror' = [mirror EXCEPT ![a] = Asleep] /\ Mirroring(a, "insert") /\ torn' = "refused"
        /\ ~Accepted(a)
        /\ UNCHANGED <<lineup, lineupEdits, metadata, radioRows, epgSpent, tangled, epgFaults>>
      BY <1>6 DEF MetadataRefused, Sleep
  <2>3. tangled \/ lineupEdits > 0 \/ Clashes(lineup)
    <3> SUFFICES ASSUME ~tangled, lineupEdits = 0 PROVE Clashes(lineup)
        BY <1>t, EpgAssumption
    <3>1. metadata = {} /\ mirror[a].batch = lineup
        BY <1>0, <2>2 DEF MirrorSound, Filling, KeysOfLineup, Mirroring
    <3> QED BY <2>2, <3>1 DEF Accepted
  <2>4. mirror'[a] = Asleep
      BY <1>0, <2>2 DEF EpgTypes
  <2>5. Filling(a)' /\ Copying(a)'
      BY <1>a, <2>4 DEF Filling, Copying, Mirroring
  <2>6. ASSUME ~tangled' PROVE Single' /\ (lineupEdits = 0 => Copied' \subseteq lineup)
      BY <1>0, <2>2, <2>6 DEF MirrorSound, Single, Copied
  <2>7. lineupEdits = 0 => metadata' \in {{}, Ids(lineup)}
      BY <1>0, <2>2 DEF KeysOfLineup
  <2>8. tangled \/ \A b \in EpgActors \ {a} : Mirroring(b, "idle")
      BY <1>o, <2>2 DEF Mirroring
  <2> QED BY <1>a, <1>t, <2>2, <2>3, <2>5, <2>6, <2>7, <2>8, MirrorTurn
<1>7. ASSUME NEW a \in EpgActors, ReadRadioPrograms(a) PROVE EpgInv'
  <2>0. Mirroring(a, "radio") /\ UNCHANGED <<lineup, lineupEdits, metadata, radioRows, epgSpent, tangled, epgFaults>>
      BY <1>7 DEF ReadRadioPrograms
  <2>a. ASSUME ~tangled' PROVE Single' /\ (lineupEdits = 0 => Copied' \subseteq lineup)
      BY <1>0, <2>0, <2>a DEF MirrorSound, Single, Copied
  <2>b. tangled \/ \A b \in EpgActors \ {a} : Mirroring(b, "idle")
      BY <1>o, <2>0 DEF Mirroring
  <2>c. lineupEdits = 0 => metadata' \in {{}, Ids(lineup)}
      BY <1>0, <2>0 DEF KeysOfLineup
  <2>d. ~tangled /\ lineupEdits = 0 => metadata = Ids(lineup)
      BY <1>0, <2>0 DEF MirrorSound, Copying, Mirroring
  <2>1. CASE lineup \cap RadioPrograms = {}
    <3>1. mirror' = [mirror EXCEPT ![a] = Asleep] /\ torn' = "no"
        BY <1>7, <2>1 DEF ReadRadioPrograms, Sleep
    <3>2. mirror'[a] = Asleep
        BY <1>0, <3>1 DEF EpgTypes
    <3>3. Filling(a)' /\ Copying(a)'
        BY <1>a, <3>2 DEF Filling, Copying, Mirroring
    <3>4. ASSUME ~tangled', lineupEdits = 0 PROVE TablesAgree'
      <4>1. Copied' = {}
          BY <2>1, <2>a, <3>4 DEF Copied
      <4> QED BY <2>0, <2>1, <2>d, <3>4, <4>1 DEF TablesAgree, Ids
    <3> QED BY <1>a, <1>t, <2>0, <2>a, <2>b, <2>c, <3>1, <3>3, <3>4, MirrorTurn
  <2>2. CASE lineup \cap RadioPrograms # {}
    <3>1. PICK q : q = [pc |-> "truncateRadio", batch |-> lineup \cap RadioPrograms]
        OBVIOUS
    <3>2. mirror' = [mirror EXCEPT ![a] = q] /\ torn' = torn
        BY <1>7, <2>2, <3>1 DEF ReadRadioPrograms, Advance
    <3>3. q \in Mirrors /\ q.pc = "truncateRadio" /\ q.batch = lineup \cap RadioPrograms
        BY <1>t, <2>2, <3>1 DEF Mirrors, MirrorSteps
    <3>4. mirror'[a] = q
        BY <1>0, <3>2 DEF EpgTypes
    <3>5. Filling(a)'
        BY <3>3, <3>4 DEF Filling, Mirroring
    <3>6. ASSUME ~tangled', lineupEdits = 0 PROVE Copying(a)'
        BY <2>0, <2>d, <3>3, <3>4, <3>6 DEF Copying, Mirroring, Ids
    <3> QED BY <1>t, <2>0, <2>a, <2>b, <2>c, <3>2, <3>3, <3>5, <3>6, MirrorTurn
  <2> QED BY <2>1, <2>2
<1>8. ASSUME NEW a \in EpgActors, TruncateRadioPrograms(a) PROVE EpgInv'
  <2>1. PICK q : q = [pc |-> "insertRadio", batch |-> mirror[a].batch]
      OBVIOUS
  <2>2. mirror' = [mirror EXCEPT ![a] = q] /\ Mirroring(a, "truncateRadio") /\ radioRows' = NoRows
        /\ UNCHANGED <<lineup, lineupEdits, metadata, epgSpent, tangled, torn, epgFaults>>
      BY <1>8, <2>1 DEF TruncateRadioPrograms, Advance
  <2>3. q \in Mirrors /\ q.pc = "insertRadio" /\ q.batch = mirror[a].batch /\ q.batch \subseteq RadioPrograms
      BY <1>t, <2>1, <2>2 DEF Mirrors, MirrorSteps, Mirroring
  <2>4. mirror'[a] = q
      BY <1>0, <2>2 DEF EpgTypes
  <2>5. radioRows' \in [RadioPrograms -> Nat] /\ \A p \in RadioPrograms : radioRows'[p] = 0
      BY <2>2 DEF NoRows
  <2>6. Single' /\ Filling(a)' /\ Copied' = {}
      BY <2>3, <2>4, <2>5 DEF Single, Filling, Mirroring, Copied
  <2>7. ASSUME ~tangled', lineupEdits = 0 PROVE Copying(a)'
    <3>1. metadata = Ids(lineup) /\ mirror[a].batch = lineup \cap RadioPrograms
        BY <1>0, <2>2, <2>7 DEF MirrorSound, Copying, Mirroring
    <3> QED BY <2>2, <2>3, <2>4, <2>6, <3>1 DEF Copying, Mirroring, Ids
  <2>8. lineupEdits = 0 => metadata' \in {{}, Ids(lineup)}
      BY <1>0, <2>2 DEF KeysOfLineup
  <2>9. tangled \/ \A b \in EpgActors \ {a} : Mirroring(b, "idle")
      BY <1>o, <2>2 DEF Mirroring
  <2> QED BY <1>t, <2>2, <2>3, <2>5, <2>6, <2>7, <2>8, <2>9, MirrorTurn
\* What one more row of a radio program makes of the table.
<1>w. ASSUME NEW a \in EpgActors, Mirroring(a, "insertRadio"), NEW p \in mirror[a].batch, WithNext(p)
      PROVE  /\ p \in RadioPrograms /\ radioRows' \in [RadioPrograms -> Nat]
             /\ Copied' = Copied \cup {p}
             /\ ~tangled => Single' /\ \A x \in mirror[a].batch \ {p} : radioRows'[x] = 0
             /\ ~tangled /\ lineupEdits = 0 =>
                  metadata = Ids(lineup) /\ Copied \cup mirror[a].batch = lineup \cap RadioPrograms
  <2>1. mirror[a].batch \subseteq RadioPrograms
      BY <1>t, <1>w DEF Mirrors, Mirroring
  <2>2. radioRows' = [radioRows EXCEPT ![p] = @ + 1]
      BY <1>w DEF WithNext
  <2>3. radioRows' \in [RadioPrograms -> Nat]
        /\ \A x \in RadioPrograms : radioRows'[x] = IF x = p THEN radioRows[p] + 1 ELSE radioRows[x]
      BY <1>t, <2>1, <2>2
  <2>4. Copied' = Copied \cup {p}
      BY <1>t, <2>1, <2>3 DEF Copied
  <2>5. ASSUME ~tangled PROVE Single' /\ \A x \in mirror[a].batch \ {p} : radioRows'[x] = 0
    <3>1. \A x \in mirror[a].batch : radioRows[x] = 0
        BY <1>0, <1>w, <2>5 DEF MirrorSound, Filling
    <3>2. Single
        BY <1>0, <2>5 DEF MirrorSound
    <3> QED BY <1>t, <2>1, <2>3, <3>1, <3>2 DEF Single
  <2>6. ASSUME ~tangled, lineupEdits = 0
        PROVE  metadata = Ids(lineup) /\ Copied \cup mirror[a].batch = lineup \cap RadioPrograms
      BY <1>0, <1>w, <2>6 DEF MirrorSound, Copying, Mirroring
  <2> QED BY <2>1, <2>3, <2>4, <2>5, <2>6
<1>9. ASSUME NEW a \in EpgActors, NEW p \in RadioPrograms, InsertRadioProgram(a, p) PROVE EpgInv'
  <2> DEFINE rest == mirror[a].batch \ {p}
  <2>0. Mirroring(a, "insertRadio") /\ p \in mirror[a].batch /\ WithNext(p)
        /\ UNCHANGED <<lineup, lineupEdits, metadata, epgSpent, tangled, epgFaults>>
      BY <1>9 DEF InsertRadioProgram
  <2>a. /\ radioRows' \in [RadioPrograms -> Nat] /\ Copied' = Copied \cup {p}
        /\ ~tangled => Single' /\ \A x \in rest : radioRows'[x] = 0
        /\ ~tangled /\ lineupEdits = 0 =>
             metadata = Ids(lineup) /\ Copied \cup mirror[a].batch = lineup \cap RadioPrograms
      BY <1>w, <2>0
  <2>b. tangled \/ \A b \in EpgActors \ {a} : Mirroring(b, "idle")
      BY <1>o, <2>0 DEF Mirroring
  <2>c. lineupEdits = 0 => metadata' \in {{}, Ids(lineup)}
      BY <1>0, <2>0 DEF KeysOfLineup
  <2>d. ~tangled /\ lineupEdits = 0 => Copied' \cup rest = lineup \cap RadioPrograms
      BY <2>0, <2>a
  <2>1. CASE rest = {}
    <3>1. mirror' = [mirror EXCEPT ![a] = Asleep] /\ torn' = "no"
        BY <1>9, <2>1 DEF InsertRadioProgram, Sleep
    <3>2. mirror'[a] = Asleep
        BY <1>0, <3>1 DEF EpgTypes
    <3>3. Filling(a)' /\ Copying(a)'
        BY <1>a, <3>2 DEF Filling, Copying, Mirroring
    <3>4. ~tangled /\ lineupEdits = 0 => Copied' = lineup \cap RadioPrograms
        BY <2>1, <2>d
    <3>5. ~tangled /\ lineupEdits = 0 => TablesAgree'
        BY <2>0, <2>a, <3>4 DEF TablesAgree, Ids
    <3> QED BY <1>a, <1>t, <2>0, <2>a, <2>b, <2>c, <3>1, <3>3, <3>4, <3>5, MirrorTurn
  <2>2. CASE rest # {}
    <3>1. PICK q : q = [pc |-> "insertRadio", batch |-> rest]
        OBVIOUS
    <3>2. mirror' = [mirror EXCEPT ![a] = q] /\ torn' = torn
        BY <1>9, <2>2, <3>1 DEF InsertRadioProgram, Advance
    <3>3. q \in Mirrors /\ q.pc = "insertRadio" /\ q.batch = rest
        BY <1>t, <2>0, <2>2, <3>1 DEF Mirrors, MirrorSteps, Mirroring
    <3>4. mirror'[a] = q
        BY <1>0, <3>2 DEF EpgTypes
    <3> HIDE DEF rest
    <3>5. ~tangled => Filling(a)'
        BY <2>a, <3>3, <3>4 DEF Filling, Mirroring
    <3>6. ~tangled /\ lineupEdits = 0 => Copying(a)' /\ Copied' \subseteq lineup
        BY <2>0, <2>a, <2>d, <3>3, <3>4 DEF Copying, Mirroring, Ids
    <3> QED BY <1>t, <2>0, <2>a, <2>b, <2>c, <3>2, <3>3, <3>5, <3>6, MirrorTurn
  <2> QED BY <2>1, <2>2
<1>10. ASSUME NEW a \in EpgActors, MirrorFails(a) PROVE EpgInv'
  <2>1. /\ mirror' = [mirror EXCEPT ![a] = Asleep] /\ torn' = "failed" /\ ~Mirroring(a, "idle")
        /\ UNCHANGED <<lineup, lineupEdits, epgSpent, tangled>>
      BY <1>10 DEF MirrorFails, Sleep
  <2>2. epgFaults' \in 0..MaxEpgFaults
      BY <1>10, <1>f DEF MirrorFails
  <2>3. mirror'[a] = Asleep
      BY <1>0, <2>1 DEF EpgTypes
  <2>4. Filling(a)' /\ Copying(a)'
      BY <1>a, <2>3 DEF Filling, Copying, Mirroring
  <2>5. /\ metadata' \subseteq Ids(Programs) /\ radioRows' \in [RadioPrograms -> Nat]
        /\ lineupEdits = 0 => metadata' \in {{}, Ids(lineup)}
        /\ ~tangled => Single'
        /\ ~tangled /\ lineupEdits = 0 => Copied' \subseteq lineup
    <3>0. /\ lineupEdits = 0 => metadata \in {{}, Ids(lineup)}
          /\ ~tangled => Single
          /\ ~tangled /\ lineupEdits = 0 => Copied \subseteq lineup
        BY <1>0 DEF KeysOfLineup, MirrorSound
    <3>1. CASE UNCHANGED <<metadata, radioRows>>
        BY <1>t, <3>0, <3>1 DEF Single, Copied
    <3>2. CASE metadata' = {} /\ UNCHANGED radioRows
        BY <1>t, <3>0, <3>2 DEF Single, Copied
    <3>3. CASE Accepted(a) /\ Inserted(a) /\ UNCHANGED radioRows
      <4>1. metadata' \subseteq Ids(Programs) /\ (lineupEdits = 0 => metadata' = Ids(lineup))
          BY <1>k, <3>3 DEF Inserted
      <4> QED BY <1>t, <3>0, <3>3, <4>1 DEF Single, Copied
    <3>4. CASE radioRows' = NoRows /\ UNCHANGED metadata
        BY <1>t, <3>0, <3>4 DEF Single, Copied, NoRows
    <3>5. ASSUME Mirroring(a, "insertRadio"), NEW p \in mirror[a].batch, WithNext(p), UNCHANGED metadata
          PROVE  /\ metadata' \subseteq Ids(Programs) /\ radioRows' \in [RadioPrograms -> Nat]
                 /\ lineupEdits = 0 => metadata' \in {{}, Ids(lineup)}
                 /\ ~tangled => Single'
                 /\ ~tangled /\ lineupEdits = 0 => Copied' \subseteq lineup
      <4>1. /\ p \in RadioPrograms /\ radioRows' \in [RadioPrograms -> Nat]
            /\ Copied' = Copied \cup {p}
            /\ ~tangled => Single'
            /\ ~tangled /\ lineupEdits = 0 => Copied \cup mirror[a].batch = lineup \cap RadioPrograms
          BY <1>w, <3>5
      <4> QED BY <1>t, <3>0, <3>5, <4>1
    <3> QED BY <1>10, <3>1, <3>2, <3>3, <3>4, <3>5 DEF MirrorFails
  <2>6. tangled \/ \A b \in EpgActors \ {a} : Mirroring(b, "idle")
      BY <1>o, <2>1
  <2> QED BY <1>a, <1>t, <2>1, <2>2, <2>4, <2>5, <2>6, MirrorTurn
<1> QED BY <1>1, <1>2, <1>3, <1>4, <1>5, <1>6, <1>7, <1>8, <1>9, <1>10 DEF EpgNext, MirrorStep

\* It gives the type invariant and the property.
LEMMA EpgInvHonest == EpgInv => MirrorsHonest
<1> SUFFICES ASSUME EpgInv PROVE MirrorsHonest
    OBVIOUS
<1>1. lineupEdits \in Nat /\ KeysOfLineup /\ RefusedFor /\ (tangled \/ MirrorSound)
    BY EpgAssumption DEF EpgInv, EpgTypes
<1> QED BY <1>1 DEF KeysOfLineup, RefusedFor, MirrorSound, MirrorsHonest, Single, TablesAgree

\* It holds in every reachable state.
LEMMA EpgAlways == EpgSpec => []EpgInv
  BY EpgInitInv, EpgNextInv, PTL DEF EpgSpec

\* While the lineup stays, epg_metadata is empty or a whole copy of it, whatever
\* runs overlap or fail; an insert is refused only for a clash of keys or an
\* overlap; and the two tables agree between whole runs (syncEPGMetadata,
\* syncRadioPrograms).
THEOREM MirrorsAreHonest == EpgSpec => []MirrorsHonest
  BY EpgInvHonest, EpgAlways, PTL

----------------------------------------------------------------------------
(* The viewer sync *)

\* The days a job still has to count, all of them past, and the count it is
\* about to write, which its day has had.
Counting == [days : Seq(Days), count : Nat \cup {-1}]
CountsPast(q) ==
  /\ \A i \in DOMAIN q.days : q.days[i] <= today
  /\ q.count >= 0 => q.days # <<>> /\ q.count <= views[Head(q.days)]

\* The inductive invariant of the viewer sync: views only grow, and days without
\* views are still to come.
ViewerInv ==
  /\ today \in Days
  /\ views \in [Days -> Nat] /\ viewerDaily \in [Days -> Nat]
  /\ counting \in [ViewerJobs -> Counting]
  /\ \A j \in ViewerJobs : CountsPast(counting[j])
  /\ \A d \in Days : d > today => views[d] = 0 /\ viewerDaily[d] = 0
  /\ ViewersCounted

\* Days are 1, 2, ... up to the last.
LEMMA DaysAreNumbers ==
  /\ Days \subseteq Nat /\ 1 \in Days
  /\ \A d \in Days : 1..d \subseteq Days
<1>1. PICK last \in Days : Days = 1..last /\ last \in Nat
    BY EpgAssumption
<1> QED BY <1>1

\* A job that is over counts nothing.
LEMMA StillCounts == Still \in Counting /\ CountsPast(Still)
<1>1. <<>> \in Seq(Days) /\ DOMAIN <<>> = {}
    OBVIOUS
<1> QED BY <1>1 DEF Still, Counting, CountsPast

\* It holds on the first day.
LEMMA ViewerInitInv == ViewerInit => ViewerInv
<1> SUFFICES ASSUME ViewerInit PROVE ViewerInv
    OBVIOUS
<1> USE DaysAreNumbers
<1>1. counting \in [ViewerJobs -> Counting] /\ \A j \in ViewerJobs : counting[j] = Still
    BY StillCounts DEF ViewerInit
<1> QED BY <1>1, StillCounts DEF ViewerInit, ViewerInv, ViewersCounted

\* A job counts no day that is still to come.
LEMMA DaysOfPast ==
  ASSUME today \in Days, NEW j
  PROVE  DaysOf(j) \in Seq(Days) /\ \A i \in DOMAIN DaysOf(j) : DaysOf(j)[i] <= today
<1> USE DaysAreNumbers
<1>1. CASE j = "backfill"
  <2>1. 1..today \subseteq Days /\ today \in Nat
      OBVIOUS
  <2> DEFINE all == [d \in 1..today |-> d]
  <2>2. all \in [1..today -> Days]
      BY <2>1
  <2>3. all \in Seq(Days) /\ DOMAIN all = 1..today
      BY <2>1, <2>2
  <2>4. \A i \in DOMAIN all : all[i] <= today
      BY <2>1
  <2> HIDE DEF all
  <2>5. DaysOf(j) = all
      BY <1>1 DEF DaysOf, all
  <2> QED BY <2>3, <2>4, <2>5
<1>2. CASE j # "backfill" /\ today - 1 \in Days
  <2>1. DaysOf(j) = <<today - 1, today>>
      BY <1>2 DEF DaysOf
  <2>2. <<today - 1, today>> \in Seq(Days) /\ DOMAIN <<today - 1, today>> = {1, 2}
      BY <1>2
  <2> QED BY <2>1, <2>2
<1>3. CASE j # "backfill" /\ today - 1 \notin Days
  <2>1. DaysOf(j) = <<today>>
      BY <1>3 DEF DaysOf
  <2>2. <<today>> \in Seq(Days) /\ DOMAIN <<today>> = {1}
      OBVIOUS
  <2> QED BY <2>1, <2>2
<1> QED BY <1>1, <1>2, <1>3

\* A sequence is its head and its tail, by position.
LEMMA HeadAndTail ==
  ASSUME NEW S, NEW s \in Seq(S), s # <<>>
  PROVE  /\ Head(s) \in S /\ Head(s) = s[1] /\ 1 \in DOMAIN s
         /\ Tail(s) \in Seq(S)
         /\ \A i \in DOMAIN Tail(s) : i + 1 \in DOMAIN s /\ Tail(s)[i] = s[i + 1]
  OBVIOUS

\* Every step keeps it.
LEMMA ViewerNextInv == ViewerInv /\ [ViewerNext]_viewerVars => ViewerInv'
<1> SUFFICES ASSUME ViewerInv, [ViewerNext]_viewerVars PROVE ViewerInv'
    OBVIOUS
<1> USE DaysAreNumbers
<1>0. /\ today \in Days
      /\ views \in [Days -> Nat] /\ viewerDaily \in [Days -> Nat]
      /\ counting \in [ViewerJobs -> Counting]
      /\ \A j \in ViewerJobs : CountsPast(counting[j])
      /\ \A d \in Days : d > today => views[d] = 0 /\ viewerDaily[d] = 0
      /\ \A d \in Days : viewerDaily[d] <= views[d]
    BY DEF ViewerInv, ViewersCounted
<1>a. \A j \in ViewerJobs : counting[j] \in Counting /\ counting[j].days \in Seq(Days)
    BY <1>0 DEF Counting
<1>b. \A j \in ViewerJobs : counting[j].days # <<>> =>
        Head(counting[j].days) \in Days /\ Head(counting[j].days) <= today
    BY <1>0, <1>a, HeadAndTail DEF CountsPast
<1>1. CASE UNCHANGED viewerVars
    BY <1>1 DEF viewerVars, ViewerInv, CountsPast, ViewersCounted
<1>2. CASE View
  <2>1. views' \in [Days -> Nat] /\ \A d \in Days : views'[d] >= views[d] /\ (d > today => views'[d] = 0)
      BY <1>0, <1>2 DEF View
  <2>2. UNCHANGED <<today, viewerDaily, counting>>
      BY <1>2 DEF View
  <2>3. \A d \in Days : viewerDaily[d] <= views'[d]
      BY <1>0, <2>1
  <2>4. ASSUME NEW j \in ViewerJobs PROVE CountsPast(counting[j])'
    <3>1. CountsPast(counting[j]) /\ counting[j].count \in Int
        BY <1>0, <1>a DEF Counting
    <3>2. counting[j].days # <<>> => views'[Head(counting[j].days)] >= views[Head(counting[j].days)]
                                     /\ views[Head(counting[j].days)] \in Nat /\ views'[Head(counting[j].days)] \in Nat
        BY <1>0, <1>b, <2>1
    <3> QED BY <2>2, <3>1, <3>2 DEF CountsPast
  <2> QED BY <1>0, <2>1, <2>2, <2>3, <2>4 DEF ViewerInv, ViewersCounted
<1>3. CASE NextDay
  <2>1. today' \in Days /\ today' = today + 1 /\ UNCHANGED <<views, viewerDaily, counting>>
      BY <1>3 DEF NextDay
  <2>2. \A d \in Days : d > today' => d > today
      BY <1>0, <2>1
  <2>3. ASSUME NEW j \in ViewerJobs PROVE CountsPast(counting[j])'
    <3>1. \A i \in DOMAIN counting[j].days : counting[j].days[i] \in Nat
      <4>1. counting[j].days \in Seq(Days)
          BY <1>a
      <4>2. \A i \in DOMAIN counting[j].days : counting[j].days[i] \in Days
          BY <4>1
      <4> QED BY <4>2
    <3> QED BY <1>0, <2>1, <3>1 DEF CountsPast
  <2> QED BY <1>0, <2>1, <2>2, <2>3 DEF ViewerInv, ViewersCounted
\* A step of a job: what it has in hand, and the row it may write.
<1>c. ASSUME NEW j \in ViewerJobs, NEW q \in Counting, counting' = [counting EXCEPT ![j] = q],
             CountsPast(q), UNCHANGED <<views, today>>,
             \/ viewerDaily' = viewerDaily
             \/ /\ counting[j].count >= 0
                /\ viewerDaily' = [viewerDaily EXCEPT ![Head(counting[j].days)] = counting[j].count]
      PROVE  ViewerInv'
  <2>1. counting' \in [ViewerJobs -> Counting] /\ \A k \in ViewerJobs : counting'[k] = q \/ counting'[k] = counting[k]
      BY <1>0, <1>c
  <2>2. \A k \in ViewerJobs : CountsPast(counting[k])'
      BY <1>0, <1>c, <2>1 DEF CountsPast
  <2>3. /\ viewerDaily' \in [Days -> Nat] /\ \A d \in Days : viewerDaily'[d] <= views[d]
        /\ \A d \in Days : d > today => viewerDaily'[d] = 0
    <3>1. CASE viewerDaily' = viewerDaily
        BY <1>0, <3>1
    <3>2. CASE /\ counting[j].count >= 0
               /\ viewerDaily' = [viewerDaily EXCEPT ![Head(counting[j].days)] = counting[j].count]
      <4>1. counting[j].days # <<>> /\ counting[j].count <= views[Head(counting[j].days)]
            /\ counting[j].count \in Nat
          BY <1>0, <1>a, <3>2 DEF CountsPast, Counting
      <4>2. Head(counting[j].days) \in Days /\ Head(counting[j].days) <= today
          BY <1>0, <1>b, <4>1
      <4> QED BY <1>0, <3>2, <4>1, <4>2
    <3> QED BY <1>c, <3>1, <3>2
  <2> QED BY <1>0, <1>c, <2>1, <2>2, <2>3 DEF ViewerInv, ViewersCounted
<1>4. ASSUME NEW j \in ViewerJobs, StartCount(j) PROVE ViewerInv'
  <2>1. PICK q : q = [counting[j] EXCEPT !.days = DaysOf(j)]
      OBVIOUS
  <2>2. counting' = [counting EXCEPT ![j] = q]
      BY <1>0, <1>4, <2>1 DEF StartCount
  <2>3. q \in Counting /\ q.days = DaysOf(j) /\ q.count = -1
      BY <1>0, <1>4, <1>a, <2>1, DaysOfPast DEF StartCount, Counting, Still
  <2>4. CountsPast(q)
      BY <1>0, <2>3, DaysOfPast DEF CountsPast
  <2> QED BY <1>4, <1>c, <2>2, <2>3, <2>4 DEF StartCount
<1>5. ASSUME NEW j \in ViewerJobs, CountDay(j) PROVE ViewerInv'
  <2>1. PICK q : q = [counting[j] EXCEPT !.count = views[Head(counting[j].days)]]
      OBVIOUS
  <2>2. counting' = [counting EXCEPT ![j] = q] /\ counting[j].days # <<>>
      BY <1>0, <1>5, <2>1 DEF CountDay
  <2>a. views[Head(counting[j].days)] \in Nat
      BY <1>0, <1>b, <2>2
  <2>3. q \in Counting /\ q.days = counting[j].days /\ q.count = views[Head(counting[j].days)]
      BY <1>a, <2>1, <2>a DEF Counting
  <2>4. CountsPast(q)
      BY <1>0, <2>2, <2>a, <2>3 DEF CountsPast
  <2> QED BY <1>5, <1>c, <2>2, <2>3, <2>4 DEF CountDay
<1>6. ASSUME NEW j \in ViewerJobs, UpsertDay(j) \/ CountDayFails(j) PROVE ViewerInv'
  <2>1. PICK q : q = [days |-> Tail(counting[j].days), count |-> -1]
      OBVIOUS
  <2>2. counting' = [counting EXCEPT ![j] = q] /\ UNCHANGED <<views, today>>
      BY <1>0, <1>6, <2>1 DEF UpsertDay, CountDayFails, DayDone
  <2>3. counting[j].days # <<>>
      BY <1>0, <1>6 DEF UpsertDay, CountDayFails, CountsPast
  <2>4. q \in Counting /\ q.days = Tail(counting[j].days) /\ q.count = -1
      BY <1>a, <2>1, <2>3, HeadAndTail DEF Counting
  <2>5. CountsPast(q)
      BY <1>0, <1>a, <2>3, <2>4, HeadAndTail DEF CountsPast
  <2>6. \/ viewerDaily' = viewerDaily
        \/ /\ counting[j].count >= 0
           /\ viewerDaily' = [viewerDaily EXCEPT ![Head(counting[j].days)] = counting[j].count]
    <3>1. counting[j].count \in Int
        BY <1>a DEF Counting
    <3> QED BY <1>6, <3>1 DEF UpsertDay, CountDayFails
  <2> QED BY <1>c, <2>2, <2>4, <2>5, <2>6
<1> QED BY <1>1, <1>2, <1>3, <1>4, <1>5, <1>6 DEF ViewerNext, ViewerStep

\* It holds in every reachable state.
LEMMA ViewerAlways == ViewerSpec => []ViewerInv
  BY ViewerInitInv, ViewerNextInv, PTL DEF ViewerSpec

\* No day's row counts views the day never had, however the two jobs overlap and
\* fail (syncViewerDay).
THEOREM ViewsAreCounted == ViewerSpec => []ViewersCounted
<1>1. ViewerInv => ViewersCounted
    BY DEF ViewerInv
<1> QED BY <1>1, ViewerAlways, PTL

----------------------------------------------------------------------------
(* Search indices *)

\* A page is short only when it is the last, and no row of it comes after the next
\* offset.
LEMMA PageLemma ==
  ASSUME NEW S \in SUBSET Nat, IsFiniteSet(S), NEW off \in Nat, NEW size \in Nat \ {0}
  PROVE  LET R(x) == Cardinality({e \in S : e < x})
             P == {d \in S : R(d) \in off..(off + size - 1)}
         IN  /\ Cardinality(P) \in Nat
             /\ \A x \in S : R(x) \in Nat /\ R(x) < Cardinality(S)
             /\ \A x \in S : R(x) >= off /\ R(x) < off + Cardinality(P) => x \in P
             /\ Cardinality(P) < size => \A x \in S : R(x) < off + Cardinality(P)
<1> DEFINE R(x) == Cardinality({e \in S : e < x})
           P == {d \in S : R(d) \in off..(off + size - 1)}
           n == Cardinality(S)
<1>1. /\ n \in Nat /\ \A x \in S : R(x) \in 0..(n - 1)
      /\ \A x, y \in S : R(x) = R(y) => x = y
      /\ \A k \in 0..(n - 1) : \E x \in S : R(x) = k
    BY RanksAreInterval
<1> HIDE DEF R
<1>2. IsFiniteSet(P) /\ Cardinality(P) \in Nat
  <2>1. P \in SUBSET S
      OBVIOUS
  <2> QED BY <2>1, FS_Subset, FS_CardinalityType
<1>3. Cardinality(P) <= size
  <2> DEFINE f == [d \in P |-> R(d)]
             T == off..(off + size - 1)
  <2>1. f \in [P -> T]
      OBVIOUS
  <2>2. IsInjective(f)
      BY <1>1 DEF IsInjective
  <2>3. f \in Injection(P, T)
    <3> HIDE DEF f, P, T
    <3> QED BY <2>1, <2>2 DEF Injection
  <2>4. IsFiniteSet(T) /\ Cardinality(T) = size
    <3>1. off \in Int /\ off + size - 1 \in Int
        OBVIOUS
    <3>2. IsFiniteSet(T) /\ Cardinality(T) = IF off > off + size - 1 THEN 0 ELSE off + size - 1 - off + 1
        BY <3>1, FS_Interval
    <3> QED BY <3>2
  <2> HIDE DEF f, P, T
  <2> QED BY <2>3, <2>4, FS_Injection
<1>4. ASSUME NEW x \in S, R(x) >= off, R(x) < off + Cardinality(P) PROVE x \in P
    BY <1>1, <1>2, <1>3, <1>4
<1>5. ASSUME Cardinality(P) < size, NEW x \in S, ~(R(x) < off + Cardinality(P)) PROVE FALSE
  <2> DEFINE m == off + Cardinality(P)
             T == off..m
             g == [k \in T |-> CHOOSE y \in S : R(y) = k]
  <2>1. m \in Nat /\ m >= off /\ m <= off + size - 1 /\ m <= n - 1
      BY <1>1, <1>2, <1>5
  <2> HIDE DEF m, P
  <2>2. \A k \in T : g[k] \in S /\ R(g[k]) = k
    <3> SUFFICES ASSUME NEW k \in T PROVE g[k] \in S /\ R(g[k]) = k
        OBVIOUS
    <3>1. k \in 0..(n - 1)
        BY <1>1, <2>1
    <3>2. \E y \in S : R(y) = k
        BY <1>1, <3>1
    <3>3. g[k] = CHOOSE y \in S : R(y) = k
        OBVIOUS
    <3> HIDE DEF g
    <3> QED BY <3>2, <3>3
  <2>3. g \in [T -> P]
    <3>1. \A k \in T : g[k] \in P
        BY <2>1, <2>2 DEF P
    <3> QED BY <3>1
  <2>4. IsInjective(g)
    <3>1. DOMAIN g = T
        OBVIOUS
    <3> HIDE DEF g
    <3> QED BY <2>2, <3>1 DEF IsInjective
  <2> HIDE DEF g
  <2>5. g \in Injection(T, P)
      BY <2>3, <2>4 DEF Injection
  <2>6. Cardinality(T) <= Cardinality(P)
      BY <1>2, <2>5, FS_Injection
  <2>7. Cardinality(T) = Cardinality(P) + 1
    <3>1. off \in Int /\ m \in Int
        BY <2>1
    <3>2. Cardinality(T) = IF off > m THEN 0 ELSE m - off + 1
        BY <3>1, FS_Interval
    <3>3. m = off + Cardinality(P)
        BY DEF m
    <3> QED BY <1>2, <2>1, <3>2, <3>3
  <2> QED BY <1>2, <2>6, <2>7
<1> HIDE DEF P, n
<1>6. \A x \in S : R(x) \in Nat /\ R(x) < n
    BY <1>1
<1>7. Cardinality(P) < size => \A x \in S : R(x) < off + Cardinality(P)
    BY <1>5
<1>8. \A x \in S : R(x) >= off /\ R(x) < off + Cardinality(P) => x \in P
    BY <1>4
<1> QED BY <1>2, <1>6, <1>7, <1>8 DEF P, n, R

----------------------------------------------------------------------------

\* A rebuild.
Rebuilds == [pc : {"idle", "read", "delete", "create", "load"}, at : DOMAIN Indices, base : Nat,
             rows : SUBSET Docs, offset : Nat]
IndexNames == ToSet(Indices)

\* The types.
IndexTypes ==
  /\ source \in [IndexNames -> SUBSET Docs] /\ docEdits \in 0..MaxDocEdits
  /\ index \in [IndexNames -> (SUBSET Docs) \cup {NoIndex}]
  /\ loaded \in [IndexNames -> (SUBSET Docs) \cup {NoIndex}]
  /\ run \in Rebuilds /\ run.base \in DOMAIN Bases[run.at]
  /\ stable \subseteq Docs /\ shifted \in BOOLEAN
  /\ stale \subseteq IndexNames /\ broken \subseteq IndexNames
  /\ indexFaults \in 0..MaxIndexFaults

\* While no row is deleted under a read, every row that was there all the while and
\* comes before the offset has been read.
ReadSoFar ==
  Running("read") => shifted \/ (stable \subseteq source[Current]
                                 /\ \A x \in stable : Rank(x) < run.offset => x \in run.rows)

\* Until its load, an index in work is gone or empty, unless its delete was refused.
Emptied ==
  /\ Running("create") => index[Current] = NoIndex \/ Current \in stale
  /\ Running("load") => index[Current] = {} \/ (Current \in stale /\ index[Current] \subseteq Docs)

\* The inductive invariant of the rebuilds.
IndexInv ==
  /\ IndexTypes /\ ReadSoFar /\ Emptied
  /\ PagedReadComplete /\ IndexTrue

\* There is a first index, and each has a first replica.
LEMMA IndexAssumed ==
  /\ \A i \in DOMAIN Indices : Indices[i] \in IndexNames /\ 1 \in DOMAIN Bases[i]
  /\ DOMAIN Indices = 1..Len(Indices) /\ Len(Indices) \in Nat \ {0} /\ 1 \in DOMAIN Indices
  /\ \A i \in DOMAIN Indices : DOMAIN Bases[i] = 1..Len(Bases[i]) /\ Len(Bases[i]) \in Nat \ {0}
<1>1. /\ DOMAIN Indices = 1..Len(Indices) /\ Len(Indices) \in Nat \ {0}
      /\ \A i \in DOMAIN Indices : Indices[i] \in ToSet(Indices)
    BY IndexAssumption
<1>2. ASSUME NEW i \in DOMAIN Indices
      PROVE  DOMAIN Bases[i] = 1..Len(Bases[i]) /\ Len(Bases[i]) \in Nat \ {0}
  <2>1. Bases[i] \in Seq(ToSet(Bases[i])) /\ Bases[i] # <<>>
      BY IndexAssumption
  <2> QED BY <2>1
<1>3. 1 \in DOMAIN Indices /\ \A i \in DOMAIN Indices : 1 \in DOMAIN Bases[i]
    BY <1>1, <1>2
<1> QED BY <1>1, <1>2, <1>3 DEF IndexNames

\* A table is a finite set of numbers.
LEMMA DocsFinite == ASSUME NEW S \in SUBSET Docs PROVE IsFiniteSet(S) /\ S \in SUBSET Nat
  BY IndexAssumption, FS_Subset

\* A rebuild that is over.
LEMMA WaitingRebuilds ==
  Waiting \in Rebuilds /\ Waiting.pc = "idle" /\ Waiting.at = 1 /\ Waiting.base = 1
  BY IndexAssumed DEF Waiting, Rebuilds

\* It holds before any rebuild.
LEMMA IndexInitInv == IndexInit => IndexInv
<1> SUFFICES ASSUME IndexInit PROVE IndexInv
    OBVIOUS
<1>1. index \in [IndexNames -> (SUBSET Docs) \cup {NoIndex}] /\ loaded = index
    BY DEF IndexInit, IndexNames
<1>2. 0 \in 0..MaxDocEdits /\ 0 \in 0..MaxIndexFaults
    BY IndexAssumption
<1>3. run \in Rebuilds /\ run.pc = "idle" /\ run.base \in DOMAIN Bases[run.at]
    BY WaitingRebuilds, IndexAssumed DEF IndexInit
<1>4. IndexTypes
  <2>1. source \in [IndexNames -> SUBSET Docs] /\ docEdits = 0 /\ indexFaults = 0
        /\ stable = {} /\ stale = {} /\ broken = {}
      BY DEF IndexInit, IndexNames
  <2>2. shifted \in BOOLEAN
      BY DEF IndexInit
  <2> QED BY <1>1, <1>2, <1>3, <2>1, <2>2 DEF IndexTypes
<1> QED BY <1>1, <1>3, <1>4 DEF IndexInv, ReadSoFar, Emptied, PagedReadComplete, IndexTrue, Running, IndexNames

\* Every step keeps it.
LEMMA IndexNextInv == IndexInv /\ [IndexNext]_indexVars => IndexInv'
<1> SUFFICES ASSUME IndexInv, [IndexNext]_indexVars PROVE IndexInv'
    OBVIOUS
<1>0. IndexTypes /\ ReadSoFar /\ Emptied /\ PagedReadComplete /\ IndexTrue
    BY DEF IndexInv
<1>c. Current \in IndexNames /\ run.at \in DOMAIN Indices /\ source[Current] \in SUBSET Docs
    BY <1>0, IndexAssumed DEF IndexTypes, Rebuilds, Current
<1>f. IndexFault => indexFaults' \in 0..MaxIndexFaults
    BY <1>0, IndexAssumption DEF IndexFault, IndexTypes
<1>1. CASE UNCHANGED indexVars
    BY <1>0, <1>1 DEF indexVars, IndexInv, IndexTypes, ReadSoFar, Emptied, PagedReadComplete, IndexTrue,
       Running, Current, Rank
<1>2. ASSUME NEW i \in IndexNames, NEW d \in Docs, EditDoc(i, d) PROVE IndexInv'
  <2>1. /\ UNCHANGED <<index, run, stale, loaded, broken, indexFaults>>
        /\ source' = [source EXCEPT ![i] = IF d \in @ THEN @ \ {d} ELSE @ \cup {d}]
        /\ docEdits' \in 0..MaxDocEdits
      BY <1>0, <1>2, IndexAssumption DEF EditDoc, IndexTypes
  <2>2. \/ /\ Running("read") /\ i = Current /\ stable' = stable \ {d}
           /\ shifted' = (shifted \/ d \in source[i])
        \/ ~(Running("read") /\ i = Current) /\ UNCHANGED <<stable, shifted>>
      BY <1>2 DEF EditDoc
  <2>3. IndexTypes'
    <3>1. source' \in [IndexNames -> SUBSET Docs]
        BY <1>0, <2>1 DEF IndexTypes
    <3>2. stable' \subseteq Docs /\ shifted' \in BOOLEAN
        BY <1>0, <2>2 DEF IndexTypes
    <3> QED BY <1>0, <2>1, <3>1, <3>2 DEF IndexTypes
  <2>4. Emptied' /\ IndexTrue'
      BY <1>0, <2>1 DEF Emptied, IndexTrue, Running, Current
  <2>5. PagedReadComplete'
      BY <1>0, <2>1, <2>2 DEF PagedReadComplete, Running
  <2>6. ReadSoFar'
    <3> SUFFICES ASSUME Running("read"), ~shifted'
                 PROVE  /\ stable' \subseteq source'[Current]
                        /\ \A x \in stable' : Rank(x)' < run.offset => x \in run.rows
        BY <2>1 DEF ReadSoFar, Running, Current
    <3>1. stable \subseteq source[Current] /\ \A x \in stable : Rank(x) < run.offset => x \in run.rows
        BY <1>0, <2>2 DEF ReadSoFar
    <3>2. CASE i # Current
      <4>1. source'[Current] = source[Current] /\ stable' = stable
          BY <1>0, <1>c, <2>1, <2>2, <3>2 DEF IndexTypes
      <4>2. Current' = Current
          BY <2>1 DEF Current
      <4>3. \A x : Rank(x)' = Rank(x)
          BY <4>1, <4>2 DEF Rank
      <4> QED BY <3>1, <4>1, <4>3
    <3>3. CASE i = Current
      <4>1. d \notin source[Current] /\ stable' = stable \ {d}
          BY <2>2, <3>3
      <4>2. source'[Current] = source[Current] \cup {d}
          BY <1>0, <1>c, <2>1, <3>3, <4>1 DEF IndexTypes
      <4>3. Current' = Current
          BY <2>1 DEF Current
      <4>4. ASSUME NEW x \in stable', Rank(x)' < run.offset PROVE x \in run.rows
        <5> DEFINE A == {e \in source[Current] : e < x}
                   B == {e \in source'[Current] : e < x}
        <5>1. Rank(x)' = Cardinality(B) /\ Rank(x) = Cardinality(A)
            BY <4>3 DEF Rank
        <5>2. A \in SUBSET B /\ B \in SUBSET Docs
            BY <1>c, <4>2
        <5> HIDE DEF A, B
        <5>3. IsFiniteSet(B) /\ IsFiniteSet(A)
            BY <5>2, DocsFinite, FS_Subset
        <5>4. Cardinality(A) <= Cardinality(B) /\ Cardinality(A) \in Nat /\ Cardinality(B) \in Nat
            BY <5>2, <5>3, FS_Subset, FS_CardinalityType
        <5>5. run.offset \in Nat
            BY <1>0 DEF IndexTypes, Rebuilds
        <5> QED BY <3>1, <4>1, <4>4, <5>1, <5>4, <5>5
      <4> QED BY <3>1, <4>1, <4>2, <4>4
    <3> QED BY <3>2, <3>3
  <2> QED BY <2>3, <2>4, <2>5, <2>6 DEF IndexInv
\* The read of an index begins at one of its bases.
<1>r. ASSUME NEW at \in DOMAIN Indices, NEW base \in DOMAIN Bases[at], ReadFrom(at, base),
             UNCHANGED <<source, docEdits>>,
             index' \in [IndexNames -> (SUBSET Docs) \cup {NoIndex}],
             loaded' \in [IndexNames -> (SUBSET Docs) \cup {NoIndex}],
             stale' \subseteq IndexNames, broken' \subseteq IndexNames, indexFaults' \in 0..MaxIndexFaults,
             \A i \in IndexNames : index'[i] = loaded'[i] \/ i \in broken' \cup stale'
      PROVE  IndexInv'
  <2>1. PICK q : q = [Waiting EXCEPT !.pc = "read", !.at = at, !.base = base]
      OBVIOUS
  <2>2. base \in Nat
      BY IndexAssumed
  <2>3. run' = q /\ q \in Rebuilds /\ q.pc = "read" /\ q.at = at /\ q.base = base /\ q.offset = 0
      BY <1>r, <2>1, <2>2 DEF ReadFrom, Waiting, Rebuilds
  <2>4. stable' = source[Indices[at]] /\ shifted' = FALSE
      BY <1>r DEF ReadFrom
  <2>5. source[Indices[at]] \in SUBSET Docs /\ Current' = Indices[at]
      BY <1>0, <2>3, IndexAssumed DEF IndexTypes, Current
  <2>6. IndexTypes'
      BY <1>0, <1>r, <2>3, <2>4, <2>5 DEF IndexTypes
  <2>7. \A x \in stable' : ~(Rank(x)' < run'.offset)
    <3> SUFFICES ASSUME NEW x \in stable' PROVE ~(Rank(x)' < run'.offset)
        OBVIOUS
    <3> DEFINE B == {e \in source'[Current'] : e < x}
    <3>1. Rank(x)' = Cardinality(B)
        BY DEF Rank
    <3>2. B \in SUBSET Docs
        BY <1>r, <2>5
    <3> HIDE DEF B
    <3>3. Cardinality(B) \in Nat
        BY <3>2, DocsFinite, FS_CardinalityType
    <3> QED BY <2>3, <3>1, <3>3
  <2>8. ReadSoFar'
      BY <1>r, <2>4, <2>5, <2>7 DEF ReadSoFar
  <2>9. Emptied' /\ PagedReadComplete' /\ IndexTrue'
      BY <1>r, <2>3 DEF Emptied, PagedReadComplete, IndexTrue, Running, IndexNames
  <2> QED BY <2>6, <2>8, <2>9 DEF IndexInv
\* A run ends.
<1>g. ASSUME GiveUp, UNCHANGED <<source, docEdits>>,
             index' \in [IndexNames -> (SUBSET Docs) \cup {NoIndex}],
             loaded' \in [IndexNames -> (SUBSET Docs) \cup {NoIndex}],
             stale' \subseteq IndexNames, broken' \subseteq IndexNames, indexFaults' \in 0..MaxIndexFaults,
             \A i \in IndexNames : index'[i] = loaded'[i] \/ i \in broken' \cup stale'
      PROVE  IndexInv'
  <2>1. run' = Waiting /\ UNCHANGED <<stable, shifted>>
      BY <1>g DEF GiveUp
  <2>2. IndexTypes'
      BY <1>0, <1>g, <2>1, WaitingRebuilds, IndexAssumed DEF IndexTypes
  <2>3. run'.pc = "idle"
      BY <2>1, WaitingRebuilds
  <2> QED BY <1>g, <2>2, <2>3 DEF IndexInv, ReadSoFar, Emptied, PagedReadComplete, IndexTrue, Running, IndexNames
<1>i. /\ ~Running("create") /\ ~Running("load") =>
           \A i \in IndexNames : index[i] = loaded[i] \/ i \in broken \cup stale
      /\ \A i \in IndexNames \ {Current} : index[i] = loaded[i] \/ i \in broken \cup stale
    BY <1>0 DEF IndexTrue, Running, IndexNames
<1>3. CASE StartFull
    BY <1>0, <1>3, <1>i, <1>r, IndexAssumed DEF StartFull, IndexTypes, Running
<1>4. CASE ReadFails
  <2>1. CASE run.base < Len(Bases[run.at]) /\ ReadFrom(run.at, run.base + 1)
    <3>1. run.base + 1 \in DOMAIN Bases[run.at]
        BY <1>0, <1>c, <2>1, IndexAssumed DEF IndexTypes
    <3> QED BY <1>0, <1>4, <1>c, <1>f, <1>i, <1>r, <2>1, <3>1 DEF ReadFails, IndexTypes, Running
  <2>2. CASE GiveUp
      BY <1>0, <1>4, <1>f, <1>i, <1>g, <2>2 DEF ReadFails, IndexTypes, Running
  <2> QED BY <1>4, <2>1, <2>2 DEF ReadFails
\* A step of the run within its index.
<1>s. ASSUME NEW q \in Rebuilds, run' = q, q.at = run.at, q.base = run.base,
             UNCHANGED <<source, docEdits, stable, shifted, loaded, broken>>,
             index' \in [IndexNames -> (SUBSET Docs) \cup {NoIndex}],
             stale' \subseteq IndexNames, indexFaults' \in 0..MaxIndexFaults
      PROVE  IndexTypes' /\ Current' = Current
    BY <1>0, <1>s DEF IndexTypes, Current
<1>5. CASE ReadPage
  <2> DEFINE size == Cardinality(Page)
             last == size < PageSize \/ (Current # Joomla /\ run.offset + size >= Cardinality(source[Current]))
  <2>1. Running("read") /\ UNCHANGED <<source, docEdits, index, stable, shifted, stale, loaded, broken, indexFaults>>
      BY <1>5 DEF ReadPage
  <2>2. PICK step \in {"read", "delete"} : step = IF last THEN "delete" ELSE "read"
      OBVIOUS
  <2>3. PICK q : q = [run EXCEPT !.rows = @ \cup Page, !.offset = run.offset + size, !.pc = step]
      OBVIOUS
  <2>4. run' = q
      BY <1>5, <2>2, <2>3 DEF ReadPage
  <2>a. run.offset \in Nat /\ PageSize \in Nat \ {0}
      BY <1>0, IndexAssumption DEF IndexTypes, Rebuilds
  <2>5. /\ size \in Nat
        /\ \A x \in source[Current] : Rank(x) \in Nat /\ Rank(x) < Cardinality(source[Current])
        /\ \A x \in source[Current] : Rank(x) >= run.offset /\ Rank(x) < run.offset + size => x \in Page
        /\ size < PageSize => \A x \in source[Current] : Rank(x) < run.offset + size
    <3>1. IsFiniteSet(source[Current]) /\ source[Current] \in SUBSET Nat
        BY <1>c, DocsFinite
    <3> QED BY <2>a, <3>1, PageLemma DEF Page, Rank
  <2>6. Cardinality(source[Current]) \in Nat
      BY <1>c, DocsFinite, FS_CardinalityType
  <2>b. Page \subseteq Docs
      BY <1>c DEF Page
  <2> HIDE DEF size
  <2>7. q \in Rebuilds /\ q.at = run.at /\ q.base = run.base /\ q.rows = run.rows \cup Page
        /\ q.offset = run.offset + size /\ q.pc = step
    <3>1. /\ run \in Rebuilds /\ run.rows \cup Page \in SUBSET Docs /\ run.offset + size \in Nat
          /\ step \in {"idle", "read", "delete", "create", "load"}
        BY <1>0, <2>2, <2>5, <2>a, <2>b DEF IndexTypes, Rebuilds
    <3>2. q = [run EXCEPT !.rows = run.rows \cup Page, !.offset = run.offset + size, !.pc = step]
        BY <2>3
    <3> HIDE DEF last
    <3> QED BY <3>1, <3>2 DEF Rebuilds
  <2>8. IndexTypes' /\ Current' = Current
      BY <1>0, <1>s, <2>1, <2>4, <2>7 DEF IndexTypes
  <2>9. \A x : Rank(x)' = Rank(x)
      BY <2>1, <2>8 DEF Rank
  <2>10. ASSUME ~shifted
         PROVE  /\ stable \subseteq source[Current]
                /\ \A x \in stable : Rank(x) < run.offset + size => x \in run.rows \cup Page
    <3>1. stable \subseteq source[Current] /\ \A x \in stable : Rank(x) < run.offset => x \in run.rows
        BY <1>0, <2>1, <2>10 DEF ReadSoFar
    <3>2. \A x \in stable : Rank(x) < run.offset \/ Rank(x) >= run.offset
        BY <2>5, <2>a, <3>1
    <3> QED BY <2>5, <3>1, <3>2
  <2>11. ReadSoFar'
      BY <2>1, <2>4, <2>7, <2>8, <2>9, <2>10 DEF ReadSoFar
  <2>12. PagedReadComplete'
    <3> SUFFICES ASSUME ~shifted, step = "delete" PROVE stable \subseteq run.rows \cup Page
        BY <2>1, <2>2, <2>4, <2>7 DEF PagedReadComplete
    <3>1. \A x \in source[Current] : Rank(x) < run.offset + size
        BY <2>2, <2>5, <2>6, <2>a
    <3> QED BY <2>10, <3>1
  <2>13. Emptied' /\ IndexTrue'
      BY <1>i, <2>1, <2>2, <2>4, <2>7 DEF Emptied, IndexTrue, Running, IndexNames
  <2> QED BY <2>8, <2>11, <2>12, <2>13 DEF IndexInv
<1>6. CASE DeleteIndex \/ DeleteRefused
  <2>1. PICK q : q = [run EXCEPT !.pc = "create"]
      OBVIOUS
  <2>2. /\ run' = q /\ Running("delete")
        /\ UNCHANGED <<source, docEdits, stable, shifted, loaded, broken>>
        /\ \/ /\ index' = [index EXCEPT ![Current] = NoIndex]
              /\ stale' = stale \ {Current}
           \/ index' = index /\ stale' = stale \cup {Current}
      BY <1>6, <2>1 DEF DeleteIndex, DeleteRefused, Goto
  <2>3. q \in Rebuilds /\ q.at = run.at /\ q.base = run.base /\ q.rows = run.rows /\ q.pc = "create"
      BY <1>0, <2>1 DEF IndexTypes, Rebuilds
  <2>4. /\ index' \in [IndexNames -> (SUBSET Docs) \cup {NoIndex}]
        /\ \A i \in IndexNames \ {Current} : index'[i] = index[i] /\ (i \in stale' <=> i \in stale)
        /\ index'[Current] = NoIndex \/ Current \in stale'
        /\ stale' \subseteq IndexNames
      BY <1>0, <1>c, <2>2 DEF IndexTypes
  <2>5. indexFaults' \in 0..MaxIndexFaults
      BY <1>0, <1>6, <1>f DEF DeleteIndex, DeleteRefused, IndexTypes
  <2>6. IndexTypes' /\ Current' = Current
      BY <1>s, <2>2, <2>3, <2>4, <2>5
  <2>7. ReadSoFar' /\ Emptied' /\ PagedReadComplete'
      BY <1>0, <2>2, <2>3, <2>4, <2>6 DEF ReadSoFar, Emptied, PagedReadComplete, Running
  <2>8. IndexTrue'
      BY <1>i, <2>2, <2>3, <2>4, <2>6 DEF IndexTrue, IndexNames, Running
  <2> QED BY <2>6, <2>7, <2>8 DEF IndexInv
<1>7. CASE CreateIndex
  <2>1. PICK q : q = [run EXCEPT !.pc = "load"]
      OBVIOUS
  <2>2. /\ run' = q /\ Running("create")
        /\ UNCHANGED <<source, docEdits, stable, shifted, loaded, broken, stale, indexFaults>>
        /\ index' = [index EXCEPT ![Current] = IF @ = NoIndex THEN {} ELSE @]
      BY <1>7, <2>1 DEF CreateIndex, Goto
  <2>3. q \in Rebuilds /\ q.at = run.at /\ q.base = run.base /\ q.rows = run.rows /\ q.pc = "load"
      BY <1>0, <2>1 DEF IndexTypes, Rebuilds
  <2>4. /\ index' \in [IndexNames -> (SUBSET Docs) \cup {NoIndex}]
        /\ \A i \in IndexNames \ {Current} : index'[i] = index[i]
        /\ index'[Current] = {} \/ (Current \in stale /\ index'[Current] \subseteq Docs)
      BY <1>0, <1>c, <2>2 DEF IndexTypes, Emptied
  <2>6. IndexTypes' /\ Current' = Current
      BY <1>0, <1>s, <2>2, <2>3, <2>4 DEF IndexTypes
  <2>7. ReadSoFar' /\ Emptied' /\ PagedReadComplete'
      BY <1>0, <2>2, <2>3, <2>4, <2>6 DEF ReadSoFar, Emptied, PagedReadComplete, Running
  <2>8. IndexTrue'
      BY <1>i, <2>2, <2>3, <2>4, <2>6 DEF IndexTrue, IndexNames, Running
  <2> QED BY <2>6, <2>7, <2>8 DEF IndexInv
<1>8. CASE LoadIndex
  <2>1. /\ Running("load") /\ UNCHANGED <<source, docEdits, stale, indexFaults>>
        /\ index' = [index EXCEPT ![Current] = @ \cup run.rows]
        /\ loaded' = [loaded EXCEPT ![Current] = run.rows]
        /\ broken' = broken \ {Current}
      BY <1>8 DEF LoadIndex
  <2>2. run.rows \in SUBSET Docs
      BY <1>0 DEF IndexTypes, Rebuilds
  <2>3. index[Current] \in SUBSET Docs /\ (index[Current] = {} \/ Current \in stale)
      BY <1>0, <2>1 DEF Emptied
  <2>4. \A i \in IndexNames : index'[i] = loaded'[i] \/ i \in broken' \cup stale'
      BY <1>0, <1>c, <1>i, <2>1, <2>3 DEF IndexTypes
  <2>5. loaded' \in [IndexNames -> (SUBSET Docs) \cup {NoIndex}]
        /\ stale' \subseteq IndexNames /\ broken' \subseteq IndexNames /\ indexFaults' \in 0..MaxIndexFaults
      BY <1>0, <1>c, <2>1, <2>2 DEF IndexTypes
  <2>6. index' \in [IndexNames -> (SUBSET Docs) \cup {NoIndex}]
      BY <1>0, <1>c, <2>1, <2>2, <2>3 DEF IndexTypes
  <2>7. CASE run.at < Len(Indices) /\ ReadFrom(run.at + 1, 1)
    <3>1. run.at + 1 \in DOMAIN Indices /\ 1 \in DOMAIN Bases[run.at + 1]
        BY <1>c, <2>7, IndexAssumed
    <3> QED BY <1>r, <2>1, <2>4, <2>5, <2>6, <2>7, <3>1
  <2>8. CASE GiveUp
      BY <1>g, <2>1, <2>4, <2>5, <2>6, <2>8
  <2> QED BY <1>8, <2>7, <2>8 DEF LoadIndex, NextIndex
<1>9. CASE RebuildFails
  <2>1. /\ GiveUp /\ UNCHANGED <<source, docEdits, stale, loaded>> /\ broken' = broken \cup {Current}
        /\ IndexFault
      BY <1>9 DEF RebuildFails
  <2>2. PICK some \in SUBSET run.rows :
          \/ index' = index
          \/ index' = [index EXCEPT ![Current] = NoIndex]
          \/ index' = [index EXCEPT ![Current] = IF @ = NoIndex THEN {} ELSE @]
          \/ Running("load") /\ index' = [index EXCEPT ![Current] = @ \cup some]
      BY <1>9 DEF RebuildFails
  <2>3. some \in SUBSET Docs
      BY <1>0 DEF IndexTypes, Rebuilds
  <2>4. Running("load") => index[Current] \in SUBSET Docs
      BY <1>0 DEF Emptied
  <2>5. /\ index' \in [IndexNames -> (SUBSET Docs) \cup {NoIndex}]
        /\ \A i \in IndexNames \ {Current} : index'[i] = index[i]
    <3>1. CASE index' = index
        BY <1>0, <3>1 DEF IndexTypes
    <3>2. CASE index' = [index EXCEPT ![Current] = NoIndex]
        BY <1>0, <3>2 DEF IndexTypes
    <3>3. CASE index' = [index EXCEPT ![Current] = IF @ = NoIndex THEN {} ELSE @]
        BY <1>0, <1>c, <3>3 DEF IndexTypes
    <3>4. CASE Running("load") /\ index' = [index EXCEPT ![Current] = @ \cup some]
      <4>1. index[Current] \cup some \in SUBSET Docs
          BY <2>3, <2>4, <3>4
      <4> QED BY <1>0, <1>c, <3>4, <4>1 DEF IndexTypes
    <3> QED BY <2>2, <3>1, <3>2, <3>3, <3>4
  <2>6. \A i \in IndexNames : index'[i] = loaded'[i] \/ i \in broken' \cup stale'
      BY <1>i, <2>1, <2>5
  <2>7. broken' \subseteq IndexNames /\ stale' \subseteq IndexNames
        /\ loaded' \in [IndexNames -> (SUBSET Docs) \cup {NoIndex}]
      BY <1>0, <1>c, <2>1 DEF IndexTypes
  <2> QED BY <1>f, <1>g, <2>1, <2>5, <2>6, <2>7
<1> QED BY <1>1, <1>2, <1>3, <1>4, <1>5, <1>6, <1>7, <1>8, <1>9 DEF IndexNext, IndexStep, IndexNames

\* It gives the type invariant.
LEMMA IndexInvTypes == IndexInv => IndexTypeOK
  BY DEF IndexInv, IndexTypes, IndexTypeOK, Rebuilds, IndexNames

\* It holds in every reachable state.
LEMMA IndexAlways == IndexSpec => []IndexInv
  BY IndexInitInv, IndexNextInv, PTL DEF IndexSpec

\* A read that is complete has every row that was there all the while, for any
\* table, page size and number of failing replicas (replicaRead).
THEOREM ReadsAreComplete == IndexSpec => []PagedReadComplete
<1>1. IndexInv => PagedReadComplete
    BY DEF IndexInv
<1> QED BY <1>1, IndexAlways, PTL

\* An index holds what it was loaded with, but for refused deletes and failed
\* rebuilds (rebuildIndex).
THEOREM IndicesAreTrue == IndexSpec => []IndexTrue
<1>1. IndexInv => IndexTrue
    BY DEF IndexInv
<1> QED BY <1>1, IndexAlways, PTL

----------------------------------------------------------------------------
(* The algorithms *)

\* Answers are right in every reachable state.
LEMMA AnswersAlways == Spec => []AnswersRight
<1>1. Init => AnswersRight
    BY AnswersInit DEF Init
<1>2. AnswersRight /\ [Next]_vars => AnswersRight'
  <2>1. [Next]_vars => [AlgorithmNext]_algorithmVars
      BY DEF Next, vars, algorithmVars
  <2> QED BY <2>1, AnswersNext
<1> QED BY <1>1, <1>2, PTL DEF Spec

\* The program that the chat managers open a room for is the first that is on by
\* the calendar, but for the named hours past midnight, for any week, any length of
\* the day and any programs (activeProgramAt).
THEOREM OnAirIsRight == Spec => []AirRight
<1>1. AnswersRight => AirRight
    BY DEF AnswersRight
<1> QED BY <1>1, AnswersAlways, PTL

\* Every answer of the pure algorithms is right, whatever the task: the EPG lists
\* what airs, shares add up, the top content leaves out nothing that should be in
\* it, the catalog is complete and in order, and a filter is split without loss.
THEOREM AlgorithmsAreRight == Spec => []AlgorithmsRight
<1> QED BY AnswersAreRight, AnswersAlways, PTL

----------------------------------------------------------------------------
(* The parts side by side *)

\* The inductive invariant of all the parts.
ContentInv == OnDemandInv /\ BunnyInv /\ RadioInv /\ EpgInv /\ ViewerInv /\ IndexInv

\* The viewer sync draws its failures from the bound of the mirror's.
LEMMA FaultElsewhere ==
  ASSUME EpgInv, UNCHANGED lineupVars, epgFaults' \in 0..MaxEpgFaults
  PROVE  EpgInv'
<1>1. /\ lineup' = lineup /\ lineupEdits' = lineupEdits /\ metadata' = metadata /\ radioRows' = radioRows
      /\ mirror' = mirror /\ epgSpent' = epgSpent /\ tangled' = tangled /\ torn' = torn
    BY DEF lineupVars
<1>2. EpgTypes'
    BY <1>1 DEF EpgInv, EpgTypes
<1>3. KeysOfLineup' /\ RefusedFor'
    BY <1>1 DEF EpgInv, KeysOfLineup, RefusedFor, Ids, Clashes
<1>4. MirrorSound => MirrorSound'
    BY <1>1 DEF MirrorSound, OneMirror, Single, Filling, Copying, TablesAgree, Mirroring, Copied, Ids
<1> QED BY <1>1, <1>2, <1>3, <1>4 DEF EpgInv

\* The parts' initial states.
LEMMA ContentInitInv == Init => ContentInv
<1>1. Init => OnDemandInit /\ BunnyInit /\ RadioInit /\ EpgInit /\ ViewerInit /\ IndexInit
    BY DEF Init
<1> QED BY <1>1, OnDemandInitInv, BunnyInitInv, RadioInitInv, EpgInitInv, ViewerInitInv, IndexInitInv
        DEF ContentInv

\* A step is a step of one part and leaves the others as they are.
LEMMA ContentNextInv == ContentInv /\ [Next]_vars => ContentInv'
<1> SUFFICES ASSUME ContentInv, [Next]_vars PROVE ContentInv'
    OBVIOUS
<1>1. /\ [OnDemandNext]_onDemandVars /\ [BunnyNext]_bunnyVars /\ [RadioNext]_radioVars
      /\ [ViewerNext]_viewerVars /\ [IndexNext]_indexVars
    BY DEF Next, vars
<1>2. [EpgNext]_epgVars \/ (UNCHANGED lineupVars /\ ViewerNext)
    BY DEF Next, vars
<1>3. EpgInv'
  <2>1. CASE [EpgNext]_epgVars
      BY <2>1, EpgNextInv DEF ContentInv
  <2>2. CASE UNCHANGED lineupVars /\ ViewerNext
    <3>1. epgFaults \in 0..MaxEpgFaults
        BY DEF ContentInv, EpgInv, EpgTypes
    <3>2. epgFaults' = epgFaults \/ EpgFault
        BY <2>2 DEF ViewerNext
    <3>3. epgFaults' \in 0..MaxEpgFaults
        BY <3>1, <3>2, EpgAssumption DEF EpgFault
    <3> QED BY <2>2, <3>3, FaultElsewhere DEF ContentInv
  <2> QED BY <1>2, <2>1, <2>2
<1> QED BY <1>1, <1>3, OnDemandNextInv, BunnyNextInv, RadioNextInv, ViewerNextInv, IndexNextInv
        DEF ContentInv

\* The invariant holds in every reachable state of the whole.
LEMMA ContentAlways == Spec => []ContentInv
  BY ContentInitInv, ContentNextInv, PTL DEF Spec

\* Every variable of every part has its type in every reachable state, for any
\* shows, videos, songs, programs, days, documents and bounds.
THEOREM ContentTypes == Spec => []ContentTypeOK
<1>1. ContentInv => ContentTypeOK
  <2>1. EpgInv /\ ViewerInv => EpgTypeOK
    <3>1. ASSUME EpgInv, NEW a \in EpgActors
          PROVE  /\ mirror[a].batch \subseteq Programs
                 /\ mirror[a].pc \in {"truncateRadio", "insertRadio"} =>
                      mirror[a].batch # {} /\ mirror[a].batch \subseteq RadioPrograms
        BY <3>1 DEF EpgInv, EpgTypes, Mirrors
    <3> QED BY <3>1 DEF EpgInv, EpgTypes, ViewerInv, EpgTypeOK
  <2> QED BY <2>1, OnDemandInvTypes, BunnyInvTypes, RadioInvTypes, IndexInvTypes DEF ContentInv, ContentTypeOK
<1> QED BY <1>1, ContentAlways, PTL

\* However edits, webhooks and creates overlap and fail, the counts say what the
\* catalog holds, no episode waits for a video that is done, and a show has one
\* collection, but for the overlaps, lost answers and failures that the parts name
\* (ondemand_crud.go, bunny.go).
THEOREM CatalogIsTrue == Spec => []CatalogTrue
<1>1. ContentInv => CatalogTrue
  <2>1. BunnyInv => ReadyUnlessMissed /\ OneCollection
      BY BunnyInvTrue
  <2> QED BY <2>1, OnDemandInvCounts DEF ContentInv, CatalogTrue
<1> QED BY <1>1, ContentAlways, PTL

\* Whatever runs of the jobs overlap or fail, a song that was pulled is stored or
\* excused, the mirrored tables are whole and agree, no day has views it never had,
\* and an index holds all of a read that missed nothing, but for the mishaps the
\* parts name (radio_sync.go, epg.go, viewer_sync.go, search.go).
THEOREM SyncIsHonest == Spec => []SyncHonest
<1>1. ContentInv => SyncHonest
  <2>1. EpgInv => MirrorsHonest
      BY EpgInvHonest
  <2> QED BY <2>1 DEF ContentInv, RadioInv, ViewerInv, IndexInv, SyncHonest
<1> QED BY <1>1, ContentAlways, PTL
=============================================================================
