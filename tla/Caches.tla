------------------------------- MODULE Caches -------------------------------
(***************************************************************************)
(* The answer caches of gofn: adverts (ads.go), reports of the database    *)
(* (radio.go), today's lineup (epg.go) and the on-demand catalog           *)
(* (ondemand.go).  A reader looks under the mutex, unlocks, reads the      *)
(* source, and stores what it read; the handlers that edit the lineup or   *)
(* the catalog write the source and then clear the cache.                  *)
(*                                                                         *)
(* Nothing but age matters of a value: "stale" is how many ticks ago the   *)
(* source moved away from it, or Current.                                  *)
(***************************************************************************)
EXTENDS Integers, FiniteSets, FiniteSetsExt

CONSTANTS
  Readers,     \* requests and warm-up jobs
  Editors,     \* requests that edit the source
  Placements,  \* of adverts: "pre-roll", "mid-roll", "banner"
  Ttl,         \* an hour, a minute, five minutes, six hours
  MaxFetch,    \* no request reads longer: its context's timeout
  Slack        \* two seconds, for the catalog's staleness probe

ASSUME CacheAssumption ==
  /\ Ttl \in Nat \ {0} /\ MaxFetch \in Nat /\ Slack \in Nat
  /\ Placements \cap {"none", "all"} = {}

VARIABLES
  cache,      \* which cache this is
  entry,      \* the stored answer of each key
  reader,     \* what each reader is doing, with the answer in its hand
  editor,
  sinceEdit   \* ticks since the newest updated_at of the catalog's tables

cacheVars == <<cache, entry, reader, editor, sinceEdit>>

Current == -1
Answer(stale, age, via) == [stale |-> stale, age |-> age, via |-> via]
NoEntry == Answer(Current, -1, {})
Busy(r) == reader[r].pc # "idle"
Resting == [pc |-> "idle", key |-> "all", copy |-> NoEntry, since |-> 0]

\* Adverts are asked for by placement, "none" when the request names none; the
\* other caches are taken with one key each.
Keys == Placements \cup {"none", "all"}
Asked == IF cache = "ads" THEN Placements \cup {"none"} ELSE {"all"}
LookupKey(k) == IF k = "none" THEN "all" ELSE k

\* An answer is stored under the placement itself and, if there is one, the
\* whole list under "all"; a refresh of the adverts stores everything.
StoreKeys(k) ==
  CASE k = "refresh" -> Placements \cup {"all"}
    [] k \in Placements -> {k, "all"}
    [] OTHER -> {k}

CacheInit ==
  /\ cache \in {"ads", "reports", "lineup", "catalog"}
  /\ entry = [k \in Keys |-> NoEntry]
  /\ reader = [r \in Readers |-> Resting]
  /\ editor = [e \in Editors |-> "idle"]
  /\ sinceEdit = Ttl + Slack

Done(r) == reader' = [reader EXCEPT ![r] = Resting]

----------------------------------------------------------------------------
(* Readers *)

\* A hit answers at once; the lineup's "nocache" reads the source all the same.
\* The catalog takes the entry along and asks the source whether it moved.
Look(r, k) ==
  /\ ~Busy(r)
  /\ k \in Asked
  /\ LET e == entry[LookupKey(k)]
         hit == e.age >= 0
     IN  /\ hit => cache \in {"lineup", "catalog"}
         /\ reader' = [reader EXCEPT ![r] =
              [pc |-> IF hit /\ cache = "catalog" THEN "probe" ELSE "fetch",
               key |-> k, copy |-> IF cache = "catalog" THEN e ELSE NoEntry, since |-> 0]]
  /\ UNCHANGED <<cache, entry, editor, sinceEdit>>

\* Refreshing drops everything first: adverts and catalog.  The scheduler drops
\* the lineup without reading it again.
Refresh(r) ==
  /\ ~Busy(r)
  /\ cache \in {"ads", "catalog", "lineup"}
  /\ entry' = [k \in Keys |-> NoEntry]
  /\ reader' = [reader EXCEPT ![r] =
       IF cache = "lineup" THEN Resting
       ELSE [pc |-> "fetch", copy |-> NoEntry, since |-> 0,
             key |-> IF cache = "ads" THEN "refresh" ELSE "all"]]
  /\ UNCHANGED <<cache, editor, sinceEdit>>

\* onDemandStale: the newest updated_at is later than builtAt minus the slack.
Moved(e) == sinceEdit < e.age + Slack

Probe(r) ==
  /\ reader[r].pc = "probe"
  /\ reader' = [reader EXCEPT ![r] =
       IF Moved(@.copy) THEN [@ EXCEPT !.pc = "fetch", !.copy = NoEntry]
                        ELSE [@ EXCEPT !.pc = "trusted"]]
  /\ UNCHANGED <<cache, entry, editor, sinceEdit>>

\* The entry in hand is served, also when the probe fails.
Serve(r) ==
  /\ reader[r].pc \in {"probe", "trusted"}
  /\ Done(r)
  /\ UNCHANGED <<cache, entry, editor, sinceEdit>>

\* The first query of the fetch; the others may see later rows.
FetchRead(r) ==
  /\ reader[r].pc = "fetch"
  /\ reader' = [reader EXCEPT ![r].pc = "read", ![r].copy = NoEntry]
  /\ UNCHANGED <<cache, entry, editor, sinceEdit>>

\* builtAt and the expiry count from here.  An answer the source has left behind
\* meanwhile is "late".
FetchStore(r) ==
  /\ reader[r].pc = "read"
  /\ LET c == reader[r].copy
         late == IF c.stale = Current THEN {} ELSE {"late"} \cup (c.via \cap {"delete"})
     IN  entry' = [k \in Keys |->
           IF k \in StoreKeys(reader[r].key) THEN Answer(c.stale, 0, late) ELSE entry[k]]
  /\ Done(r)
  /\ UNCHANGED <<cache, editor, sinceEdit>>

FetchFails(r) ==
  /\ reader[r].pc \in {"fetch", "read"}
  /\ Done(r)
  /\ UNCHANGED <<cache, entry, editor, sinceEdit>>

----------------------------------------------------------------------------
(* The source *)

Outdated(a, how) == [a EXCEPT !.stale = IF @ = Current THEN 0 ELSE @, !.via = @ \cup how]

\* Only the catalog's probe tells a delete from another change.
Changes == IF cache = "catalog" THEN {{}, {"delete"}} ELSE {{}}

\* A change of the rows.  A row that is deleted takes its updated_at along.
Touch(how) ==
  /\ entry' = [k \in Keys |-> IF entry[k].age < 0 THEN NoEntry ELSE Outdated(entry[k], how)]
  /\ reader' = [r \in Readers |->
       IF reader[r].pc \in {"probe", "trusted", "read"}
       THEN [reader[r] EXCEPT !.copy = Outdated(@, how)] ELSE reader[r]]
  /\ sinceEdit' \in IF cache # "catalog" THEN {sinceEdit}
                    ELSE IF "delete" \in how THEN {sinceEdit, Ttl + Slack} ELSE {0}

\* Changes that no handler makes: Directus and SQL, and for the reports every
\* row that arrives.
DirectEdit(how) ==
  /\ Touch(how)
  /\ UNCHANGED <<cache, editor>>

\* Bodies are checked and images uploaded before, then one row is written; a
\* patch that matches no row answers 404.
Write(e, how) ==
  /\ editor[e] = "idle"
  /\ cache \in {"lineup", "catalog"}
  /\ Touch(how \cup {"edit"})
  /\ editor' = [editor EXCEPT ![e] = "written"]
  /\ cache' = cache

\* The write is answered with an error although it was done: nothing is cleared.
WriteUnsure(e, how) ==
  /\ editor[e] = "idle"
  /\ cache \in {"lineup", "catalog"}
  /\ Touch(how)
  /\ UNCHANGED <<cache, editor>>

\* Mutant: the handler answers without clearing.
ClearNothing(e) ==
  /\ editor[e] = "written"
  /\ editor' = [editor EXCEPT ![e] = "idle"]
  /\ UNCHANGED <<cache, entry, reader, sinceEdit>>

\* clearEPGCache, clearOndemandCache; the handler then answers.
Clear(e) ==
  /\ editor[e] = "written"
  /\ entry' = [k \in Keys |-> NoEntry]
  /\ editor' = [editor EXCEPT ![e] = "idle"]
  /\ UNCHANGED <<cache, reader, sinceEdit>>

----------------------------------------------------------------------------
Older(a) == [a EXCEPT !.stale = IF @ = Current THEN @ ELSE @ + 1,
                      !.age = IF @ < 0 THEN @ ELSE @ + 1]

\* An expired entry is never looked at again: it is dropped here.
Tick ==
  /\ \A r \in Readers : Busy(r) => reader[r].since < MaxFetch
  /\ entry' = [k \in Keys |->
       IF entry[k].age < 0 \/ entry[k].age + 1 >= Ttl THEN NoEntry ELSE Older(entry[k])]
  /\ reader' = [r \in Readers |->
       IF Busy(r) THEN [reader[r] EXCEPT !.since = @ + 1, !.copy = Older(@)]
                  ELSE reader[r]]
  /\ sinceEdit' = Min({sinceEdit + 1, Ttl + Slack})
  /\ UNCHANGED <<cache, editor>>

CacheNext ==
  \/ \E r \in Readers :
       \/ \E k \in Keys : Look(r, k)
       \/ Refresh(r) \/ Probe(r) \/ Serve(r) \/ FetchRead(r) \/ FetchStore(r) \/ FetchFails(r)
  \/ \E how \in Changes :
       DirectEdit(how) \/ \E e \in Editors : Write(e, how) \/ WriteUnsure(e, how)
  \/ \E e \in Editors : Clear(e)
  \/ Tick

CacheSpec == CacheInit /\ [][CacheNext]_cacheVars

----------------------------------------------------------------------------
(* Properties *)

Answers == [stale : Current..(Ttl + 2 * MaxFetch), age : -1..(Ttl + MaxFetch),
            via : SUBSET {"edit", "delete", "late"}]

\* Every variable has its type.
CacheTypeOK ==
  /\ cache \in {"ads", "reports", "lineup", "catalog"}
  /\ entry \in [Keys -> Answers]
  /\ reader \in [Readers -> [pc : {"idle", "probe", "trusted", "fetch", "read"},
                             key : Keys \cup {"refresh"}, copy : Answers,
                             since : 0..MaxFetch]]
  /\ editor \in [Editors -> {"idle", "written"}]
  /\ sinceEdit \in 0..(Ttl + Slack)

\* No answer in a cache is staler than its time to live and one fetch, whichever
\* readers overlap, edit and store late (the expiresAt of each store).
StaleWithinTtl == \A k \in Keys : entry[k].stale < Ttl + MaxFetch

\* When an edit is answered, the answers stored before it are gone from the
\* cache.  Only one that was being computed during the edit can come back, and
\* then it is marked late (the clear at the end of every editing handler).
AcknowledgedEditsGone ==
  (\E k \in Keys : "edit" \in entry[k].via) => \E e \in Editors : editor[e] = "written"

\* An entry of the catalog that the probe lets pass is current when the request
\* began, or the change was a delete, or fell into the fetch that built the
\* entry, at least the slack before its end (onDemandStale; builtAt is taken
\* after the three tables were read).
UpdatesNoticed ==
  \A r \in Readers :
    LET c == reader[r].copy
    IN  reader[r].pc = "trusted" =>
          c.stale <= reader[r].since \/ "delete" \in c.via \/ c.stale >= c.age + Slack

CacheHonest == StaleWithinTtl /\ AcknowledgedEditsGone /\ UpdatesNoticed
=============================================================================
