---------------------------- MODULE AudienceProofs ---------------------------
(***************************************************************************)
(* What holds of the audience side for any readers, editors, addresses,    *)
(* sessions, ids and times, texts, rooms, users, calls and failures: the   *)
(* answer caches, the address cache, the viewer tracker, the users'        *)
(* stores, listeners' texts and chat messages, each with an invariant that *)
(* is inductive by itself, and then all the parts that MCAudience puts     *)
(* side by side.                                                           *)
(***************************************************************************)
EXTENDS MCAudience, FiniteSetTheorems, TLAPS

----------------------------------------------------------------------------
(* Answer caches *)

AnyAnswer == [stale : Nat \cup {Current}, age : Int, via : SUBSET {"edit", "delete", "late"}]
AnyReader == [pc : {"idle", "probe", "trusted", "fetch", "read"}, key : Keys \cup {"refresh"},
              copy : AnyAnswer, since : Nat]

CacheTypes ==
  /\ cache \in {"ads", "reports", "lineup", "catalog"}
  /\ entry \in [Keys -> AnyAnswer]
  /\ reader \in [Readers -> AnyReader]
  /\ editor \in [Editors -> {"idle", "written"}]
  /\ sinceEdit \in 0..(Ttl + Slack)

\* An answer is staler than old by one fetch at most.
Dated(a) ==
  /\ a.age < 0 => a = NoEntry
  /\ a.age < Ttl /\ a.stale <= a.age + MaxFetch

\* The newest updated_at tells of the change that made an answer stale, unless
\* that was a delete.
Traced(a) ==
  cache = "catalog" /\ a.stale # Current /\ "delete" \notin a.via => sinceEdit <= a.stale

Bounded(q) ==
  /\ q.since <= MaxFetch
  /\ -1 <= q.copy.age /\ q.copy.age <= Ttl + q.since
  /\ q.copy.stale <= Ttl + MaxFetch + q.since

\* What a reader has in hand.
InHand(q) ==
  /\ q.pc \in {"probe", "trusted"} => cache = "catalog"
  /\ q.pc \in {"probe", "trusted", "read"} => Traced(q.copy)
  /\ Bounded(q)
  /\ q.pc = "read" => q.copy.stale <= q.since

\* The inductive invariant.
CacheInv ==
  /\ CacheTypes
  /\ \A k \in Keys : Dated(entry[k]) /\ Traced(entry[k])
  /\ \A r \in Readers : InHand(reader[r])
  /\ AcknowledgedEditsGone /\ UpdatesNoticed

LEMMA CacheAssumed == Ttl \in Nat \ {0} /\ MaxFetch \in Nat /\ Slack \in Nat
  BY CacheAssumption

LEMMA NoEntryFine ==
  /\ NoEntry \in AnyAnswer /\ NoEntry.stale = -1 /\ NoEntry.age = -1 /\ NoEntry.via = {}
  /\ Dated(NoEntry) /\ Traced(NoEntry)
  BY CacheAssumed DEF NoEntry, Answer, Current, AnyAnswer, Dated, Traced

LEMMA NoEntryGone ==
  ASSUME NEW k \in Keys, entry'[k] = NoEntry PROVE Dated(entry[k])' /\ Traced(entry[k])'
<1>1. entry'[k].stale = -1 /\ entry'[k].age = -1 /\ entry'[k].stale = Current
    BY NoEntryFine DEF Current
<1>2. Dated(entry[k])'
    BY <1>1, CacheAssumed DEF Dated
<1>3. Traced(entry[k])'
    BY <1>1 DEF Traced
<1> QED BY <1>2, <1>3

LEMMA RestingFine == Resting \in AnyReader /\ InHand(Resting) /\ Resting.pc = "idle"
  BY NoEntryFine, CacheAssumed DEF Resting, AnyReader, InHand, Bounded, Keys

LEMMA MinOfTwo == ASSUME NEW a \in Int, NEW b \in Int PROVE Min({a, b}) = IF a <= b THEN a ELSE b
  BY DEF Min

LEMMA CacheInitInv == CacheInit => CacheInv
<1> SUFFICES ASSUME CacheInit PROVE CacheInv
    OBVIOUS
<1>1. CacheTypes
    BY NoEntryFine, RestingFine, CacheAssumed DEF CacheInit, CacheTypes
<1>2. \A k \in Keys : Dated(entry[k]) /\ Traced(entry[k])
    BY NoEntryFine DEF CacheInit
<1>3. \A r \in Readers : InHand(reader[r])
    BY RestingFine DEF CacheInit
<1>4. AcknowledgedEditsGone /\ UpdatesNoticed
    BY NoEntryFine, RestingFine DEF CacheInit, AcknowledgedEditsGone, UpdatesNoticed
<1> QED BY <1>1, <1>2, <1>3, <1>4 DEF CacheInv

----------------------------------------------------------------------------
(* Readers *)

\* What a reader does leaves the source alone, and answers that stay as they were.
LEMMA ReaderStep ==
  ASSUME CacheInv, NEW r \in Readers, UNCHANGED <<cache, editor, sinceEdit>>,
         entry' \in [Keys -> AnyAnswer],
         \A k \in Keys : entry'[k] = entry[k]
                         \/ (Dated(entry'[k]) /\ Traced(entry'[k]) /\ "edit" \notin entry'[k].via),
         NEW new \in AnyReader, reader' = [reader EXCEPT ![r] = new], InHand(new),
         new.pc = "trusted" =>
           \/ new.copy.stale <= new.since \/ "delete" \in new.copy.via
           \/ new.copy.stale >= new.copy.age + Slack
  PROVE  CacheInv'
<1>1. CacheTypes' /\ reader'[r] = new /\ \A q \in Readers \ {r} : reader'[q] = reader[q]
    BY DEF CacheInv, CacheTypes
<1>2. \A a : Dated(a)' <=> Dated(a)
    BY DEF Dated
<1>3. \A k \in Keys : Dated(entry[k])' /\ Traced(entry[k])'
    BY DEF CacheInv, Dated, Traced
<1>4. \A q \in Readers : InHand(reader[q])'
    BY <1>1 DEF CacheInv, InHand, Bounded, Traced
<1>5. AcknowledgedEditsGone'
    BY DEF CacheInv, AcknowledgedEditsGone
<1>6. UpdatesNoticed'
    BY <1>1 DEF CacheInv, UpdatesNoticed
<1> QED BY <1>1, <1>3, <1>4, <1>5, <1>6 DEF CacheInv

LEMMA ReaderOnly ==
  ASSUME CacheInv, NEW r \in Readers, UNCHANGED <<cache, entry, editor, sinceEdit>>,
         NEW new \in AnyReader, reader' = [reader EXCEPT ![r] = new], InHand(new),
         new.pc = "trusted" =>
           \/ new.copy.stale <= new.since \/ "delete" \in new.copy.via
           \/ new.copy.stale >= new.copy.age + Slack
  PROVE  CacheInv'
<1>1. entry' \in [Keys -> AnyAnswer] /\ \A k \in Keys : entry'[k] = entry[k]
    BY DEF CacheInv, CacheTypes
<1>2. \A k \in Keys : entry'[k] = entry[k]
                       \/ (Dated(entry'[k]) /\ Traced(entry'[k]) /\ "edit" \notin entry'[k].via)
    BY <1>1
<1> QED BY <1>1, <1>2, ReaderStep

LEMMA ReaderTypes ==
  ASSUME CacheInv, NEW r \in Readers
  PROVE  /\ reader[r] \in AnyReader /\ InHand(reader[r])
         /\ reader[r].copy \in AnyAnswer /\ reader[r].since \in Nat
         /\ reader[r].key \in Keys \cup {"refresh"}
  BY DEF CacheInv, CacheTypes, AnyReader

LEMMA LookStep == ASSUME CacheInv, NEW r \in Readers, NEW k \in Keys, Look(r, k) PROVE CacheInv'
<1> DEFINE e == entry[LookupKey(k)]
           hit == e.age >= 0
           new == [pc |-> IF hit /\ cache = "catalog" THEN "probe" ELSE "fetch",
                   key |-> k, copy |-> IF cache = "catalog" THEN e ELSE NoEntry, since |-> 0]
<1>1. LookupKey(k) \in Keys /\ e \in AnyAnswer /\ Traced(e)
    BY DEF LookupKey, Keys, CacheInv, CacheTypes
<1>2. new \in AnyReader
    BY <1>1, NoEntryFine DEF AnyReader
<1>3. InHand(new) /\ new.pc # "trusted"
  <2>1. Bounded(new)
    <3>1. Dated(e)
        BY <1>1 DEF CacheInv
    <3>2. -1 <= e.age /\ e.age <= Ttl /\ e.stale <= Ttl + MaxFetch
        BY <1>1, <3>1, NoEntryFine, CacheAssumed DEF Dated, AnyAnswer, Current
    <3> QED BY <3>2, NoEntryFine, CacheAssumed DEF Bounded
  <2> QED BY <1>1, <2>1, CacheAssumed DEF InHand
<1>4. reader' = [reader EXCEPT ![r] = new] /\ UNCHANGED <<cache, editor, sinceEdit, entry>>
    BY DEF Look
<1> HIDE DEF new
<1> QED BY <1>2, <1>3, <1>4, ReaderOnly

LEMMA RefreshStep == ASSUME CacheInv, NEW r \in Readers, Refresh(r) PROVE CacheInv'
<1> DEFINE new == IF cache = "lineup" THEN Resting
                  ELSE [pc |-> "fetch", copy |-> NoEntry, since |-> 0,
                        key |-> IF cache = "ads" THEN "refresh" ELSE "all"]
<1>1. new \in AnyReader /\ InHand(new) /\ new.pc # "trusted"
    BY NoEntryFine, RestingFine, CacheAssumed DEF AnyReader, InHand, Bounded, Keys
<1>2. reader' = [reader EXCEPT ![r] = new] /\ UNCHANGED <<cache, editor, sinceEdit>>
      /\ entry' = [k \in Keys |-> NoEntry]
    BY DEF Refresh
<1> HIDE DEF new
<1> QED BY <1>1, <1>2, NoEntryFine, ReaderStep

LEMMA ProbeStep == ASSUME CacheInv, NEW r \in Readers, Probe(r) PROVE CacheInv'
<1> DEFINE q == reader[r]
           new == IF Moved(q.copy) THEN [q EXCEPT !.pc = "fetch", !.copy = NoEntry]
                                   ELSE [q EXCEPT !.pc = "trusted"]
<1>1. q.pc = "probe" /\ reader' = [reader EXCEPT ![r] = new]
      /\ UNCHANGED <<cache, entry, editor, sinceEdit>>
    BY DEF Probe
<1>2. new \in AnyReader
    BY NoEntryFine, ReaderTypes DEF AnyReader
<1>3. CASE Moved(q.copy)
  <2>1. new.pc = "fetch" /\ new.since = q.since /\ new.copy = NoEntry
      BY <1>3, ReaderTypes DEF AnyReader
  <2>2. InHand(new)
      BY <1>1, <2>1, NoEntryFine, ReaderTypes, CacheAssumed DEF InHand, Bounded
  <2> HIDE DEF new
  <2> QED BY <1>1, <1>2, <2>1, <2>2, ReaderOnly
<1>4. CASE ~Moved(q.copy)
  <2>1. new.pc = "trusted" /\ new.since = q.since /\ new.copy = q.copy
      BY <1>4, ReaderTypes DEF AnyReader
  <2>2. InHand(new)
      BY <1>1, <2>1, ReaderTypes DEF InHand, Bounded
  <2>3. \/ q.copy.stale <= q.since \/ "delete" \in q.copy.via
        \/ q.copy.stale >= q.copy.age + Slack
    <3>1. sinceEdit >= q.copy.age + Slack /\ q.copy.stale \in Int /\ q.copy.age \in Int
          /\ sinceEdit \in Nat
      <4>1. q.copy.stale \in Int /\ q.copy.age \in Int
          BY ReaderTypes DEF AnyAnswer, Current
      <4>2. sinceEdit \in Nat
          BY DEF CacheInv, CacheTypes
      <4> QED BY <1>4, <4>1, <4>2, CacheAssumed DEF Moved
    <3>2. cache = "catalog" /\ Traced(q.copy)
        BY <1>1, ReaderTypes DEF InHand
    <3> QED BY <3>1, <3>2, ReaderTypes, CacheAssumed DEF Traced, Current
  <2> HIDE DEF new
  <2> QED BY <1>1, <1>2, <2>1, <2>2, <2>3, ReaderOnly
<1> QED BY <1>3, <1>4

LEMMA DoneStep ==
  ASSUME CacheInv, NEW r \in Readers, Done(r), UNCHANGED <<cache, entry, editor, sinceEdit>>
  PROVE  CacheInv'
<1>1. reader' = [reader EXCEPT ![r] = Resting] /\ Resting.pc # "trusted"
    BY RestingFine DEF Done
<1> QED BY <1>1, RestingFine, ReaderOnly

LEMMA FetchReadStep == ASSUME CacheInv, NEW r \in Readers, FetchRead(r) PROVE CacheInv'
<1> DEFINE q == reader[r]
           new == [q EXCEPT !.pc = "read", !.copy = NoEntry]
<1>1. q.pc = "fetch" /\ UNCHANGED <<cache, entry, editor, sinceEdit>>
    BY DEF FetchRead
<1>2. reader' = [reader EXCEPT ![r] = new]
    BY DEF FetchRead, CacheInv, CacheTypes
<1>3. new \in AnyReader /\ new.pc = "read" /\ new.since = q.since /\ new.copy = NoEntry
    BY NoEntryFine, ReaderTypes DEF AnyReader
<1>4. InHand(new)
    BY <1>1, <1>3, NoEntryFine, ReaderTypes, CacheAssumed DEF InHand, Bounded
<1> HIDE DEF new
<1> QED BY <1>1, <1>2, <1>3, <1>4, ReaderOnly

LEMMA FetchStoreStep == ASSUME CacheInv, NEW r \in Readers, FetchStore(r) PROVE CacheInv'
<1> DEFINE c == reader[r].copy
           late == IF c.stale = Current THEN {} ELSE {"late"} \cup (c.via \cap {"delete"})
           a == Answer(c.stale, 0, late)
<1>1. /\ reader[r].pc = "read" /\ Done(r) /\ UNCHANGED <<cache, editor, sinceEdit>>
      /\ entry' = [k \in Keys |-> IF k \in StoreKeys(reader[r].key) THEN a ELSE entry[k]]
    BY DEF FetchStore
<1>2. a \in AnyAnswer /\ a.stale = c.stale /\ a.age = 0 /\ a.via = late /\ "edit" \notin late
    BY ReaderTypes DEF Answer, AnyAnswer
<1>3. Traced(c) /\ c.stale \in Int /\ c.stale <= MaxFetch
  <2>1. c.stale \in Int
      BY ReaderTypes DEF AnyAnswer, Current
  <2>2. Traced(c) /\ c.stale <= reader[r].since /\ reader[r].since <= MaxFetch
      BY <1>1, ReaderTypes DEF InHand, Bounded
  <2> QED BY <2>1, <2>2, ReaderTypes, CacheAssumed
<1>4. Dated(a) /\ Traced(a)
    BY <1>2, <1>3, CacheAssumed DEF Dated, Traced
<1>5. entry' \in [Keys -> AnyAnswer]
    BY <1>1, <1>2 DEF CacheInv, CacheTypes
<1> HIDE DEF a
<1>6. reader' = [reader EXCEPT ![r] = Resting] /\ Resting.pc # "trusted"
    BY <1>1, RestingFine DEF Done
<1>7. ASSUME NEW k \in Keys
      PROVE  entry'[k] = entry[k]
             \/ (Dated(entry'[k]) /\ Traced(entry'[k]) /\ "edit" \notin entry'[k].via)
  <2>1. CASE k \in StoreKeys(reader[r].key)
    <3>1. entry'[k] = a
        BY <1>1, <2>1
    <3> QED BY <1>2, <1>4, <3>1
  <2>2. CASE k \notin StoreKeys(reader[r].key)
      BY <1>1, <2>2
  <2> QED BY <2>1, <2>2
<1> QED BY <1>1, <1>5, <1>6, <1>7, RestingFine, ReaderStep

----------------------------------------------------------------------------
(* The source, and time *)

LEMMA OutdatedFields ==
  ASSUME NEW a \in AnyAnswer, NEW how \in SUBSET {"edit", "delete"}
  PROVE  /\ Outdated(a, how) \in AnyAnswer /\ Outdated(a, how).age = a.age
         /\ Outdated(a, how).stale = (IF a.stale = Current THEN 0 ELSE a.stale)
         /\ Outdated(a, how).via = a.via \cup how
  BY DEF Outdated, AnyAnswer

LEMMA OlderFields ==
  ASSUME NEW a \in AnyAnswer
  PROVE  /\ Older(a) \in AnyAnswer /\ Older(a).via = a.via
         /\ Older(a).stale = (IF a.stale = Current THEN Current ELSE a.stale + 1)
         /\ Older(a).age = (IF a.age < 0 THEN a.age ELSE a.age + 1)
<1> DEFINE s == IF a.stale = Current THEN a.stale ELSE a.stale + 1
           g == IF a.age < 0 THEN a.age ELSE a.age + 1
<1>1. s \in Nat \cup {Current} /\ g \in Int
    BY DEF AnyAnswer, Current
<1> HIDE DEF s, g
<1>2. PICK x : x = [a EXCEPT !.stale = s, !.age = g]
    OBVIOUS
<1>3. x \in AnyAnswer /\ x.stale = s /\ x.age = g /\ x.via = a.via
    BY <1>1, <1>2 DEF AnyAnswer
<1>4. Older(a) = x
    BY <1>2 DEF Older, s, g
<1> QED BY <1>3, <1>4 DEF s, g

LEMMA TouchStep ==
  ASSUME CacheInv, NEW how \in SUBSET {"edit", "delete"}, cache' = cache, Touch(how),
         editor' \in [Editors -> {"idle", "written"}],
         \A e \in Editors : editor[e] = "written" => editor'[e] = "written",
         "edit" \in how => \E e \in Editors : editor'[e] = "written"
  PROVE  CacheInv'
<1>1. sinceEdit' \in 0..(Ttl + Slack) /\ (cache = "catalog" /\ "delete" \notin how => sinceEdit' = 0)
    BY CacheAssumed DEF Touch, CacheInv, CacheTypes
<1>2. ASSUME NEW a \in AnyAnswer, Traced(a)
      PROVE  /\ cache = "catalog" /\ Outdated(a, how).stale # Current
                  /\ "delete" \notin Outdated(a, how).via => sinceEdit' <= Outdated(a, how).stale
  <2>1. "delete" \notin Outdated(a, how).via => "delete" \notin how
      BY OutdatedFields
  <2>2. Outdated(a, how).stale >= 0
      BY OutdatedFields DEF AnyAnswer
  <2> QED BY <1>1, <2>1, <2>2
<1>3. ASSUME NEW k \in Keys
      PROVE  /\ entry'[k] \in AnyAnswer /\ Dated(entry[k])' /\ Traced(entry[k])'
             /\ "edit" \in entry'[k].via => "edit" \in entry[k].via \/ "edit" \in how
  <2>1. entry[k] \in AnyAnswer /\ Dated(entry[k]) /\ Traced(entry[k])
      BY DEF CacheInv, CacheTypes
  <2>2. CASE entry[k].age < 0
    <3>1. entry'[k] = NoEntry
        BY <2>2 DEF Touch
    <3>2. Dated(entry[k])' /\ Traced(entry[k])'
        BY <3>1, NoEntryGone
    <3> QED BY <3>1, <3>2, NoEntryFine
  <2>3. CASE ~(entry[k].age < 0)
    <3>1. entry'[k] = Outdated(entry[k], how)
        BY <2>3 DEF Touch
    <3>2. Dated(entry[k])'
        BY <2>1, <2>3, <3>1, OutdatedFields, CacheAssumed DEF Dated, AnyAnswer
    <3>3. Traced(entry[k])'
        BY <1>2, <2>1, <3>1 DEF Traced
    <3> QED BY <2>1, <3>1, <3>2, <3>3, OutdatedFields
  <2> QED BY <2>2, <2>3
<1>4. ASSUME NEW r \in Readers
      PROVE  /\ reader'[r] \in AnyReader /\ InHand(reader[r])'
             /\ reader'[r].pc = "trusted" =>
                  \/ reader'[r].copy.stale <= reader'[r].since
                  \/ "delete" \in reader'[r].copy.via
                  \/ reader'[r].copy.stale >= reader'[r].copy.age + Slack
  <2> DEFINE q == reader[r]
             held == Outdated(q.copy, how)
  <2>1. CASE q.pc \in {"probe", "trusted", "read"}
    <3>1. reader'[r] = [q EXCEPT !.copy = held]
        BY <2>1 DEF Touch
    <3>2. held \in AnyAnswer
        BY ReaderTypes, OutdatedFields
    <3>3. /\ reader'[r] \in AnyReader /\ reader'[r].pc = q.pc /\ reader'[r].since = q.since
          /\ reader'[r].copy = held
      <4> HIDE DEF held
      <4> QED BY <3>1, <3>2, ReaderTypes DEF AnyReader
    <3>4. /\ held.stale = IF q.copy.stale = Current THEN 0 ELSE q.copy.stale
          /\ held.age = q.copy.age /\ held.via = q.copy.via \cup how
        BY ReaderTypes, OutdatedFields
    <3>5. Traced(q.copy)
        BY <2>1, ReaderTypes DEF InHand
    <3>6. cache = "catalog" /\ held.stale # Current /\ "delete" \notin held.via
            => sinceEdit' <= held.stale
        BY <1>2, <3>5, ReaderTypes
    <3> HIDE DEF held
    <3>7. InHand(reader[r])'
      <4>1. Bounded(reader[r])'
          BY <3>3, <3>4, ReaderTypes, CacheAssumed DEF InHand, Bounded, AnyAnswer
      <4> QED BY <3>3, <3>4, <3>6, <4>1, ReaderTypes DEF InHand, Traced, AnyAnswer
    <3>8. q.pc = "trusted" =>
            q.copy.stale <= q.since \/ "delete" \in q.copy.via
            \/ q.copy.stale >= q.copy.age + Slack
        BY DEF CacheInv, UpdatesNoticed
    <3> QED BY <3>3, <3>4, <3>7, <3>8, ReaderTypes
  <2>2. CASE q.pc \notin {"probe", "trusted", "read"}
    <3>1. reader'[r] = q
        BY <2>2 DEF Touch
    <3> QED BY <2>2, <3>1, ReaderTypes DEF InHand, Bounded
  <2> QED BY <2>1, <2>2
<1>5. CacheTypes'
  <2>1. entry' \in [Keys -> AnyAnswer]
    <3>1. entry' = [k \in Keys |-> entry'[k]]
        BY DEF Touch
    <3> QED BY <1>3, <3>1
  <2>2. reader' \in [Readers -> AnyReader]
    <3>1. reader' = [r \in Readers |-> reader'[r]]
        BY DEF Touch
    <3> QED BY <1>4, <3>1
  <2> QED BY <1>1, <2>1, <2>2 DEF CacheInv, CacheTypes
<1>6. AcknowledgedEditsGone'
    BY <1>3 DEF CacheInv, AcknowledgedEditsGone
<1>7. UpdatesNoticed'
    BY <1>4 DEF UpdatesNoticed
<1> QED BY <1>3, <1>4, <1>5, <1>6, <1>7 DEF CacheInv

LEMMA ClearStep == ASSUME CacheInv, NEW e \in Editors, Clear(e) PROVE CacheInv'
<1>1. \A k \in Keys : entry'[k] = NoEntry
    BY DEF Clear
<1>2. CacheTypes'
    BY NoEntryFine DEF Clear, CacheInv, CacheTypes
<1>3. \A k \in Keys : Dated(entry[k])' /\ Traced(entry[k])' /\ entry'[k].via = {}
    BY <1>1, NoEntryFine, NoEntryGone
<1>4. \A r \in Readers : InHand(reader[r])'
    BY DEF Clear, CacheInv, InHand, Bounded, Traced
<1> QED BY <1>2, <1>3, <1>4 DEF Clear, CacheInv, AcknowledgedEditsGone, UpdatesNoticed

LEMMA TickStep == ASSUME CacheInv, Tick PROVE CacheInv'
<1>1. cache' = cache /\ editor' = editor
      /\ sinceEdit' \in 0..(Ttl + Slack) /\ sinceEdit' <= sinceEdit + 1
  <2>1. sinceEdit \in Nat /\ sinceEdit + 1 \in Int /\ Ttl + Slack \in Int
      BY CacheAssumed DEF CacheInv, CacheTypes
  <2>2. sinceEdit' = Min({sinceEdit + 1, Ttl + Slack})
      BY DEF Tick
  <2>3. Min({sinceEdit + 1, Ttl + Slack})
          = IF sinceEdit + 1 <= Ttl + Slack THEN sinceEdit + 1 ELSE Ttl + Slack
      BY <2>1, MinOfTwo
  <2>4. cache' = cache /\ editor' = editor
      BY DEF Tick
  <2> QED BY <2>1, <2>2, <2>3, <2>4, CacheAssumed
<1>2. ASSUME NEW a \in AnyAnswer, Traced(a)
      PROVE  cache = "catalog" /\ Older(a).stale # Current /\ "delete" \notin Older(a).via
               => sinceEdit' <= Older(a).stale
    BY <1>1, <1>2, OlderFields DEF Traced, AnyAnswer, Current, CacheInv, CacheTypes
<1>3. ASSUME NEW k \in Keys
      PROVE  /\ entry'[k] \in AnyAnswer /\ Dated(entry[k])' /\ Traced(entry[k])'
             /\ "edit" \in entry'[k].via => "edit" \in entry[k].via
  <2>1. entry[k] \in AnyAnswer /\ Dated(entry[k]) /\ Traced(entry[k])
      BY DEF CacheInv, CacheTypes
  <2>2. CASE entry[k].age < 0 \/ entry[k].age + 1 >= Ttl
    <3>1. entry'[k] = NoEntry
        BY <2>2 DEF Tick
    <3>2. Dated(entry[k])' /\ Traced(entry[k])'
        BY <3>1, NoEntryGone
    <3> QED BY <3>1, <3>2, NoEntryFine
  <2>3. CASE ~(entry[k].age < 0 \/ entry[k].age + 1 >= Ttl)
    <3>1. entry'[k] = Older(entry[k])
        BY <2>3 DEF Tick
    <3>2. Dated(entry[k])'
        BY <2>1, <2>3, <3>1, OlderFields, CacheAssumed DEF Dated, AnyAnswer, Current
    <3>3. Traced(entry[k])'
        BY <1>1, <1>2, <2>1, <3>1 DEF Traced
    <3> QED BY <2>1, <3>1, <3>2, <3>3, OlderFields
  <2> QED BY <2>2, <2>3
<1>4. ASSUME NEW r \in Readers
      PROVE  /\ reader'[r] \in AnyReader /\ InHand(reader[r])'
             /\ reader'[r].pc = "trusted" =>
                  \/ reader'[r].copy.stale <= reader'[r].since
                  \/ "delete" \in reader'[r].copy.via
                  \/ reader'[r].copy.stale >= reader'[r].copy.age + Slack
  <2> DEFINE q == reader[r]
             held == Older(q.copy)
  <2>1. CASE Busy(r)
    <3>1. PICK new : new = [q EXCEPT !.since = q.since + 1, !.copy = held]
        OBVIOUS
    <3>2. reader'[r] = new
        BY <2>1, <3>1 DEF Tick
    <3>3. held \in AnyAnswer
        BY ReaderTypes, OlderFields
    <3>4. /\ reader'[r] \in AnyReader /\ reader'[r].pc = q.pc /\ reader'[r].since = q.since + 1
          /\ reader'[r].copy = held
      <4> HIDE DEF held
      <4>1. q \in AnyReader /\ q.since + 1 \in Nat
          BY ReaderTypes
      <4>2. new \in AnyReader /\ new.pc = q.pc /\ new.since = q.since + 1 /\ new.copy = held
          BY <3>1, <3>3, <4>1 DEF AnyReader
      <4> QED BY <3>2, <4>2
    <3>5. /\ held.stale = IF q.copy.stale = Current THEN Current ELSE q.copy.stale + 1
          /\ held.age = IF q.copy.age < 0 THEN q.copy.age ELSE q.copy.age + 1
          /\ held.via = q.copy.via /\ q.copy.age \in Int
        BY ReaderTypes, OlderFields DEF AnyAnswer
    <3>6. Traced(q.copy) => (cache = "catalog" /\ held.stale # Current
                              /\ "delete" \notin held.via => sinceEdit' <= held.stale)
        BY <1>2, ReaderTypes
    <3>7. q.since + 1 <= MaxFetch
      <4>1. q.since < MaxFetch
          BY <2>1 DEF Tick
      <4> QED BY <4>1, CacheAssumed, ReaderTypes
    <3> HIDE DEF held
    <3>8. InHand(reader[r])'
      <4>1. Bounded(reader[r])'
          BY <3>4, <3>5, <3>7, ReaderTypes, CacheAssumed DEF InHand, Bounded, AnyAnswer, Current
      <4> QED BY <1>1, <3>4, <3>5, <3>6, <3>7, <4>1, ReaderTypes
              DEF InHand, Traced, AnyAnswer, Current
    <3>9. q.pc = "trusted" =>
            q.copy.stale <= q.since \/ "delete" \in q.copy.via
            \/ q.copy.stale >= q.copy.age + Slack
        BY DEF CacheInv, UpdatesNoticed
    <3> QED BY <3>4, <3>5, <3>8, <3>9, ReaderTypes, CacheAssumed DEF AnyAnswer, Current
  <2>2. CASE ~Busy(r)
    <3>1. reader'[r] = q /\ q.pc = "idle"
        BY <2>2 DEF Tick, Busy
    <3> QED BY <3>1, ReaderTypes DEF InHand, Bounded
  <2> QED BY <2>1, <2>2
<1>5. CacheTypes'
  <2>1. entry' \in [Keys -> AnyAnswer]
    <3>1. entry' = [k \in Keys |-> entry'[k]]
        BY DEF Tick
    <3> QED BY <1>3, <3>1
  <2>2. reader' \in [Readers -> AnyReader]
    <3>1. reader' = [r \in Readers |-> reader'[r]]
        BY DEF Tick
    <3> QED BY <1>4, <3>1
  <2> QED BY <1>1, <2>1, <2>2 DEF CacheInv, CacheTypes
<1>6. AcknowledgedEditsGone'
    BY <1>1, <1>3 DEF CacheInv, AcknowledgedEditsGone
<1>7. UpdatesNoticed'
    BY <1>4 DEF UpdatesNoticed
<1> QED BY <1>3, <1>4, <1>5, <1>6, <1>7 DEF CacheInv

----------------------------------------------------------------------------
LEMMA CacheNextInv == CacheInv /\ [CacheNext]_cacheVars => CacheInv'
<1> SUFFICES ASSUME CacheInv, [CacheNext]_cacheVars PROVE CacheInv'
    OBVIOUS
<1>1. CASE UNCHANGED cacheVars
    BY <1>1 DEF cacheVars, CacheInv, CacheTypes, Dated, Traced, InHand, Bounded, AcknowledgedEditsGone,
                UpdatesNoticed
<1>2. ASSUME NEW r \in Readers, Serve(r) \/ FetchFails(r) PROVE CacheInv'
    BY <1>2, DoneStep DEF Serve, FetchFails
<1>3. ASSUME NEW how \in Changes, DirectEdit(how) PROVE CacheInv'
  <2>1. how \in SUBSET {"edit", "delete"} /\ "edit" \notin how
      BY DEF Changes
  <2> QED BY <1>3, <2>1, TouchStep DEF DirectEdit, CacheInv, CacheTypes
<1>4. ASSUME NEW how \in Changes, NEW e \in Editors, Write(e, how) PROVE CacheInv'
  <2>1. how \cup {"edit"} \in SUBSET {"edit", "delete"}
      BY DEF Changes
  <2>2. /\ editor' \in [Editors -> {"idle", "written"}] /\ editor'[e] = "written"
        /\ \A d \in Editors : editor[d] = "written" => editor'[d] = "written"
      BY <1>4 DEF Write, CacheInv, CacheTypes
  <2>3. cache' = cache /\ Touch(how \cup {"edit"})
      BY <1>4 DEF Write
  <2> QED BY <2>1, <2>2, <2>3, TouchStep
<1>5. ASSUME NEW how \in Changes, NEW e \in Editors, WriteUnsure(e, how) PROVE CacheInv'
  <2>1. how \in SUBSET {"edit", "delete"} /\ "edit" \notin how
      BY DEF Changes
  <2> QED BY <1>5, <2>1, TouchStep DEF WriteUnsure, CacheInv, CacheTypes
<1> QED BY <1>1, <1>2, <1>3, <1>4, <1>5, LookStep, RefreshStep, ProbeStep, FetchReadStep,
        FetchStoreStep, ClearStep, TickStep DEF CacheNext

LEMMA CacheInvTypes == CacheInv => CacheTypeOK
<1> SUFFICES ASSUME CacheInv PROVE CacheTypeOK
    OBVIOUS
<1>1. ASSUME NEW k \in Keys PROVE entry[k] \in Answers
  <2>1. entry[k] \in AnyAnswer /\ Dated(entry[k])
      BY DEF CacheInv, CacheTypes
  <2>2. entry[k].age \in -1..(Ttl + MaxFetch)
      BY <2>1, NoEntryFine, CacheAssumed DEF Dated, AnyAnswer
  <2>3. entry[k].stale \in Current..(Ttl + 2 * MaxFetch)
      BY <2>1, NoEntryFine, CacheAssumed DEF Dated, AnyAnswer, Current
  <2> QED BY <2>1, <2>2, <2>3 DEF AnyAnswer, Answers
<1>2. ASSUME NEW r \in Readers
      PROVE  reader[r] \in [pc : {"idle", "probe", "trusted", "fetch", "read"},
                            key : Keys \cup {"refresh"}, copy : Answers, since : 0..MaxFetch]
  <2>1. reader[r] \in AnyReader /\ InHand(reader[r]) /\ reader[r].copy \in AnyAnswer
        /\ reader[r].since \in Nat
      BY ReaderTypes
  <2>2. reader[r].copy.age \in -1..(Ttl + MaxFetch) /\ reader[r].since \in 0..MaxFetch
      BY <2>1, CacheAssumed DEF InHand, Bounded, AnyAnswer
  <2>3. reader[r].copy.stale \in Current..(Ttl + 2 * MaxFetch)
      BY <2>1, CacheAssumed DEF InHand, Bounded, AnyAnswer, Current
  <2>4. reader[r].copy \in Answers
      BY <2>1, <2>2, <2>3 DEF AnyAnswer, Answers
  <2> QED BY <2>1, <2>2, <2>4 DEF AnyReader
<1> QED BY <1>1, <1>2 DEF CacheInv, CacheTypes, CacheTypeOK

\* For any readers and editors at once and any times to live: no answer is staler
\* than its time to live and one fetch, an acknowledged edit leaves no older
\* answer behind but one that was on its way, and what the catalog's probe lets
\* pass is current but for deletes and changes within the fetch (ads.go,
\* radio.go, epg.go, ondemand.go).
THEOREM CachesHonest == CacheSpec => []CacheHonest
<1>1. CacheInv => CacheHonest
  <2> SUFFICES ASSUME CacheInv PROVE StaleWithinTtl
      BY DEF CacheInv, CacheHonest
  <2> QED BY CacheAssumed DEF CacheInv, CacheTypes, Dated, AnyAnswer, Current, StaleWithinTtl
<1> QED BY CacheInitInv, CacheNextInv, <1>1, PTL DEF CacheSpec

\* No age, no staleness and no reader's wait leaves its bounds (the TTLs and the
\* contexts' timeouts).
THEOREM CacheTyped == CacheSpec => []CacheTypeOK
  BY CacheInitInv, CacheNextInv, CacheInvTypes, PTL DEF CacheSpec

----------------------------------------------------------------------------
(* Address cache *)

Guessed == {a \in Addresses : known[a] = "guess"}

\* Only one lookup asks for an address, and only while nothing is known of it; what
\* the service said stays.
AloneAt(a) ==
  /\ \A l \in Lookups : lookup[l] = a =>
       known[a] = "nothing" /\ \A k \in Lookups : lookup[k] = a => k = l
  /\ a \in told => known[a] = "told"

GeoInv ==
  /\ GeoTypeOK
  /\ \A a \in Addresses \ clashed : AloneAt(a)
  /\ IsFiniteSet(Guessed) /\ Cardinality(Guessed) <= geoFaults

LEMMA GeoAssumed == Backfill \in Lookups /\ MaxGeoFaults \in Nat /\ "none" \notin Addresses
  BY GeoAssumption

LEMMA GeoInitInv == GeoInit => GeoInv
<1> SUFFICES ASSUME GeoInit PROVE GeoInv
    OBVIOUS
<1>1. GeoTypeOK
    BY GeoAssumed DEF GeoInit, GeoTypeOK
<1>2. Guessed = {} /\ \A a \in Addresses : AloneAt(a)
    BY GeoAssumed DEF GeoInit, Guessed, AloneAt
<1>3. geoFaults = 0
    BY DEF GeoInit
<1> QED BY <1>1, <1>2, <1>3, FS_EmptySet DEF GeoInv

LEMMA LookUpStep ==
  ASSUME GeoInv, NEW l \in Lookups, NEW a \in Addresses, LookUp(l, a) PROVE GeoInv'
<1>1. /\ lookup[l] = "none" /\ UNCHANGED <<known, told, geoFaults>>
      /\ lookup' = [lookup EXCEPT ![l] = IF known[a] = "nothing" THEN a ELSE "none"]
      /\ clashed' = IF known[a] = "nothing" /\ \E k \in Lookups : lookup[k] = a
                    THEN clashed \cup {a} ELSE clashed
      /\ lookup \in [Lookups -> Addresses \cup {"none"}]
    BY DEF LookUp, GeoInv, GeoTypeOK
<1>2. GeoTypeOK'
    BY <1>1 DEF LookUp, GeoInv, GeoTypeOK
<1>3. Guessed' = Guessed
    BY <1>1 DEF Guessed
<1>4. ASSUME NEW b \in Addresses \ clashed' PROVE AloneAt(b)'
  <2>1. b \notin clashed /\ AloneAt(b)
      BY <1>1, <1>4 DEF GeoInv
  <2>2. CASE b = a /\ known[a] = "nothing"
    <3>1. \A k \in Lookups : lookup[k] # a
        BY <1>1, <1>4, <2>2
    <3> QED BY <1>1, <2>1, <2>2, <3>1 DEF AloneAt
  <2>3. CASE ~(b = a /\ known[a] = "nothing")
    <3>1. \A k \in Lookups : lookup'[k] = b => lookup[k] = b
        BY <1>1, <2>3, GeoAssumed
    <3> QED BY <1>1, <2>1, <3>1 DEF AloneAt
  <2> QED BY <2>2, <2>3
<1> QED BY <1>1, <1>2, <1>3, <1>4 DEF GeoInv

LEMMA StoreAnswerStep == ASSUME GeoInv, NEW l \in Lookups, StoreAnswer(l) PROVE GeoInv'
<1> DEFINE a == lookup[l]
<1>1. /\ a \in Addresses /\ UNCHANGED <<backlog, clashed>>
      /\ lookup \in [Lookups -> Addresses \cup {"none"}] /\ geoFaults \in Nat
      /\ lookup' = [lookup EXCEPT ![l] = "none"]
      /\ \/ known' = [known EXCEPT ![a] = "told"] /\ told' = told \cup {a} /\ geoFaults' = geoFaults
         \/ known' = [known EXCEPT ![a] = "guess"] /\ told' = told /\ geoFaults < MaxGeoFaults
              /\ geoFaults' = geoFaults + 1
    BY DEF StoreAnswer, GeoInv, GeoTypeOK
<1>2. GeoTypeOK'
  <2>1. geoFaults' \in 0..MaxGeoFaults
      BY <1>1, GeoAssumed DEF GeoInv, GeoTypeOK
  <2> QED BY <1>1, <2>1 DEF GeoInv, GeoTypeOK
<1> HIDE DEF a
<1>3. /\ known' \in [Addresses -> {"nothing", "told", "guess"}]
      /\ \A b \in Addresses \ {a} : known'[b] = known[b] /\ (b \in told' => b \in told)
      /\ known'[a] = "told" \/ told' = told
    BY <1>1 DEF GeoInv, GeoTypeOK
<1>4. ASSUME NEW b \in Addresses \ clashed' PROVE AloneAt(b)'
  <2>1. AloneAt(b) /\ b # "none"
      BY <1>1, GeoAssumed DEF GeoInv
  <2>2. \A k \in Lookups : lookup'[k] = b => lookup[k] = b /\ k # l
      BY <1>1, <2>1
  <2>3. CASE b = a
    <3>1. \A k \in Lookups : lookup'[k] # b
        BY <2>1, <2>2, <2>3 DEF AloneAt, a
    <3>2. a \notin told
        BY <2>1, <2>3 DEF AloneAt, a
    <3> QED BY <1>3, <2>3, <3>1, <3>2 DEF AloneAt
  <2>4. CASE b # a
      BY <1>3, <2>1, <2>2, <2>4 DEF AloneAt
  <2> QED BY <2>3, <2>4
<1>5. IsFiniteSet(Guessed') /\ Cardinality(Guessed') <= geoFaults'
  <2>1. IsFiniteSet(Guessed) /\ Cardinality(Guessed) \in Nat /\ Cardinality(Guessed) <= geoFaults
      BY FS_CardinalityType DEF GeoInv
  <2>2. CASE known' = [known EXCEPT ![a] = "told"] /\ geoFaults' = geoFaults
    <3>1. Guessed' \subseteq Guessed
        BY <1>1, <2>2 DEF Guessed, GeoInv, GeoTypeOK
    <3>2. IsFiniteSet(Guessed') /\ Cardinality(Guessed') <= Cardinality(Guessed)
          /\ Cardinality(Guessed') \in Nat
        BY <2>1, <3>1, FS_Subset, FS_CardinalityType
    <3> QED BY <1>1, <2>1, <2>2, <3>2
  <2>3. CASE known' = [known EXCEPT ![a] = "guess"] /\ geoFaults' = geoFaults + 1
    <3>1. Guessed' = Guessed \cup {a}
        BY <1>1, <2>3 DEF Guessed, GeoInv, GeoTypeOK
    <3>2. IsFiniteSet(Guessed \cup {a})
          /\ Cardinality(Guessed \cup {a}) = IF a \in Guessed THEN Cardinality(Guessed)
                                             ELSE Cardinality(Guessed) + 1
        BY <2>1, FS_AddElement
    <3> QED BY <1>1, <2>1, <2>3, <3>1, <3>2
  <2> QED BY <1>1, <2>2, <2>3
<1> QED BY <1>2, <1>4, <1>5 DEF GeoInv

LEMMA GeoNextInv == GeoInv /\ [GeoNext]_geoVars => GeoInv'
<1> SUFFICES ASSUME GeoInv, [GeoNext]_geoVars PROVE GeoInv'
    OBVIOUS
<1>1. CASE UNCHANGED geoVars \/ \E asked \in SUBSET Addresses : StartBackfill(asked)
  <2>1. UNCHANGED <<known, lookup, told, clashed, geoFaults>> /\ backlog' \subseteq Addresses
      BY <1>1 DEF geoVars, StartBackfill, GeoInv, GeoTypeOK
  <2>2. Guessed' = Guessed
      BY <2>1 DEF Guessed
  <2> QED BY <2>1, <2>2 DEF GeoInv, GeoTypeOK, AloneAt
<1> QED BY <1>1, LookUpStep, StoreAnswerStep DEF GeoNext

LEMMA GeoInvTypes == GeoInv => GeoTypeOK
  BY DEF GeoInv

\* Only where two lookups overlapped is an address that is known asked about again,
\* or a guess put in the place of what the service said, and every guess is the work
\* of a lookup that failed, for any addresses and lookups (Lookup, the backfill).
THEOREM AddressesSettled == GeoSpec => []AddressesSettle
<1>1. GeoInv => AddressesSettle
  <2> SUFFICES ASSUME GeoInv PROVE AddressesSettle
      OBVIOUS
  <2>1. ASSUME NEW a \in Addresses \ clashed
        PROVE  IsFiniteSet({l \in Lookups : lookup[l] = a})
               /\ Cardinality({l \in Lookups : lookup[l] = a}) <= 1
    <3>1. AloneAt(a)
        BY DEF GeoInv
    <3>2. CASE {l \in Lookups : lookup[l] = a} = {}
        BY <3>2, FS_EmptySet
    <3>3. CASE {l \in Lookups : lookup[l] = a} # {}
      <4>1. PICK l \in Lookups : lookup[l] = a
          BY <3>3
      <4>2. {k \in Lookups : lookup[k] = a} = {l}
          BY <3>1, <4>1 DEF AloneAt
      <4>3. IsFiniteSet({l}) /\ Cardinality({l}) = 1
          BY FS_Singleton
      <4> QED BY <4>2, <4>3
    <3> QED BY <3>2, <3>3
  <2>2. \A a \in Addresses \ clashed :
          /\ known[a] # "nothing" => {l \in Lookups : lookup[l] = a} = {}
          /\ a \in told => known[a] # "guess"
      BY DEF GeoInv, AloneAt
  <2>3. ASSUME NEW a \in Addresses,
               \/ Cardinality({l \in Lookups : lookup[l] = a}) > 1
               \/ known[a] # "nothing" /\ {l \in Lookups : lookup[l] = a} # {}
               \/ a \in told /\ known[a] = "guess"
        PROVE  a \in clashed
    <3> SUFFICES ASSUME a \notin clashed PROVE FALSE
        OBVIOUS
    <3>1. IsFiniteSet({l \in Lookups : lookup[l] = a})
          /\ Cardinality({l \in Lookups : lookup[l] = a}) <= 1
        BY <2>1
    <3>2. Cardinality({l \in Lookups : lookup[l] = a}) \in Nat
        BY <3>1, FS_CardinalityType
    <3> QED BY <2>2, <2>3, <3>1, <3>2
  <2> QED BY <2>3 DEF GeoInv, Guessed, AddressesSettle
<1> QED BY <1>1, GeoInitInv, GeoNextInv, PTL DEF GeoSpec

\* The address cache and the lookups are well typed.
THEOREM GeoTyped == GeoSpec => []GeoTypeOK
  BY GeoInitInv, GeoNextInv, GeoInvTypes, PTL DEF GeoSpec

----------------------------------------------------------------------------
(* Viewer tracker *)

ViewerTypes ==
  /\ now \in 0..MaxTime
  /\ sessions \in [Sessions -> {Gone} \cup 0..now]
  /\ lastHit \in [Sessions -> {Gone} \cup 0..now]
  /\ history \in Seq(Snapshots) /\ Len(history) <= HistoryCap
  /\ lastSnapshot \in {Gone} \cup 0..Minute
  /\ job \in {"sleep", "persist"}
  /\ nextRun \in 0..(now + MinuteTicks)
  /\ outboxed \in BOOLEAN /\ queue \subseteq keys /\ keys \subseteq Snapshots /\ IsFiniteSet(keys)
  /\ stored \in [Minutes -> Nat]
  /\ restarts \in 0..MaxRestarts /\ doubts \in 0..MaxDoubts

\* A session is as it was last heard of, or so old that the cleanup took it.
HeardOf ==
  \A s \in Sessions :
    sessions[s] = lastHit[s] \/ (sessions[s] = Gone /\ lastHit[s] < now - Expiry)

\* The ring is in order, and holds nothing newer than the last snapshot.
InOrder ==
  /\ \A i, j \in DOMAIN history : i < j => history[i].minute < history[j].minute
  /\ \A i \in DOMAIN history : history[i].minute <= lastSnapshot

\* What the job made of a minute: one row less where it has still to come.
QueueOf(m) == {k \in queue : k.minute = m}
Rows(m) == IF outboxed THEN Cardinality(KeysOf(m)) ELSE IF m \in Minutes THEN stored[m] ELSE 0
Paced ==
  /\ job = "persist" => nextRun <= now
  /\ \A m \in Nat : Rows(m) <= IF nextRun \div MinuteTicks <= m THEN restarts ELSE 1 + restarts

\* What the outbox has of a minute is stored once, but for its doubts.
Accounted ==
  /\ outboxed \/ keys = {}
  /\ \A m \in Minutes :
       outboxed => Cardinality(QueueOf(m)) + stored[m] <= Cardinality(KeysOf(m)) + doubts
  /\ \A k \in keys : k \in queue \/ stored[k.minute] > 0

ViewerInv == ViewerTypes /\ HeardOf /\ InOrder /\ Paced /\ Accounted

LEMMA ViewerAssumed ==
  /\ Window \in Nat \ {0} /\ MinuteTicks \in Nat \ {0} /\ HistoryCap \in Nat \ {0}
  /\ Expiry \in Nat /\ Widest \in Nat /\ MaxTime \in Nat /\ MaxRestarts \in Nat /\ MaxDoubts \in Nat
  /\ IsFiniteSet(Ips)
  BY ViewerAssumption

LEMMA DivMonotone ==
  ASSUME NEW a \in Nat, NEW b \in Nat, NEW d \in Nat \ {0}, a <= b
  PROVE  a \div d \in Nat /\ b \div d \in Nat /\ a \div d <= b \div d
  OBVIOUS

LEMMA NextMinute ==
  ASSUME NEW a \in Nat, NEW d \in Nat \ {0} PROVE (a + d) \div d = (a \div d) + 1
  OBVIOUS

LEMMA MinuteTypes ==
  ASSUME now \in 0..MaxTime
  PROVE  Minute \in Nat /\ Minute \in Minutes
  BY ViewerAssumed, DivMonotone DEF Minute, Minutes

LEMMA MinutesAreNumbers == Minutes \subseteq Nat
<1>1. MaxTime \div MinuteTicks \in Nat
    BY ViewerAssumed, DivMonotone
<1> QED BY <1>1 DEF Minutes

LEMMA SnapMinutes == ASSUME NEW x \in Snapshots PROVE x.minute \in Nat /\ x.minute \in Minutes
  BY MinutesAreNumbers DEF Snapshots

LEMMA KeysFinite ==
  ASSUME ViewerTypes, NEW m
  PROVE  /\ IsFiniteSet(KeysOf(m)) /\ Cardinality(KeysOf(m)) \in Nat
         /\ IsFiniteSet(QueueOf(m)) /\ Cardinality(QueueOf(m)) \in Nat
<1>1. IsFiniteSet(keys) /\ KeysOf(m) \subseteq keys /\ QueueOf(m) \subseteq keys
    BY DEF ViewerTypes, KeysOf, QueueOf
<1> QED BY <1>1, FS_Subset, FS_CardinalityType

LEMMA RowsCounted == ASSUME ViewerTypes, NEW m PROVE Rows(m) \in Nat
  BY KeysFinite DEF Rows, ViewerTypes

\* The rows are as they were.
LEMMA RowsStay ==
  ASSUME UNCHANGED storeVars
  PROVE  /\ \A m : Rows(m)' = Rows(m)
         /\ Accounted => Accounted'
<1>1. /\ outboxed' = outboxed /\ queue' = queue /\ keys' = keys /\ stored' = stored /\ doubts' = doubts
    BY DEF storeVars
<1> QED BY <1>1 DEF Rows, KeysOf, QueueOf, Accounted

\* A count of the viewers of a stream is at most the number of addresses.
LEMMA CountTypes == Count(Window) \in [Streams -> 0..Cardinality(Ips)]
<1>1. ASSUME NEW st \in Streams
      PROVE  Cardinality({s \in Seen(Window) : s[1] = st}) \in 0..Cardinality(Ips)
  <2> DEFINE viewers == {s \in Seen(Window) : s[1] = st}
  <2>1. viewers \subseteq {st} \X Ips
      BY DEF Seen, Sessions
  <2>2. IsFiniteSet({st}) /\ Cardinality({st}) = 1
      BY FS_Singleton
  <2>3. Cardinality(Ips) \in Nat /\ IsFiniteSet(Ips)
      BY ViewerAssumed, FS_CardinalityType
  <2>4. IsFiniteSet({st} \X Ips) /\ Cardinality({st} \X Ips) = 1 * Cardinality(Ips)
      BY <2>2, <2>3, FS_Product
  <2>5. IsFiniteSet(viewers) /\ Cardinality(viewers) <= Cardinality({st} \X Ips)
      BY <2>1, <2>4, FS_Subset
  <2>6. Cardinality(viewers) \in Nat
      BY <2>5, FS_CardinalityType
  <2> HIDE DEF viewers
  <2>7. Cardinality(viewers) \in 0..Cardinality(Ips)
      BY <2>3, <2>4, <2>5, <2>6
  <2> QED BY <2>7 DEF viewers
<1> QED BY <1>1 DEF Count

LEMMA ViewerInitInv == ViewerInit => ViewerInv
<1> SUFFICES ASSUME ViewerInit PROVE ViewerInv
    OBVIOUS
<1>1. ViewerTypes
  <2>1. 0 \in 0..MaxTime /\ 0 \in 0..(0 + MinuteTicks) /\ 0 \in 0..MaxRestarts /\ 0 <= HistoryCap
        /\ 0 \in 0..MaxDoubts
      BY ViewerAssumed
  <2>2. <<>> \in Seq(Snapshots) /\ Len(<<>>) = 0
      OBVIOUS
  <2>3. IsFiniteSet(keys)
      BY FS_EmptySet DEF ViewerInit
  <2> QED BY <2>1, <2>2, <2>3 DEF ViewerInit, ViewerTypes
<1>2. HeardOf /\ InOrder
    BY DEF ViewerInit, HeardOf, InOrder
<1>3. \A m : Rows(m) = 0 /\ KeysOf(m) = {} /\ QueueOf(m) = {}
  <2>1. \A m : KeysOf(m) = {} /\ QueueOf(m) = {}
      BY DEF ViewerInit, KeysOf, QueueOf
  <2>2. Cardinality({}) = 0
      BY FS_EmptySet
  <2>3. \A m \in Minutes : stored[m] = 0
      BY DEF ViewerInit
  <2>4. \A m : Cardinality(KeysOf(m)) = 0
      BY <2>1, <2>2
  <2>5. ASSUME NEW m PROVE Rows(m) = 0
    <3>1. Rows(m) = IF outboxed THEN Cardinality(KeysOf(m)) ELSE IF m \in Minutes THEN stored[m] ELSE 0
        BY DEF Rows
    <3> QED BY <2>3, <2>4, <3>1
  <2> QED BY <2>1, <2>5
<1>4. Paced /\ Accounted
  <2>1. Cardinality({}) = 0
      BY FS_EmptySet
  <2>2. restarts = 0 /\ doubts = 0 /\ job # "persist" /\ keys = {} /\ \A m \in Minutes : stored[m] = 0
      BY DEF ViewerInit
  <2>3. \A m \in Nat : Rows(m) <= IF nextRun \div MinuteTicks <= m THEN restarts ELSE 1 + restarts
    <3> TAKE m \in Nat
    <3>1. Rows(m) = 0
        BY <1>3
    <3> QED BY <2>2, <3>1
  <2>4. Paced
      BY <2>2, <2>3 DEF Paced
  <2>5. \A m : Cardinality(QueueOf(m)) = 0 /\ Cardinality(KeysOf(m)) = 0
      BY <1>3, <2>1
  <2>6. Accounted
      BY <2>2, <2>5 DEF Accounted
  <2> QED BY <2>4, <2>6
<1> QED BY <1>1, <1>2, <1>4 DEF ViewerInv

----------------------------------------------------------------------------
\* A snapshot of the minute, if it has none yet.
LEMMA SnapshotKeeps ==
  ASSUME ViewerInv, RecordMinuteSnapshot, UNCHANGED <<now>>
  PROVE  /\ history' \in Seq(Snapshots) /\ Len(history') <= HistoryCap
         /\ lastSnapshot' \in {Gone} \cup 0..Minute'
         /\ InOrder'
<1>1. now \in 0..MaxTime /\ Minute' = Minute /\ Minute \in Nat
      /\ history \in Seq(Snapshots) /\ Len(history) <= HistoryCap /\ Len(history) \in Nat
      /\ lastSnapshot \in {Gone} \cup 0..Minute
    BY MinuteTypes DEF ViewerInv, ViewerTypes, Minute
<1>2. CASE lastSnapshot = Minute
    BY <1>1, <1>2 DEF RecordMinuteSnapshot, ViewerInv, InOrder
<1>3. CASE lastSnapshot # Minute
  <2> DEFINE snap == CountsNow
             longer == Append(history, snap)
  <2>1. snap \in Snapshots
      BY <1>1, CountTypes, MinuteTypes DEF Snapshots, CountsNow
  <2>2. history' = Keep(longer) /\ lastSnapshot' = Minute
      BY <1>3 DEF RecordMinuteSnapshot
  <2>3. /\ longer \in Seq(Snapshots) /\ Len(longer) = Len(history) + 1
        /\ longer[Len(history) + 1] = snap
        /\ \A i \in 1..Len(history) : longer[i] = history[i]
      BY <1>1, <2>1
  <2>4. \A i \in DOMAIN history : history[i].minute < Minute /\ history[i].minute \in Nat
    <3>1. \A i \in DOMAIN history : history[i].minute <= lastSnapshot
        BY DEF ViewerInv, InOrder
    <3>2. \A i \in DOMAIN history : history[i].minute \in Nat
        BY <1>1, SnapMinutes
    <3>3. lastSnapshot < Minute
        BY <1>1, <1>3 DEF Gone
    <3> QED BY <1>1, <3>1, <3>2, <3>3 DEF Gone
  <2>5. snap.minute = Minute
      BY DEF CountsNow
  <2> HIDE DEF snap, longer
  <2>6. DOMAIN history = 1..Len(history) /\ DOMAIN longer = 1..(Len(history) + 1)
      BY <1>1, <2>3
  <2>7. \A i \in 1..(Len(history) + 1) : longer[i].minute <= Minute
      BY <1>1, <2>3, <2>4, <2>5, <2>6
  <2>8. \A i, j \in 1..(Len(history) + 1) : i < j => longer[i].minute < longer[j].minute
    <3> TAKE i, j \in 1..(Len(history) + 1)
    <3> HAVE i < j
    <3>1. CASE j = Len(history) + 1
      <4>1. i \in 1..Len(history)
          BY <1>1, <3>1
      <4> QED BY <2>3, <2>4, <2>5, <2>6, <3>1, <4>1
    <3>2. CASE j # Len(history) + 1
      <4>1. i \in 1..Len(history) /\ j \in 1..Len(history)
          BY <1>1, <3>2
      <4> QED BY <2>3, <2>6, <4>1 DEF ViewerInv, InOrder
    <3> QED BY <3>1, <3>2
  <2>9. CASE Len(longer) > HistoryCap
    <3> DEFINE from == Len(longer) - HistoryCap + 1
    <3>1. from \in 1..(Len(history) + 1) /\ HistoryCap = Len(longer) - from + 1
          /\ from \in Int /\ Len(longer) \in Int
        BY <1>1, <2>3, <2>9, ViewerAssumed
    <3>2. history' = SubSeq(longer, from, Len(longer))
        BY <2>2, <2>9 DEF Keep
    <3> HIDE DEF from
    <3>3. /\ history' \in Seq(Snapshots) /\ Len(history') = HistoryCap
          /\ \A i \in 1..HistoryCap : /\ history'[i] = longer[from + i - 1]
                                      /\ from + i - 1 \in 1..(Len(history) + 1)
        BY <1>1, <2>3, <3>1, <3>2, ViewerAssumed
    <3>4. DOMAIN history' = 1..HistoryCap
        BY <3>3
    <3>5. \A i \in DOMAIN history' : history'[i].minute <= lastSnapshot'
        BY <2>2, <2>7, <3>3, <3>4
    <3>6. \A i, j \in DOMAIN history' : i < j => history'[i].minute < history'[j].minute
      <4> TAKE i, j \in DOMAIN history'
      <4> HAVE i < j
      <4>1. from + i - 1 < from + j - 1
          BY <3>1, <3>4, ViewerAssumed
      <4> QED BY <2>8, <3>3, <3>4, <4>1
    <3> QED BY <1>1, <2>2, <3>3, <3>5, <3>6, ViewerAssumed DEF InOrder
  <2>10. CASE ~(Len(longer) > HistoryCap)
    <3>1. history' = longer /\ Len(longer) <= HistoryCap
        BY <1>1, <2>2, <2>3, <2>10, ViewerAssumed DEF Keep
    <3> QED BY <1>1, <2>2, <2>3, <2>6, <2>7, <2>8, <3>1 DEF InOrder
  <2> QED BY <2>9, <2>10
<1> QED BY <1>2, <1>3

LEMMA ReadHistoryStep == ASSUME ViewerInv, ReadHistory PROVE ViewerInv'
<1>1. RecordMinuteSnapshot
      /\ UNCHANGED <<now, sessions, job, nextRun, storeVars, lastHit, restarts>>
    BY DEF ReadHistory
<1>2. /\ history' \in Seq(Snapshots) /\ Len(history') <= HistoryCap
      /\ lastSnapshot' \in {Gone} \cup 0..Minute' /\ InOrder'
    BY <1>1, SnapshotKeeps
<1>3. (\A m : Rows(m)' = Rows(m)) /\ Accounted'
    BY <1>1, RowsStay DEF ViewerInv
<1> QED BY <1>1, <1>2, <1>3 DEF ViewerInv, ViewerTypes, HeardOf, Paced, storeVars

LEMMA SnapshotStep == ASSUME ViewerInv, Snapshot PROVE ViewerInv'
<1>1. RecordMinuteSnapshot /\ now >= nextRun /\ job' = "persist"
      /\ UNCHANGED <<now, sessions, nextRun, storeVars, lastHit, restarts>>
    BY DEF Snapshot
<1>2. /\ history' \in Seq(Snapshots) /\ Len(history') <= HistoryCap
      /\ lastSnapshot' \in {Gone} \cup 0..Minute' /\ InOrder'
    BY <1>1, SnapshotKeeps
<1>3. (\A m : Rows(m)' = Rows(m)) /\ Accounted'
    BY <1>1, RowsStay DEF ViewerInv
<1>4. nextRun' <= now'
    BY <1>1 DEF ViewerInv, ViewerTypes
<1> QED BY <1>1, <1>2, <1>3, <1>4 DEF ViewerInv, ViewerTypes, HeardOf, Paced, storeVars

\* A row of this minute, or none; the next is at least a minute later.
LEMMA PersistStep == ASSUME ViewerInv, Persist PROVE ViewerInv'
<1>1. /\ UNCHANGED <<now, sessions, history, lastSnapshot, outboxed, doubts, lastHit, restarts>>
      /\ job = "persist" /\ job' = "sleep"
      /\ now \in Nat /\ now \in 0..MaxTime /\ nextRun \in Nat /\ nextRun <= now
      /\ restarts \in Nat /\ doubts \in Nat /\ stored \in [Minutes -> Nat]
      /\ queue \subseteq keys /\ keys \subseteq Snapshots /\ IsFiniteSet(keys) /\ outboxed \in BOOLEAN
      /\ ViewerTypes
    BY ViewerAssumed DEF Persist, ViewerInv, ViewerTypes, Paced
<1>2. nextRun' = now + MinuteTicks
    BY <1>1, ViewerAssumed DEF Persist
<1>3. Minute' = Minute /\ Minute \in Nat /\ Minute \in Minutes /\ nextRun \div MinuteTicks \in Nat
      /\ nextRun \div MinuteTicks <= Minute /\ nextRun' \div MinuteTicks = Minute + 1
    BY <1>1, <1>2, DivMonotone, NextMinute, MinuteTypes, ViewerAssumed DEF Minute
<1>4. CountsNow \in Snapshots /\ CountsNow.minute = Minute
    BY <1>1, <1>3, CountTypes DEF Snapshots, CountsNow
<1>a. Accounted
    BY DEF ViewerInv
<1>5. /\ queue' \subseteq keys' /\ keys' \subseteq Snapshots /\ IsFiniteSet(keys')
      /\ stored' \in [Minutes -> Nat] /\ Accounted'
      /\ \A m \in Nat : Rows(m)' = Rows(m) \/ (m = Minute /\ Rows(m)' = Rows(m) + 1)
  <2>1. CASE UNCHANGED <<queue, keys, stored>>
    <3>1. UNCHANGED storeVars
        BY <1>1, <2>1 DEF storeVars
    <3> QED BY <1>1, <1>a, <2>1, <3>1, RowsStay
  <2>2. CASE ~outboxed /\ stored' = [stored EXCEPT ![Minute] = @ + 1] /\ UNCHANGED <<queue, keys>>
    <3>1. keys = {} /\ \A m \in Minutes : stored'[m] = IF m = Minute THEN stored[m] + 1 ELSE stored[m]
        BY <1>1, <1>3, <1>a, <2>2 DEF Accounted
    <3>2. \A m \in Nat : Rows(m)' = Rows(m) \/ (m = Minute /\ Rows(m)' = Rows(m) + 1)
        BY <1>1, <1>3, <2>2, <3>1 DEF Rows
    <3>3. Accounted'
        BY <1>1, <2>2, <3>1 DEF Accounted
    <3> QED BY <1>1, <1>3, <2>2, <3>2, <3>3
  <2>3. CASE /\ outboxed /\ CountsNow \notin keys
             /\ queue' = queue \cup {CountsNow} /\ keys' = keys \cup {CountsNow} /\ UNCHANGED stored
    <3> DEFINE k == CountsNow
    <3>1. k \in Snapshots /\ k.minute = Minute /\ k \notin keys
        BY <1>4, <2>3
    <3>2. queue' = queue \cup {k} /\ keys' = keys \cup {k} /\ stored' = stored /\ outboxed
        BY <2>3
    <3> HIDE DEF k
    <3>3. queue' \subseteq keys' /\ keys' \subseteq Snapshots /\ IsFiniteSet(keys')
        BY <1>1, <3>1, <3>2, FS_AddElement
    <3>4. ASSUME NEW m
          PROVE  IF m = Minute
                 THEN /\ Cardinality(KeysOf(m)') = Cardinality(KeysOf(m)) + 1
                      /\ Cardinality(QueueOf(m)') = Cardinality(QueueOf(m)) + 1
                 ELSE KeysOf(m)' = KeysOf(m) /\ QueueOf(m)' = QueueOf(m)
      <4>1. IsFiniteSet(KeysOf(m)) /\ IsFiniteSet(QueueOf(m))
          BY <1>1, KeysFinite
      <4>2. k \notin KeysOf(m) /\ k \notin QueueOf(m)
          BY <1>1, <3>1 DEF KeysOf, QueueOf
      <4>3. CASE m = Minute
        <5>1. KeysOf(m)' = KeysOf(m) \cup {k} /\ QueueOf(m)' = QueueOf(m) \cup {k}
            BY <3>1, <3>2, <4>3 DEF KeysOf, QueueOf
        <5> QED BY <4>1, <4>2, <4>3, <5>1, FS_AddElement
      <4>4. CASE m # Minute
          BY <3>1, <3>2, <4>4 DEF KeysOf, QueueOf
      <4> QED BY <4>3, <4>4
    <3>5. \A m \in Nat : Rows(m)' = Rows(m) \/ (m = Minute /\ Rows(m)' = Rows(m) + 1)
        BY <1>1, <3>2, <3>4 DEF Rows
    <3>6. Accounted'
      <4>1. ASSUME NEW m \in Minutes
            PROVE  Cardinality(QueueOf(m)') + stored'[m] <= Cardinality(KeysOf(m)') + doubts'
        <5>1. /\ Cardinality(QueueOf(m)) \in Nat /\ Cardinality(KeysOf(m)) \in Nat /\ stored[m] \in Nat
              /\ Cardinality(QueueOf(m)) + stored[m] <= Cardinality(KeysOf(m)) + doubts
            BY <1>1, <1>a, <3>2, KeysFinite DEF Accounted
        <5>2. CASE m = Minute
          <6>1. /\ Cardinality(KeysOf(m)') = Cardinality(KeysOf(m)) + 1
                /\ Cardinality(QueueOf(m)') = Cardinality(QueueOf(m)) + 1
              BY <3>4, <5>2
          <6> QED BY <1>1, <3>2, <5>1, <6>1
        <5>3. CASE m # Minute
          <6>1. KeysOf(m)' = KeysOf(m) /\ QueueOf(m)' = QueueOf(m)
              BY <3>4, <5>3
          <6> QED BY <1>1, <3>2, <5>1, <6>1
        <5> QED BY <5>2, <5>3
      <4> QED BY <1>1, <1>a, <3>2, <4>1 DEF Accounted
    <3> QED BY <1>1, <3>2, <3>3, <3>5, <3>6
  <2> QED BY <2>1, <2>2, <2>3 DEF Persist
<1>6. ASSUME NEW m \in Nat
      PROVE  Rows(m)' <= IF nextRun' \div MinuteTicks <= m THEN restarts ELSE 1 + restarts
  <2>1. Rows(m) \in Nat
      BY <1>1, RowsCounted
  <2>2. Rows(m) <= IF nextRun \div MinuteTicks <= m THEN restarts ELSE 1 + restarts
      BY DEF ViewerInv, Paced
  <2> QED BY <1>1, <1>3, <1>5, <2>1, <2>2
<1>7. Paced'
    BY <1>1, <1>6 DEF Paced
<1>8. ViewerTypes'
  <2>1. nextRun' \in 0..(now' + MinuteTicks)
      BY <1>1, <1>2, ViewerAssumed
  <2> QED BY <1>1, <1>3, <1>5, <2>1 DEF ViewerInv, ViewerTypes
<1> QED BY <1>1, <1>5, <1>7, <1>8 DEF ViewerInv, HeardOf, InOrder

\* A job's rows are stored, and the job goes, or counts as a doubt.
LEMMA DrainStep == ASSUME ViewerInv, NEW j \in queue, Drain(j) PROVE ViewerInv'
<1>1. /\ UNCHANGED <<now, sessions, history, lastSnapshot, job, nextRun, outboxed, keys, lastHit, restarts>>
      /\ stored' = [stored EXCEPT ![j.minute] = @ + 1]
      /\ \/ queue' = queue \ {j} /\ doubts' = doubts
         \/ doubts < MaxDoubts /\ doubts' = doubts + 1 /\ queue' = queue
      /\ stored \in [Minutes -> Nat] /\ doubts \in 0..MaxDoubts /\ queue \subseteq keys
      /\ keys \subseteq Snapshots /\ j \in keys /\ ViewerTypes /\ Accounted
    BY DEF Drain, ViewerInv, ViewerTypes
<1>2. j.minute \in Minutes /\ outboxed
    BY <1>1, SnapMinutes DEF Accounted
<1>3. \A m \in Minutes : stored'[m] = IF m = j.minute THEN stored[m] + 1 ELSE stored[m]
    BY <1>1, <1>2
<1>4. queue' \subseteq keys' /\ stored' \in [Minutes -> Nat] /\ doubts' \in 0..MaxDoubts
    BY <1>1, <1>2, ViewerAssumed
<1>5. \A m : Rows(m)' = Rows(m) /\ KeysOf(m)' = KeysOf(m)
    BY <1>1, <1>2 DEF Rows, KeysOf
<1>6. ASSUME NEW m \in Minutes
      PROVE  Cardinality(QueueOf(m)') + stored'[m] <= Cardinality(KeysOf(m)') + doubts'
  <2>1. /\ Cardinality(QueueOf(m)) \in Nat /\ Cardinality(KeysOf(m)) \in Nat /\ stored[m] \in Nat
        /\ Cardinality(QueueOf(m)) + stored[m] <= Cardinality(KeysOf(m)) + doubts
        /\ IsFiniteSet(QueueOf(m))
      BY <1>1, <1>2, KeysFinite DEF Accounted
  <2>2. CASE m # j.minute
    <3>1. QueueOf(m)' = QueueOf(m)
        BY <1>1, <2>2 DEF QueueOf
    <3> QED BY <1>1, <1>3, <1>5, <2>1, <2>2, <3>1
  <2>3. CASE m = j.minute /\ queue' = queue /\ doubts' = doubts + 1
    <3>1. QueueOf(m)' = QueueOf(m)
        BY <2>3 DEF QueueOf
    <3> QED BY <1>1, <1>3, <1>5, <2>1, <2>3, <3>1
  <2>4. CASE m = j.minute /\ queue' = queue \ {j} /\ doubts' = doubts
    <3>1. QueueOf(m)' = QueueOf(m) \ {j} /\ j \in QueueOf(m)
        BY <2>4 DEF QueueOf
    <3>2. Cardinality(QueueOf(m)') = Cardinality(QueueOf(m)) - 1
        BY <2>1, <3>1, FS_RemoveElement
    <3> QED BY <1>1, <1>3, <1>5, <2>1, <2>4, <3>2
  <2> QED BY <1>1, <2>2, <2>3, <2>4
<1>7. Accounted'
  <2>1. ASSUME NEW k \in keys' PROVE k \in queue' \/ stored'[k.minute] > 0
    <3>1. k \in keys /\ k.minute \in Minutes /\ (k \in queue \/ stored[k.minute] > 0)
        BY <1>1, <2>1, SnapMinutes DEF Accounted
    <3>2. stored[k.minute] \in Nat
        BY <1>1, <3>1
    <3> QED BY <1>1, <1>3, <3>1, <3>2
  <2> QED BY <1>1, <1>2, <1>6, <2>1 DEF Accounted
<1>8. ViewerTypes' /\ HeardOf' /\ InOrder' /\ Paced'
    BY <1>1, <1>4, <1>5 DEF ViewerInv, ViewerTypes, HeardOf, InOrder, Paced, Minute
<1> QED BY <1>7, <1>8 DEF ViewerInv

\* What moves neither the ring nor the rows.
LEMMA TrackerKeeps ==
  ASSUME ViewerInv, UNCHANGED <<history, lastSnapshot, job, nextRun, storeVars, restarts>>,
         now' \in 0..MaxTime, now <= now'
  PROVE  /\ InOrder' /\ Paced' /\ Accounted' /\ lastSnapshot' \in {Gone} \cup 0..Minute'
         /\ nextRun' \in 0..(now' + MinuteTicks)
<1>1. now \in Nat /\ now' \in Nat /\ nextRun \in Nat /\ nextRun <= now + MinuteTicks
    BY ViewerAssumed DEF ViewerInv, ViewerTypes
<1>2. Minute \in Nat /\ Minute' \in Nat /\ Minute <= Minute'
    BY <1>1, DivMonotone, ViewerAssumed DEF Minute
<1>3. (\A m : Rows(m)' = Rows(m)) /\ Accounted'
    BY RowsStay DEF ViewerInv
<1>4. InOrder' /\ Paced'
    BY <1>1, <1>3 DEF ViewerInv, InOrder, Paced
<1>5. lastSnapshot' \in {Gone} \cup 0..Minute'
    BY <1>2 DEF ViewerInv, ViewerTypes
<1>6. nextRun' \in 0..(now' + MinuteTicks)
  <2>1. nextRun' = nextRun /\ now <= now' /\ MinuteTicks \in Nat
      BY ViewerAssumed
  <2>2. nextRun' \in Nat /\ now' + MinuteTicks \in Int
      BY <1>1, <2>1
  <2>3. nextRun' <= now' + MinuteTicks
    <3>1. \A a, b, c, d \in Nat : a <= b + d /\ b <= c => a <= c + d
        OBVIOUS
    <3> QED BY <1>1, <2>1, <3>1
  <2> QED BY <2>2, <2>3
<1> QED BY <1>3, <1>4, <1>5, <1>6

LEMMA HitStep == ASSUME ViewerInv, NEW s \in Sessions, RecordHit(s) PROVE ViewerInv'
<1>1. /\ UNCHANGED <<now, history, lastSnapshot, job, nextRun, storeVars, restarts>>
      /\ now \in Nat /\ now \in 0..now
      /\ sessions' = [sessions EXCEPT ![s] = now] /\ lastHit' = [lastHit EXCEPT ![s] = now]
    BY DEF RecordHit, ViewerInv, ViewerTypes
<1>2. /\ InOrder' /\ Paced' /\ Accounted' /\ lastSnapshot' \in {Gone} \cup 0..Minute'
      /\ nextRun' \in 0..(now' + MinuteTicks)
    BY <1>1, TrackerKeeps DEF ViewerInv, ViewerTypes
<1>3. ViewerTypes'
    BY <1>1, <1>2 DEF ViewerInv, ViewerTypes, storeVars
<1>4. HeardOf'
    BY <1>1 DEF ViewerInv, ViewerTypes, HeardOf
<1> QED BY <1>2, <1>3, <1>4 DEF ViewerInv

LEMMA CleanupStep == ASSUME ViewerInv, CleanupExpired PROVE ViewerInv'
<1>1. /\ UNCHANGED <<now, history, lastSnapshot, job, nextRun, storeVars, lastHit, restarts>>
      /\ now \in Nat
      /\ sessions' = [s \in Sessions |-> IF sessions[s] < now - Expiry THEN Gone ELSE sessions[s]]
    BY DEF CleanupExpired, ViewerInv, ViewerTypes
<1>2. /\ InOrder' /\ Paced' /\ Accounted' /\ lastSnapshot' \in {Gone} \cup 0..Minute'
      /\ nextRun' \in 0..(now' + MinuteTicks)
    BY <1>1, TrackerKeeps DEF ViewerInv, ViewerTypes
<1>3. ViewerTypes'
    BY <1>1, <1>2 DEF ViewerInv, ViewerTypes, storeVars
<1>4. HeardOf'
    BY <1>1 DEF ViewerInv, HeardOf
<1> QED BY <1>2, <1>3, <1>4 DEF ViewerInv

LEMMA SecondStep == ASSUME ViewerInv, Second PROVE ViewerInv'
<1>1. /\ UNCHANGED <<sessions, history, lastSnapshot, job, nextRun, storeVars, lastHit, restarts>>
      /\ now \in Nat /\ now' = now + 1 /\ now' \in 0..MaxTime
    BY ViewerAssumed DEF Second, ViewerInv, ViewerTypes
<1>2. /\ InOrder' /\ Paced' /\ Accounted' /\ lastSnapshot' \in {Gone} \cup 0..Minute'
      /\ nextRun' \in 0..(now' + MinuteTicks)
    BY <1>1, TrackerKeeps
<1>3. sessions' \in [Sessions -> {Gone} \cup 0..now'] /\ lastHit' \in [Sessions -> {Gone} \cup 0..now']
  <2>1. 0..now \subseteq 0..now'
      BY <1>1
  <2>2. \A s \in Sessions : sessions[s] \in {Gone} \cup 0..now' /\ lastHit[s] \in {Gone} \cup 0..now'
      BY <2>1 DEF ViewerInv, ViewerTypes
  <2> QED BY <1>1, <2>2 DEF ViewerInv, ViewerTypes
<1>4. ViewerTypes'
    BY <1>1, <1>2, <1>3 DEF ViewerInv, ViewerTypes, storeVars
<1>5. HeardOf'
  <2>1. \A s \in Sessions : lastHit[s] \in Int
      BY DEF ViewerInv, ViewerTypes, Gone
  <2> QED BY <1>1, <2>1, ViewerAssumed DEF ViewerInv, HeardOf
<1> QED BY <1>2, <1>4, <1>5 DEF ViewerInv

LEMMA ViewerRestartStep == ASSUME ViewerInv, ViewerRestart PROVE ViewerInv'
<1>1. /\ restarts' = restarts + 1 /\ restarts \in Nat /\ restarts' \in 0..MaxRestarts
      /\ sessions' = [s \in Sessions |-> Gone] /\ lastHit' = [s \in Sessions |-> Gone]
      /\ history' = <<>> /\ lastSnapshot' = Gone /\ job' = "sleep" /\ nextRun' = now
      /\ UNCHANGED <<now, storeVars>> /\ now \in Nat
    BY ViewerAssumed DEF ViewerRestart, ViewerInv, ViewerTypes
<1>2. ViewerTypes'
  <2>1. now \in 0..(now + MinuteTicks) /\ Len(<<>>) = 0 /\ 0 <= HistoryCap
      BY <1>1, ViewerAssumed
  <2>2. <<>> \in Seq(Snapshots)
      OBVIOUS
  <2> QED BY <1>1, <2>1, <2>2 DEF ViewerInv, ViewerTypes, storeVars
<1>3. HeardOf' /\ InOrder'
    BY <1>1 DEF HeardOf, InOrder
<1>4. Paced' /\ Accounted'
  <2>1. (\A m : Rows(m)' = Rows(m)) /\ Accounted'
      BY <1>1, RowsStay DEF ViewerInv
  <2>2. ASSUME NEW m \in Nat PROVE Rows(m) \in Nat /\ Rows(m) <= 1 + restarts
    <3>1. Rows(m) <= IF nextRun \div MinuteTicks <= m THEN restarts ELSE 1 + restarts
        BY DEF ViewerInv, Paced
    <3>2. Rows(m) \in Nat
        BY RowsCounted DEF ViewerInv
    <3> QED BY <1>1, <3>1, <3>2
  <2>3. \A m \in Nat : Rows(m)' <= restarts' /\ Rows(m)' <= 1 + restarts'
    <3> TAKE m \in Nat
    <3> QED BY <1>1, <2>1, <2>2
  <2> QED BY <1>1, <2>1, <2>3 DEF Paced
<1> QED BY <1>2, <1>3, <1>4 DEF ViewerInv

----------------------------------------------------------------------------
LEMMA ViewerNextInv == ViewerInv /\ [ViewerNext]_viewerVars => ViewerInv'
<1> SUFFICES ASSUME ViewerInv, [ViewerNext]_viewerVars PROVE ViewerInv'
    OBVIOUS
<1>1. CASE UNCHANGED viewerVars
  <2>1. UNCHANGED <<now, sessions, history, lastSnapshot, job, nextRun, storeVars, lastHit, restarts>>
      BY <1>1 DEF viewerVars
  <2>2. (\A m : Rows(m)' = Rows(m)) /\ Accounted'
      BY <2>1, RowsStay DEF ViewerInv
  <2> QED BY <2>1, <2>2 DEF ViewerInv, ViewerTypes, HeardOf, InOrder, Paced, Minute, storeVars
<1>2. CASE ViewerNext
    BY <1>2, HitStep, DrainStep, ReadHistoryStep, SnapshotStep, PersistStep, CleanupStep, SecondStep,
       ViewerRestartStep DEF ViewerNext
<1> QED BY <1>1, <1>2

LEMMA ViewerInvTypes == ViewerInv => ViewerTypeOK
<1> SUFFICES ASSUME ViewerInv PROVE ViewerTypeOK
    OBVIOUS
<1>1. ToSet(history) \subseteq Snapshots
    BY DEF ViewerInv, ViewerTypes, ToSet
<1> QED BY <1>1 DEF ViewerInv, ViewerTypes, ViewerTypeOK

\* What any window shows was heard of within it since the start of the process, and
\* all of that is shown but what was last heard of before the expiry, for any
\* streams, addresses, windows and cleanups (GetStats, CurrentCounts, CleanupExpired).
THEOREM WindowsExact == ViewerSpec => []WindowExact
<1>1. ViewerInv => WindowExact
  <2> SUFFICES ASSUME ViewerInv, NEW w \in 1..Widest, NEW s \in Sessions
               PROVE  /\ s \in Seen(w) => s \in Heard(w)
                      /\ s \in Heard(w) /\ s \notin Seen(w) => lastHit[s] < now - Expiry
      BY DEF WindowExact, Seen, Heard
  <2>1. sessions[s] = lastHit[s] \/ (sessions[s] = Gone /\ lastHit[s] < now - Expiry)
      BY DEF ViewerInv, HeardOf
  <2> QED BY <2>1 DEF Seen, Heard
<1> QED BY <1>1, ViewerInitInv, ViewerNextInv, PTL DEF ViewerSpec

\* The history has one snapshot of a minute at most, in order, and a process stores,
\* or hands to the outbox, one row of a minute, which is stored once but for the
\* outbox's doubts, whatever readers, jobs and restarts do (runEvery,
\* runStreamStatsSnapshots, handleVarnishSnapshot).
THEOREM SnapshotsOnce == ViewerSpec => []OneSnapshotPerMinute
<1>1. ViewerInv => OneSnapshotPerMinute
  <2> SUFFICES ASSUME ViewerInv, NEW m \in Minutes
               PROVE  IF outboxed
                      THEN /\ Cardinality(KeysOf(m)) <= 1 + restarts
                           /\ stored[m] <= Cardinality(KeysOf(m)) + doubts
                      ELSE stored[m] <= 1 + restarts
      BY DEF OneSnapshotPerMinute, ViewerInv, InOrder, Accounted
  <2>1. m \in Nat /\ restarts \in Nat /\ doubts \in Nat /\ stored[m] \in Nat /\ ViewerTypes
      BY MinutesAreNumbers DEF ViewerInv, ViewerTypes
  <2>2. Rows(m) <= IF nextRun \div MinuteTicks <= m THEN restarts ELSE 1 + restarts
      BY <2>1 DEF ViewerInv, Paced
  <2>3. Rows(m) \in Nat /\ Cardinality(KeysOf(m)) \in Nat /\ Cardinality(QueueOf(m)) \in Nat
      BY <2>1, RowsCounted, KeysFinite
  <2>4. Rows(m) <= 1 + restarts
      BY <2>1, <2>2, <2>3
  <2>5. outboxed => Cardinality(QueueOf(m)) + stored[m] <= Cardinality(KeysOf(m)) + doubts
      BY DEF ViewerInv, Accounted
  <2> QED BY <2>1, <2>3, <2>4, <2>5 DEF Rows
<1> QED BY <1>1, ViewerInitInv, ViewerNextInv, PTL DEF ViewerSpec

\* The tracker's clocks, ring and rows are well typed, the ring within its size
\* (varnish_analytics.go).
THEOREM ViewerTyped == ViewerSpec => []ViewerTypeOK
  BY ViewerInitInv, ViewerNextInv, ViewerInvTypes, PTL DEF ViewerSpec

----------------------------------------------------------------------------
(* Users *)

UserSteps == {"idle", "claims", "check", "post", "patch", "doc", "email", "ids", "rows",
          "purge", "purgeRow", "purgeDoc"}
UserRecs == [pc : UserSteps, creates : BOOLEAN, role : Held, uid : Uids \cup {"none"},
             todo : SUBSET Uids, about : SUBSET Uids]

StoreTypes ==
  /\ auth \in [Uids -> Held \cup {"unset"}]
  /\ users \in [Uids -> Held] /\ docs \in [Uids -> Held]
  /\ issued \subseteq Uids /\ orphaned \subseteq Uids
  /\ request \in [UserRequests -> UserRecs]

\* Which ids a request is about, by its step; the ids of a delete share an email.
Focused(q) ==
  /\ q.pc = "idle" => q.about = {}
  /\ q.pc \in {"claims", "check", "post", "patch", "doc"}
       => q.uid \in issued /\ q.about = {q.uid} /\ q.role \in Roles
  /\ q.pc \in {"email", "ids", "rows"} => q.uid \in Uids /\ q.about = SameEmail(q.uid)
  /\ q.pc \in {"purgeRow", "purgeDoc"} => q.uid \in q.about \ q.todo
  /\ q.todo \subseteq q.about
Focus == \A r \in UserRequests : Focused(request[r])

\* An id that was never issued is in no store.
Fresh == \A u \in Uids \ issued : auth[u] = Absent /\ users[u] = Absent /\ docs[u] = Absent

\* Two requests are about one id only if it counts as mishandled.
Exclusive ==
  \A q, r \in UserRequests, u \in Uids \ mishandled :
    u \in request[q].about /\ u \in request[r].about => q = r

Agree(u) == auth[u] = users[u] /\ users[u] = docs[u]

\* Or the row is gone that a delete found by its email.
Settled(u) == Agree(u) \/ (u \in orphaned /\ users[u] = Absent /\ auth[u] = docs[u])

\* What the stores hold of an id half-way through a request that is about it.
HalfWay(q, u) ==
  /\ q.pc = "claims" /\ q.creates => auth[u] # Absent /\ users[u] = Absent
  /\ q.pc = "claims" /\ ~q.creates => Settled(u)
  /\ q.pc \in {"check", "post"} => auth[u] = q.role /\ users[u] = Absent
  /\ q.pc = "patch" => auth[u] = q.role /\ (users[u] # Absent \/ u \in orphaned)
  /\ q.pc = "doc" =>
       auth[u] = q.role /\ (users[u] = q.role \/ (u \in orphaned /\ users[u] = Absent))
  /\ q.pc \in {"email", "ids", "rows"} => Settled(u)
  /\ q.pc = "purge" => u \in q.todo \/ Settled(u)
  /\ q.pc = "purgeRow" =>
       u \in q.todo \/ IF u = q.uid THEN auth[u] = Absent ELSE Settled(u)
  /\ q.pc = "purgeDoc" =>
       u \in q.todo \/ IF u = q.uid THEN auth[u] = Absent /\ users[u] = Absent ELSE Settled(u)
Between ==
  \A r \in UserRequests, u \in Uids \ mishandled :
    u \in request[r].about => HalfWay(request[r], u)

\* The inductive invariant.
UserInv == StoreTypes /\ Focus /\ Fresh /\ Exclusive /\ Between /\ UsersAgree


----------------------------------------------------------------------------
\* Nothing is there in the first state.
LEMMA UserInitInv == UserInit => UserInv
  BY DEF UserInit, UserInv, StoreTypes, UserRecs, UserSteps, Held, Roles, Absent, NoRequest, Focus, Focused,
         Fresh, Exclusive, Between, UsersAgree

\* A step of one request disturbs the ids that this request is about, and no others.
LEMMA Local ==
  ASSUME UserInv, NEW r \in UserRequests,
         StoreTypes', issued' = issued, Fresh', Focused(request[r])',
         \A q \in UserRequests \ {r} : request'[q] = request[q],
         request'[r].about \subseteq request[r].about,
         mishandled \subseteq mishandled', orphaned \subseteq orphaned',
         \A u \in Uids \ request[r].about :
           auth'[u] = auth[u] /\ users'[u] = users[u] /\ docs'[u] = docs[u],
         \A u \in Uids \ mishandled' :
           u \in request[r].about =>
             IF u \in request'[r].about THEN HalfWay(request[r], u)' ELSE Settled(u)'
  PROVE  UserInv'
<1>1. Exclusive'
    BY DEF UserInv, Exclusive
<1>2. ASSUME NEW q \in UserRequests, NEW u \in Uids \ mishandled', u \in request'[q].about
      PROVE  HalfWay(request[q], u)'
  <2>1. CASE q = r
      BY <1>2, <2>1
  <2>2. CASE q # r
    <3>1. u \notin request[r].about /\ HalfWay(request[q], u)
        BY <1>2, <2>2 DEF UserInv, Exclusive, Between
    <3>2. request'[q] = request[q] /\ auth'[u] = auth[u] /\ users'[u] = users[u]
          /\ docs'[u] = docs[u]
        BY <2>2, <3>1
    <3> QED BY <3>1, <3>2 DEF HalfWay, Settled, Agree
  <2> QED BY <2>1, <2>2
<1>3. ASSUME NEW u \in Uids \ mishandled', \A q \in UserRequests : u \notin request'[q].about
      PROVE  Settled(u)'
  <2>1. CASE u \in request[r].about
      BY <1>3, <2>1
  <2>2. CASE u \notin request[r].about
    <3>1. Settled(u)
        BY <1>3, <2>2 DEF UserInv, UsersAgree, Settled, Agree
    <3> QED BY <2>2, <3>1 DEF Settled, Agree
  <2> QED BY <2>1, <2>2
<1>4. Between' /\ UsersAgree'
    BY <1>2, <1>3 DEF Between, UsersAgree, Settled, Agree
<1>5. Focus'
    BY DEF UserInv, Focus, Focused
<1> QED BY <1>1, <1>4, <1>5 DEF UserInv

\* What the invariant says of the request at hand.
LEMMA AtHand ==
  ASSUME UserInv, NEW r \in UserRequests
  PROVE  /\ request[r] \in UserRecs /\ Focused(request[r])
         /\ \A u \in Uids \ mishandled : u \in request[r].about => HalfWay(request[r], u)
  BY DEF UserInv, StoreTypes, Focus, Between

\* Going to a step changes the step only; an answer ends the request.
LEMMA StepFields ==
  ASSUME StoreTypes, NEW r \in UserRequests, NEW pc \in UserSteps, Step(r, pc)
  PROVE  /\ request' \in [UserRequests -> UserRecs]
         /\ \A q \in UserRequests \ {r} : request'[q] = request[q]
         /\ request'[r].pc = pc
         /\ request'[r].creates = request[r].creates /\ request'[r].role = request[r].role
         /\ request'[r].uid = request[r].uid /\ request'[r].todo = request[r].todo
         /\ request'[r].about = request[r].about
  BY DEF StoreTypes, UserRecs, Step

LEMMA AnsweredFields ==
  ASSUME StoreTypes, NEW r \in UserRequests, Answered(r)
  PROVE  /\ request' \in [UserRequests -> UserRecs]
         /\ \A q \in UserRequests \ {r} : request'[q] = request[q]
         /\ request'[r].pc = "idle"
         /\ request'[r].todo = {} /\ request'[r].about = {}
  BY DEF StoreTypes, UserRecs, Answered, NoRequest, Held, UserSteps

LEMMA SetClaimsStep == ASSUME UserInv, NEW r \in UserRequests, SetClaims(r) PROVE UserInv'
<1> DEFINE u == request[r].uid
<1>1. /\ request[r] \in UserRecs /\ u \in issued /\ u \in Uids /\ request[r].pc = "claims"
      /\ request[r].about = {u} /\ request[r].role \in Roles /\ request[r].todo \subseteq {u}
    BY AtHand DEF Focused, SetClaims, At, UserInv, StoreTypes
<1>2. u \notin mishandled => HalfWay(request[r], u)
    BY AtHand, <1>1
<1>3. CASE auth[u] = Absent
  <2>1. auth' = auth
      BY <1>3 DEF SetClaims
  <2>2. CASE ~request[r].creates
    <3>1. Answered(r)
        BY <1>3, <2>2 DEF SetClaims
    <3>2. StoreTypes' /\ Fresh' /\ Focused(request[r])'
        BY <2>1, <3>1, AnsweredFields DEF SetClaims, UserInv, StoreTypes, Fresh, Focused
    <3> QED BY Local, AnsweredFields, <1>1, <1>2, <2>1, <2>2, <3>1, <3>2
            DEF SetClaims, Works, UserInv, HalfWay, Settled, Agree
  <2>3. CASE request[r].creates
    <3>1. Step(r, "check") /\ "check" \in UserSteps
        BY <1>3, <2>3 DEF SetClaims, UserSteps
    <3>2. StoreTypes' /\ Fresh' /\ Focused(request[r])'
        BY <1>1, <2>1, <3>1, StepFields DEF SetClaims, UserInv, StoreTypes, Fresh, Focused
    <3> QED BY Local, StepFields, <1>1, <1>2, <1>3, <2>1, <2>3, <3>1, <3>2
            DEF SetClaims, Works, UserInv, HalfWay, Settled, Agree
  <2> QED BY <2>2, <2>3
<1>4. CASE auth[u] # Absent
  <2>1. auth' = [auth EXCEPT ![u] = request[r].role]
      BY <1>4 DEF SetClaims
  <2>2. PICK pc \in {"check", "patch"} :
          Step(r, pc) /\ pc \in UserSteps /\ pc = IF request[r].creates THEN "check" ELSE "patch"
      BY <1>4 DEF SetClaims, UserSteps
  <2>3. StoreTypes' /\ Fresh' /\ Focused(request[r])'
      BY <1>1, <2>1, <2>2, StepFields
         DEF SetClaims, UserInv, StoreTypes, Fresh, Focused, Held
  <2> QED BY Local, StepFields, <1>1, <1>2, <1>4, <2>1, <2>2, <2>3
          DEF SetClaims, Works, UserInv, HalfWay, Settled, Agree, StoreTypes
<1> QED BY <1>3, <1>4

LEMMA SetClaimsFailsStep == ASSUME UserInv, NEW r \in UserRequests, SetClaimsFails(r) PROVE UserInv'
<1> DEFINE u == request[r].uid
<1>1. /\ request[r].pc = "claims" /\ u \in issued /\ request[r].about = {u}
      /\ request[r].role \in Roles /\ request[r].todo \subseteq {u}
      /\ mishandled' = mishandled \cup {u}
    BY AtHand DEF Focused, SetClaimsFails, At, Fails
<1>2. CASE request[r].creates
  <2>1. Step(r, "check") /\ "check" \in UserSteps
      BY <1>2 DEF SetClaimsFails, UserSteps
  <2>2. StoreTypes' /\ Fresh' /\ Focused(request[r])'
      BY <1>1, <2>1, StepFields DEF SetClaimsFails, UserInv, StoreTypes, Fresh, Focused
  <2> QED BY Local, StepFields, <1>1, <2>1, <2>2 DEF SetClaimsFails, UserInv
<1>3. CASE ~request[r].creates
  <2>1. Answered(r)
      BY <1>3 DEF SetClaimsFails
  <2>2. StoreTypes' /\ Fresh' /\ Focused(request[r])'
      BY <2>1, AnsweredFields DEF SetClaimsFails, UserInv, StoreTypes, Fresh, Focused
  <2> QED BY Local, AnsweredFields, <1>1, <2>1, <2>2 DEF SetClaimsFails, UserInv
<1> QED BY <1>2, <1>3

LEMMA CheckRowStep == ASSUME UserInv, NEW r \in UserRequests, CheckRow(r) PROVE UserInv'
<1> DEFINE u == request[r].uid
<1>1. /\ request[r].pc = "check" /\ u \in issued /\ request[r].about = {u}
      /\ request[r].role \in Roles /\ request[r].todo \subseteq {u}
      /\ (u \notin mishandled => HalfWay(request[r], u))
    BY AtHand DEF Focused, CheckRow, At, UserInv, StoreTypes
<1>2. PICK pc \in {"post", "patch", "doc"} :
        /\ Step(r, pc) /\ pc \in UserSteps
        /\ \/ Works /\ pc = IF users[u] = Absent THEN "post" ELSE "patch"
           \/ Fails(u)
    BY DEF CheckRow, UserSteps
<1>3. StoreTypes' /\ Fresh' /\ Focused(request[r])'
    BY <1>1, <1>2, StepFields DEF CheckRow, UserInv, StoreTypes, Fresh, Focused
<1>4. u \in mishandled' \/ HalfWay(request[r], u)'
    BY <1>1, <1>2, StepFields DEF CheckRow, HalfWay, Works, Fails, UserInv
<1> QED BY Local, StepFields, <1>1, <1>2, <1>3, <1>4 DEF CheckRow, UserInv, Works, Fails

LEMMA WriteRowStep == ASSUME UserInv, NEW r \in UserRequests, WriteRow(r) PROVE UserInv'
<1> DEFINE u == request[r].uid
<1>1. /\ request[r].pc \in {"post", "patch"} /\ u \in issued /\ u \in Uids
      /\ request[r].about = {u} /\ request[r].role \in Roles /\ request[r].todo \subseteq {u}
      /\ (u \notin mishandled => HalfWay(request[r], u))
    BY AtHand DEF Focused, WriteRow, UserInv, StoreTypes
<1>2. Step(r, "doc") /\ "doc" \in UserSteps
    BY DEF WriteRow, UserSteps
<1>3. users' = users \/ users' = [users EXCEPT ![u] = request[r].role]
    BY DEF WriteRow
<1>4. StoreTypes' /\ Fresh' /\ Focused(request[r])'
    BY <1>1, <1>2, <1>3, StepFields DEF WriteRow, UserInv, StoreTypes, Fresh, Focused, Held
<1>5. u \in mishandled' \/ HalfWay(request[r], u)'
    BY <1>1, <1>2, StepFields DEF WriteRow, At, HalfWay, Works, Fails, UserInv, StoreTypes
<1> QED BY Local, StepFields, <1>1, <1>2, <1>3, <1>4, <1>5
        DEF WriteRow, UserInv, Works, Fails, StoreTypes

LEMMA WriteDocStep == ASSUME UserInv, NEW r \in UserRequests, WriteDoc(r) PROVE UserInv'
<1>1. PICK u \in Uids :
        /\ u = request[r].uid /\ u \in issued /\ request[r].pc = "doc"
        /\ request[r].about = {u} /\ request[r].role \in Roles
        /\ (u \notin mishandled => HalfWay(request[r], u))
    BY AtHand DEF Focused, WriteDoc, At, UserInv, StoreTypes
<1>2. Answered(r)
    BY DEF WriteDoc
<1>3. docs' = docs \/ docs' = [docs EXCEPT ![u] = request[r].role]
    BY <1>1 DEF WriteDoc
<1>4. StoreTypes' /\ Fresh' /\ Focused(request[r])'
    BY <1>1, <1>2, <1>3, AnsweredFields DEF WriteDoc, UserInv, StoreTypes, Fresh, Focused, Held
<1>5. u \in mishandled' \/ Settled(u)'
  <2>1. CASE Fails(u)
      BY <2>1 DEF Fails
  <2>2. CASE docs' = [docs EXCEPT ![u] = request[r].role] /\ Works
      BY <1>1, <2>2 DEF WriteDoc, HalfWay, Settled, Agree, Works, UserInv, StoreTypes
  <2> QED BY <1>1, <2>1, <2>2 DEF WriteDoc
<1> QED BY Local, AnsweredFields, <1>1, <1>2, <1>3, <1>4, <1>5
        DEF WriteDoc, UserInv, Works, Fails, StoreTypes

----------------------------------------------------------------------------
LEMMA FindEmailStep == ASSUME UserInv, NEW r \in UserRequests, FindEmail(r) PROVE UserInv'
<1>1. request[r].pc = "email" /\ Focused(request[r]) /\ request[r] \in UserRecs
    BY AtHand DEF FindEmail, At
<1>2. PICK pc \in {"purge", "ids"} : Step(r, pc) /\ pc \in UserSteps
    BY DEF FindEmail, UserSteps
<1>3. StoreTypes' /\ Fresh' /\ Focused(request[r])'
    BY <1>1, <1>2, StepFields DEF FindEmail, UserInv, StoreTypes, Fresh, Focused
<1>4. ASSUME NEW v \in Uids \ mishandled', v \in request[r].about
      PROVE  HalfWay(request[r], v)'
  <2>1. v \notin mishandled /\ HalfWay(request[r], v)
      BY <1>4, AtHand DEF FindEmail, Works, Fails
  <2> QED BY <1>1, <1>2, <2>1, StepFields DEF FindEmail, HalfWay, Settled, Agree, UserInv
<1> QED BY Local, StepFields, <1>2, <1>3, <1>4 DEF FindEmail, UserInv, Works, Fails

LEMMA FindIdsStep == ASSUME UserInv, NEW r \in UserRequests, FindIds(r) PROVE UserInv'
<1>1. request[r].pc = "ids" /\ Focused(request[r]) /\ request[r] \in UserRecs
    BY AtHand DEF FindIds, At
<1>2. Step(r, "rows") /\ "rows" \in UserSteps
    BY DEF FindIds, UserSteps
<1>3. StoreTypes' /\ Fresh' /\ Focused(request[r])'
    BY <1>1, <1>2, StepFields DEF FindIds, UserInv, StoreTypes, Fresh, Focused
<1>4. ASSUME NEW v \in Uids \ mishandled', v \in request[r].about
      PROVE  HalfWay(request[r], v)'
  <2>1. v \notin mishandled /\ HalfWay(request[r], v)
      BY <1>4, AtHand DEF FindIds, Works
  <2> QED BY <1>1, <1>2, <2>1, StepFields DEF FindIds, HalfWay, Settled, Agree, UserInv
<1> QED BY Local, StepFields, <1>2, <1>3, <1>4 DEF FindIds, UserInv, Works

LEMMA DeleteRowsStep == ASSUME UserInv, NEW r \in UserRequests, DeleteRows(r) PROVE UserInv'
<1>1. request[r].pc = "rows" /\ Focused(request[r]) /\ request[r] \in UserRecs
      /\ request[r].about = SameEmail(request[r].uid) /\ request[r].about \subseteq Uids
    BY AtHand DEF DeleteRows, At, Focused, UserRecs
<1>2. Step(r, "purge") /\ "purge" \in UserSteps /\ UNCHANGED <<auth, docs, issued>>
    BY DEF DeleteRows, UserSteps
<1>3. \/ users' = users /\ orphaned' = orphaned
      \/ /\ users' = [v \in Uids |-> IF v \in request[r].about THEN Absent ELSE users[v]]
         /\ orphaned' = orphaned \cup {v \in request[r].about \ request[r].todo : users[v] # Absent}
    BY <1>1 DEF DeleteRows
<1>4. StoreTypes' /\ Fresh' /\ Focused(request[r])' /\ mishandled \subseteq mishandled'
    BY <1>1, <1>2, <1>3, StepFields
       DEF DeleteRows, UserInv, StoreTypes, Fresh, Focused, Works, Fails, Held
<1>5. ASSUME NEW v \in Uids \ mishandled', v \in request[r].about
      PROVE  HalfWay(request[r], v)'
  <2>1. Settled(v)
      BY <1>1, <1>4, <1>5, AtHand DEF HalfWay
  <2>2. v \in request[r].todo \/ Settled(v)'
      BY <1>2, <1>3, <1>5, <2>1 DEF Settled, Agree
  <2> QED BY <1>1, <1>2, <2>2, StepFields DEF HalfWay, UserInv
<1>6. \A u \in Uids \ request[r].about : users'[u] = users[u]
    BY <1>3
<1> QED BY Local, StepFields, <1>1, <1>2, <1>3, <1>4, <1>5, <1>6 DEF UserInv

LEMMA PurgeAccountStep ==
  ASSUME UserInv, NEW r \in UserRequests, NEW u \in Uids, PurgeAccount(r, u) PROVE UserInv'
<1>1. request[r].pc = "purge" /\ Focused(request[r]) /\ request[r] \in UserRecs
      /\ u \in request[r].todo /\ u \in request[r].about
    BY AtHand DEF PurgeAccount, At, Focused
<1>2. /\ request' \in [UserRequests -> UserRecs]
      /\ \A q \in UserRequests \ {r} : request'[q] = request[q]
      /\ request'[r].pc = "purgeRow" /\ request'[r].uid = u
      /\ request'[r].todo = request[r].todo \ {u}
      /\ request'[r].about = request[r].about
    BY <1>1 DEF PurgeAccount, UserInv, StoreTypes, UserRecs, UserSteps
<1>3. \/ auth' = auth /\ mishandled' = mishandled \cup {u}
      \/ auth' = [auth EXCEPT ![u] = Absent] /\ mishandled' = mishandled
    BY DEF PurgeAccount, Works, Fails
<1>4. StoreTypes' /\ Fresh' /\ Focused(request[r])'
    BY <1>1, <1>2, <1>3 DEF PurgeAccount, UserInv, StoreTypes, Fresh, Focused, Held
<1>5. ASSUME NEW v \in Uids \ mishandled', v \in request[r].about
      PROVE  HalfWay(request[r], v)'
  <2>1. HalfWay(request[r], v)
      BY <1>3, <1>5, AtHand
  <2>2. CASE v = u
      BY <1>2, <1>3, <1>5, <2>2 DEF HalfWay, UserInv, StoreTypes
  <2>3. CASE v # u
      BY <1>1, <1>2, <1>3, <2>1, <2>3 DEF PurgeAccount, HalfWay, Settled, Agree, UserInv, StoreTypes
  <2> QED BY <2>2, <2>3
<1> QED BY Local, <1>1, <1>2, <1>3, <1>4, <1>5 DEF PurgeAccount, UserInv, StoreTypes

LEMMA PurgeRowStep == ASSUME UserInv, NEW r \in UserRequests, PurgeRow(r) PROVE UserInv'
<1>1. PICK u \in Uids :
        /\ u = request[r].uid /\ request[r].pc = "purgeRow" /\ request[r] \in UserRecs
        /\ Focused(request[r]) /\ u \in request[r].about /\ u \notin request[r].todo
    BY AtHand DEF PurgeRow, At, Focused, UserRecs
<1>2. Step(r, "purgeDoc") /\ "purgeDoc" \in UserSteps
    BY DEF PurgeRow, UserSteps
<1>3. \/ users' = users /\ mishandled' = mishandled \cup {u}
      \/ users' = [users EXCEPT ![u] = Absent] /\ mishandled' = mishandled
    BY <1>1 DEF PurgeRow, Works, Fails
<1>4. StoreTypes' /\ Fresh' /\ Focused(request[r])'
    BY <1>1, <1>2, <1>3, StepFields DEF PurgeRow, UserInv, StoreTypes, Fresh, Focused, Held
<1>5. ASSUME NEW v \in Uids \ mishandled', v \in request[r].about
      PROVE  HalfWay(request[r], v)'
  <2>1. HalfWay(request[r], v)
      BY <1>3, <1>5, AtHand
  <2>2. CASE v = u
      BY <1>1, <1>2, <1>3, <1>5, <2>1, <2>2, StepFields DEF PurgeRow, HalfWay, UserInv, StoreTypes
  <2>3. CASE v # u
      BY <1>1, <1>2, <1>3, <2>1, <2>3, StepFields DEF PurgeRow, HalfWay, Settled, Agree, UserInv, StoreTypes
  <2> QED BY <2>2, <2>3
<1> QED BY Local, StepFields, <1>1, <1>2, <1>3, <1>4, <1>5 DEF PurgeRow, UserInv, StoreTypes

LEMMA PurgeDocStep == ASSUME UserInv, NEW r \in UserRequests, PurgeDoc(r) PROVE UserInv'
<1>1. PICK u \in Uids :
        /\ u = request[r].uid /\ request[r].pc = "purgeDoc" /\ request[r] \in UserRecs
        /\ Focused(request[r]) /\ u \in request[r].about /\ u \notin request[r].todo
    BY AtHand DEF PurgeDoc, At, Focused, UserRecs
<1>2. Step(r, "purge") /\ "purge" \in UserSteps
    BY DEF PurgeDoc, UserSteps
<1>3. \/ docs' = docs /\ mishandled' = mishandled \cup {u}
      \/ docs' = [docs EXCEPT ![u] = Absent] /\ mishandled' = mishandled
    BY <1>1 DEF PurgeDoc, Works, Fails
<1>4. StoreTypes' /\ Fresh' /\ Focused(request[r])'
    BY <1>1, <1>2, <1>3, StepFields DEF PurgeDoc, UserInv, StoreTypes, Fresh, Focused, Held
<1>5. ASSUME NEW v \in Uids \ mishandled', v \in request[r].about
      PROVE  HalfWay(request[r], v)'
  <2>1. HalfWay(request[r], v)
      BY <1>3, <1>5, AtHand
  <2>2. CASE v = u
      BY <1>1, <1>2, <1>3, <1>5, <2>1, <2>2, StepFields
         DEF PurgeDoc, HalfWay, Settled, Agree, UserInv, StoreTypes
  <2>3. CASE v # u
      BY <1>1, <1>2, <1>3, <2>1, <2>3, StepFields DEF PurgeDoc, HalfWay, Settled, Agree, UserInv, StoreTypes
  <2> QED BY <2>2, <2>3
<1> QED BY Local, StepFields, <1>1, <1>2, <1>3, <1>4, <1>5 DEF PurgeDoc, UserInv, StoreTypes

LEMMA PurgedStep == ASSUME UserInv, NEW r \in UserRequests, Purged(r) PROVE UserInv'
<1>1. request[r].pc = "purge" /\ request[r].todo = {} /\ Answered(r)
    BY DEF Purged, At
<1>2. StoreTypes' /\ Fresh' /\ Focused(request[r])'
    BY <1>1, AnsweredFields DEF Purged, UserInv, StoreTypes, Fresh, Focused
<1>3. \A v \in Uids \ mishandled' : v \in request[r].about => Settled(v)'
    BY <1>1, AtHand DEF Purged, Works, HalfWay, Settled, Agree
<1> QED BY Local, AnsweredFields, <1>1, <1>2, <1>3 DEF Purged, Works, UserInv

----------------------------------------------------------------------------
\* A new request takes over ids that no other request is about, or has them
\* count as mishandled.
LEMMA Begun ==
  ASSUME UserInv, NEW r \in UserRequests, NEW new \in UserRecs, Begin(r, new),
         StoreTypes', issued \subseteq issued', Fresh', Focused(new)',
         \A u \in Uids \ new.about :
           auth'[u] = auth[u] /\ users'[u] = users[u] /\ docs'[u] = docs[u],
         \A u \in new.about : Settled(u) => HalfWay(new, u)'
  PROVE  UserInv'
<1>1. /\ request[r].about = {} /\ request'[r] = new
      /\ \A q \in UserRequests \ {r} : request'[q] = request[q]
      /\ mishandled \subseteq mishandled' /\ orphaned' = orphaned
      /\ \A u \in new.about, q \in UserRequests \ {r} :
           u \in request[q].about => u \in mishandled'
    BY AtHand DEF Begin, At, Focused, UserInv, StoreTypes, UserRecs
<1>2. Exclusive'
    BY <1>1 DEF UserInv, Exclusive
<1>3. Focus'
    BY <1>1 DEF UserInv, Focus, Focused
<1>4. ASSUME NEW q \in UserRequests, NEW u \in Uids \ mishandled', u \in request'[q].about
      PROVE  HalfWay(request[q], u)'
  <2>1. CASE q = r
    <3>1. \A p \in UserRequests : u \notin request[p].about
        BY <1>1, <1>4, <2>1
    <3>2. Settled(u)
        BY <1>1, <1>4, <3>1 DEF UserInv, UsersAgree, Settled, Agree
    <3> QED BY <1>1, <1>4, <2>1, <3>2
  <2>2. CASE q # r
    <3>1. u \notin new.about /\ HalfWay(request[q], u) /\ request'[q] = request[q]
        BY <1>1, <1>4, <2>2 DEF UserInv, Between
    <3> QED BY <1>1, <1>4, <3>1 DEF HalfWay, Settled, Agree
  <2> QED BY <2>1, <2>2
<1>5. UsersAgree'
  <2>1. SUFFICES ASSUME NEW u \in Uids, u \notin mishandled',
                        \A q \in UserRequests : u \notin request'[q].about
                 PROVE  Settled(u)'
      BY DEF UsersAgree, Settled, Agree
  <2>2. u \notin new.about /\ \A q \in UserRequests : u \notin request[q].about
      BY <1>1, <2>1
  <2> QED BY <1>1, <2>1, <2>2 DEF UserInv, UsersAgree, Settled, Agree
<1> QED BY <1>2, <1>3, <1>4, <1>5 DEF UserInv, Between

LEMMA CreateStep ==
  ASSUME UserInv, NEW r \in UserRequests, NEW u \in Uids, NEW role \in Roles, Create(r, u, role)
  PROVE  UserInv'
<1> DEFINE new == [pc |-> "claims", creates |-> TRUE, role |-> role, uid |-> u, todo |-> {},
                   about |-> {u}]
<1>1. new \in UserRecs /\ Begin(r, new) /\ issued \subseteq issued'
    BY DEF Create, UserRecs, UserSteps, Held
<1>2. StoreTypes' /\ Fresh' /\ Focused(new)'
    BY <1>1 DEF Create, Begin, UserInv, StoreTypes, Fresh, Focused
<1>3. \A v \in new.about : HalfWay(new, v)'
    BY DEF Create, UserInv, StoreTypes, Fresh, HalfWay, Absent
<1> QED BY Begun, <1>1, <1>2, <1>3 DEF Create, UserInv, StoreTypes

LEMMA CreateLostStep ==
  ASSUME UserInv, NEW r \in UserRequests, NEW u \in Uids, CreateLost(r, u)
  PROVE  UserInv'
<1>1. u \in mishandled' /\ mishandled \subseteq mishandled' /\ request' = request /\ orphaned' = orphaned
      /\ \A v \in Uids \ {u} : auth'[v] = auth[v] /\ users'[v] = users[v] /\ docs'[v] = docs[v]
    BY DEF CreateLost, Fails, UserInv, StoreTypes
<1>2. StoreTypes' /\ Fresh' /\ Focus'
    BY <1>1 DEF CreateLost, UserInv, StoreTypes, Fresh, Focus, Focused
<1>3. Exclusive' /\ Between' /\ UsersAgree'
    BY <1>1 DEF UserInv, Exclusive, Between, UsersAgree, HalfWay, Settled, Agree
<1> QED BY <1>2, <1>3 DEF UserInv

LEMMA ChangeRoleStep ==
  ASSUME UserInv, NEW r \in UserRequests, NEW u \in Uids, NEW role \in Roles, ChangeRole(r, u, role)
  PROVE  UserInv'
<1> DEFINE new == [pc |-> "claims", creates |-> FALSE, role |-> role, uid |-> u, todo |-> {},
                   about |-> {u}]
<1>1. new \in UserRecs /\ Begin(r, new) /\ issued \subseteq issued'
    BY DEF ChangeRole, UserRecs, UserSteps, Held
<1>2. StoreTypes' /\ Fresh' /\ Focused(new)'
    BY <1>1 DEF ChangeRole, Begin, UserInv, StoreTypes, Fresh, Focused
<1>3. \A v \in new.about : Settled(v) => HalfWay(new, v)'
    BY DEF ChangeRole, Begin, HalfWay, Settled, Agree
<1> QED BY Begun, <1>1, <1>2, <1>3 DEF ChangeRole

LEMMA DeleteStep ==
  ASSUME UserInv, NEW r \in UserRequests, NEW u \in Uids, NEW how \in {"id", "email", "both"},
         Delete(r, u, how)
  PROVE  UserInv'
<1> DEFINE new == [pc |-> IF how = "id" THEN "email" ELSE "ids", creates |-> FALSE,
                   role |-> Absent, uid |-> u, todo |-> IF how = "email" THEN {} ELSE {u},
                   about |-> SameEmail(u)]
<1>1. new \in UserRecs /\ Begin(r, new) /\ issued \subseteq issued'
    BY DEF Delete, UserRecs, UserSteps, Held, SameEmail
<1>2. StoreTypes' /\ Fresh' /\ Focused(new)'
    BY <1>1 DEF Delete, Begin, UserInv, StoreTypes, Fresh, Focused, SameEmail
<1>3. \A v \in new.about : Settled(v) => HalfWay(new, v)'
    BY DEF Delete, Begin, HalfWay, Settled, Agree
<1> QED BY Begun, <1>1, <1>2, <1>3 DEF Delete

----------------------------------------------------------------------------
LEMMA UserNextInv == UserInv /\ [UserNext]_userVars => UserInv'
<1> SUFFICES ASSUME UserInv, [UserNext]_userVars PROVE UserInv'
    OBVIOUS
<1>1. CASE UNCHANGED userVars
    BY <1>1 DEF userVars, UserInv, StoreTypes, Focus, Focused, Fresh, Exclusive, Between, UsersAgree,
                HalfWay, Settled, Agree
<1>2. CASE UserNext
    BY <1>2, CreateStep, CreateLostStep, ChangeRoleStep, DeleteStep, SetClaimsStep,
       SetClaimsFailsStep, CheckRowStep, WriteRowStep, WriteDocStep, FindEmailStep, FindIdsStep,
       DeleteRowsStep, PurgeAccountStep, PurgeRowStep, PurgeDocStep, PurgedStep
       DEF UserNext
<1> QED BY <1>1, <1>2

----------------------------------------------------------------------------
(* Types *)

\* What is counted, beside the stores and the requests.
Tallied ==
  mishandled \subseteq Uids /\ ops \in 0..MaxOps /\ userFaults \in 0..MaxUserFaults

LEMMA MishapTallied ==
  ASSUME Tallied, NEW who \in SUBSET Uids, ops' = ops,
         \/ Works
         \/ /\ userFaults < MaxUserFaults /\ userFaults' = userFaults + 1
            /\ mishandled' = mishandled \cup who
  PROVE  Tallied'
  BY UserAssumption DEF Tallied, Works

LEMMA BegunTallied ==
  ASSUME UserInv, Tallied, NEW r \in UserRequests, NEW new, new.about \subseteq Uids, Begin(r, new)
  PROVE  Tallied'
  BY UserAssumption DEF Tallied, Begin

LEMMA StepTallied ==
  ASSUME UserInv, Tallied, NEW r \in UserRequests,
         \/ SetClaims(r) \/ SetClaimsFails(r) \/ CheckRow(r) \/ WriteRow(r) \/ WriteDoc(r)
         \/ FindEmail(r) \/ FindIds(r) \/ DeleteRows(r) \/ PurgeRow(r) \/ PurgeDoc(r) \/ Purged(r)
         \/ \E u \in Uids : PurgeAccount(r, u)
  PROVE  Tallied'
<1> DEFINE u == request[r].uid
<1>1. ops' = ops
    BY DEF SetClaims, SetClaimsFails, CheckRow, WriteRow, WriteDoc, FindEmail, FindIds, DeleteRows,
           PurgeAccount, PurgeRow, PurgeDoc, Purged
<1>2. CASE Purged(r) \/ \E v \in Uids : PurgeAccount(r, v)
  <2>1. Works \/ \E v \in Uids : Fails(v)
      BY <1>2 DEF PurgeAccount, Purged
  <2>2. Works \/ \E v \in Uids : {v} \in SUBSET Uids /\ Fails(v)
      BY <2>1
  <2> QED BY <1>1, <2>2, MishapTallied DEF Fails
<1>3. CASE ~(Purged(r) \/ \E v \in Uids : PurgeAccount(r, v))
  <2>1. request[r].pc \in UserSteps \ {"idle", "purge"}
      BY <1>3 DEF SetClaims, SetClaimsFails, CheckRow, WriteRow, WriteDoc, FindEmail, FindIds,
                  DeleteRows, PurgeRow, PurgeDoc, At, UserSteps
  <2>2. u \in Uids
    <3>1. Focused(request[r]) /\ request[r].about \subseteq Uids /\ issued \subseteq Uids
        BY DEF UserInv, Focus, StoreTypes, UserRecs
    <3> QED BY <2>1, <3>1 DEF Focused, UserSteps
  <2>3. {u} \in SUBSET Uids
      BY <2>2
  <2>4. Works \/ Fails(u)
      BY <1>3 DEF SetClaims, SetClaimsFails, CheckRow, WriteRow, WriteDoc, FindEmail, FindIds,
                  DeleteRows, PurgeRow, PurgeDoc
  <2> HIDE DEF u
  <2> QED BY <1>1, <2>3, <2>4, MishapTallied DEF Fails
<1> QED BY <1>2, <1>3

LEMMA NextTallied == UserInv /\ Tallied /\ [UserNext]_userVars => Tallied'
<1> SUFFICES ASSUME UserInv, Tallied, [UserNext]_userVars PROVE Tallied'
    OBVIOUS
<1>1. CASE UNCHANGED userVars
    BY <1>1 DEF userVars, Tallied
<1>2. ASSUME NEW r \in UserRequests, NEW u \in Uids, NEW role \in Roles,
             Create(r, u, role) \/ ChangeRole(r, u, role)
      PROVE  Tallied'
  <2>1. \E new : new.about = {u} /\ Begin(r, new)
      BY <1>2 DEF Create, ChangeRole
  <2> QED BY <2>1, BegunTallied
<1>3. ASSUME NEW r \in UserRequests, NEW u \in Uids, NEW how \in {"id", "email", "both"},
             Delete(r, u, how)
      PROVE  Tallied'
  <2>1. \E new : new.about = SameEmail(u) /\ Begin(r, new)
      BY <1>3 DEF Delete
  <2> QED BY <2>1, BegunTallied DEF SameEmail
<1>4. ASSUME NEW r \in UserRequests, NEW u \in Uids, CreateLost(r, u) PROVE Tallied'
    BY <1>4, UserAssumption DEF CreateLost, Fails, Tallied
<1> QED BY <1>1, <1>2, <1>3, <1>4, StepTallied DEF UserNext

LEMMA InitTallied == UserInit => Tallied
  BY UserAssumption DEF UserInit, Tallied

LEMMA UserInvTypes == UserInv /\ Tallied => UserTypeOK
<1> SUFFICES ASSUME UserInv, Tallied PROVE UserTypeOK
    OBVIOUS
<1>1. ASSUME NEW r \in UserRequests
      PROVE  /\ request[r].pc \in UserSteps
             /\ request[r].creates \in BOOLEAN /\ request[r].role \in Held
             /\ request[r].uid \in Uids \cup {"none"}
             /\ request[r].todo \subseteq request[r].about /\ request[r].about \subseteq Uids
  <2>1. request[r] \in UserRecs /\ Focused(request[r])
      BY DEF UserInv, StoreTypes, Focus
  <2> QED BY <2>1 DEF UserRecs, Focused
<1> QED BY <1>1 DEF UserInv, StoreTypes, Tallied, UserTypeOK, UserSteps

\* However many requests run at once, in any order of their steps: an id that was
\* handled by one request at a time and without a failed step has one role, in all
\* three stores, once the request has ended, or no row and one role in the other two
\* where a delete found the row by its email (handleCreateUser,
\* handleUpdateUserRole, handleDeleteUser).
THEOREM StoresAgree == UserSpec => []UsersAgree
<1>1. UserSpec => []UserInv
    BY UserInitInv, UserNextInv, PTL DEF UserSpec
<1>2. UserInv => UsersAgree
    BY DEF UserInv
<1> QED BY <1>1, <1>2, PTL

\* The three stores and the requests are well typed.
THEOREM UserTyped == UserSpec => []UserTypeOK
  BY UserInitInv, InitTallied, UserNextInv, NextTallied, UserInvTypes, PTL DEF UserSpec

----------------------------------------------------------------------------
(* Listeners' texts *)

Handlers == [pc : Running \cup {"unsent", "refused", "cut", "dropped", "done"},
             room : Rooms \cup {"none"}, aired : SUBSET (Rooms \cup {"none"}),
             blind : BOOLEAN]

Routed == {"insert", "contact", "patch", "post", "notify", "done"}
Written == {"contact", "patch", "post", "notify", "done"}

\* Where the message of one push is, by how far its handler came.
Placed(p) ==
  /\ push[p].pc \in Running => onAir \in push[p].aired
  /\ (push[p].pc \in Routed \/ p \in written) => push[p].room \in push[p].aired \ {"none"}
  /\ push[p].pc \in {"unsent", "route", "resolve"} => p \notin written
  /\ push[p].pc \in Written => p \in written
  /\ p \in written => p \in early \/ (push[p].room \in stamped /\ p \in messages)
  /\ push[p].pc = "dropped" => "none" \in push[p].aired \/ push[p].blind \/ route = "escaped"
  /\ route = "escaped" => push[p].pc \notin Routed /\ p \notin written

\* Whether its sender is known.
Known(p) ==
  /\ push[p].pc = "patch" => Sender[p[1]] \in contacts
  /\ push[p].pc \in {"notify", "done"} => Sender[p[1]] \in contacts \/ push[p].blind

\* The room that the manager is clearing has no stamp yet.
ClearsUnstamped == clear.pc \in {"delete", "stamp"} => clear.room \in Rooms \ stamped

InboundInv ==
  /\ InboundTypeOK
  /\ \A p \in Pushes : Placed(p) /\ Known(p)
  /\ ClearsUnstamped

LEMMA InboundTyped ==
  ASSUME InboundInv
  PROVE  /\ push \in [Pushes -> Handlers] /\ onAir \in Rooms \cup {"none"}
         /\ early \subseteq written /\ messages \subseteq written /\ written \subseteq Pushes
  BY DEF InboundInv, InboundTypeOK, Handlers

LEMMA SenderOfText == ASSUME NEW p \in Pushes PROVE Sender[p[1]] \in {Sender[t] : t \in Texts}
  BY DEF Pushes

LEMMA InboundInitInv == InboundInit => InboundInv
<1> SUFFICES ASSUME InboundInit PROVE InboundInv
    OBVIOUS
<1>1. InboundTypeOK
  <2>1. Handler("unsent", "none", {}, FALSE) \in Handlers
      BY DEF Handler, Handlers
  <2>2. push \in [Pushes -> Handlers]
      BY <2>1 DEF InboundInit
  <2>3. 0 \in 0..MaxMoves /\ 0 \in 0..MaxInboundFaults
      BY InboundAssumption
  <2>4. clear \in [pc : {"idle", "delete", "stamp"}, room : Rooms \cup {"none"}]
      BY DEF InboundInit, IdleClear
  <2> QED BY <2>2, <2>3, <2>4 DEF InboundInit, InboundTypeOK, Handlers
<1>2. \A p \in Pushes : Placed(p) /\ Known(p)
    BY DEF InboundInit, Placed, Known, Handler, Running, Routed, Written
<1>3. ClearsUnstamped
    BY DEF InboundInit, ClearsUnstamped, IdleClear
<1> QED BY <1>1, <1>2, <1>3 DEF InboundInv

----------------------------------------------------------------------------
(* Handlers *)

\* A handler's step writes its own message and adds to the contacts, and leaves
\* the rooms and the other handlers alone.
LEMMA HandlerStep ==
  ASSUME InboundInv, NEW p \in Pushes, UNCHANGED roomVars,
         messages \subseteq messages', messages' \subseteq messages \cup {p},
         written \subseteq written', written' \subseteq written \cup {p},
         early \subseteq early', early' \subseteq early \cup {p},
         messages' \subseteq written', early' \subseteq written',
         contacts \subseteq contacts', contacts' \subseteq {Sender[t] : t \in Texts},
         alerts' \subseteq Pushes \X RoomAdmins, inboundFaults' \in 0..MaxInboundFaults,
         NEW new \in Handlers, push' = [push EXCEPT ![p] = new],
         Placed(p)', Known(p)'
  PROVE  InboundInv'
<1>1. push' \in [Pushes -> Handlers] /\ \A q \in Pushes \ {p} : push'[q] = push[q]
    BY InboundTyped
<1>2. InboundTypeOK'
    BY <1>1, InboundTyped DEF InboundInv, InboundTypeOK, Handlers, roomVars
<1>3. \A q \in Pushes \ {p} : Placed(q)' /\ Known(q)'
    BY <1>1 DEF InboundInv, Placed, Known, roomVars
<1>4. ClearsUnstamped'
    BY DEF InboundInv, ClearsUnstamped, roomVars
<1> QED BY <1>2, <1>3, <1>4 DEF InboundInv

\* A step that moves its handler on and touches no table.
LEMMA MoveStep ==
  ASSUME InboundInv, NEW p \in Pushes, UNCHANGED <<roomVars, tableVars>>,
         inboundFaults' \in 0..MaxInboundFaults,
         NEW new \in Handlers, push' = [push EXCEPT ![p] = new], push'[p] = new,
         Placed(p)', Known(p)'
  PROVE  InboundInv'
<1>1. /\ messages' = messages /\ written' = written /\ early' = early /\ contacts' = contacts
      /\ alerts' = alerts /\ UNCHANGED roomVars
    BY DEF tableVars
<1> QED BY <1>1, HandlerStep, InboundTyped DEF InboundInv, InboundTypeOK

LEMMA InboundFaultsBounded ==
  ASSUME InboundInv, NoInboundFault \/ InboundFault PROVE inboundFaults' \in 0..MaxInboundFaults
  BY InboundAssumption DEF InboundInv, InboundTypeOK, NoInboundFault, InboundFault

LEMMA ToNew ==
  ASSUME InboundInv, NEW p \in Pushes, NEW pc \in Running \cup {"refused", "cut", "dropped", "done"},
         To(p, pc)
  PROVE  \E new \in Handlers :
           /\ push' = [push EXCEPT ![p] = new] /\ push'[p] = new
           /\ new.pc = pc /\ new.room = push[p].room /\ new.aired = push[p].aired
           /\ new.blind = push[p].blind
<1>1. PICK new : new = [push[p] EXCEPT !.pc = pc]
    OBVIOUS
<1>2. new \in Handlers /\ new.pc = pc /\ new.room = push[p].room
      /\ new.aired = push[p].aired /\ new.blind = push[p].blind
    BY <1>1, InboundTyped DEF Handlers
<1>3. push' = [push EXCEPT ![p] = new] /\ push'[p] = new
    BY <1>1, InboundTyped DEF To
<1> QED BY <1>2, <1>3

LEMMA SendStep == ASSUME InboundInv, NEW p \in Pushes, Send(p) PROVE InboundInv'
<1> DEFINE new == Handler("route", "none", {onAir}, FALSE)
<1>1. new \in Handlers
    BY InboundTyped DEF Handler, Handlers, Running
<1>2. /\ push[p].pc = "unsent" /\ UNCHANGED <<roomVars, tableVars>>
      /\ push' = [push EXCEPT ![p] = new] /\ push'[p] = new
    BY InboundTyped DEF Send
<1>3. inboundFaults' \in 0..MaxInboundFaults
    BY InboundFaultsBounded DEF Send
<1>4. Placed(p)' /\ Known(p)'
    BY <1>2 DEF InboundInv, Placed, Known, Handler, Running, Routed, Written, roomVars, tableVars
<1> HIDE DEF new
<1> QED BY <1>1, <1>2, <1>3, <1>4, MoveStep

LEMMA RouteStep ==
  ASSUME InboundInv, NEW p \in Pushes, ReadRoute(p) \/ ReadRouteFails(p) PROVE InboundInv'
<1>1. PICK pc \in {"resolve", "refused"} : To(p, pc)
    BY DEF ReadRoute, ReadRouteFails
<1>2. push[p].pc = "route" /\ UNCHANGED <<roomVars, tableVars>>
    BY DEF ReadRoute, ReadRouteFails
<1>3. PICK new \in Handlers :
         /\ push' = [push EXCEPT ![p] = new] /\ push'[p] = new
         /\ new.pc = pc /\ new.room = push[p].room /\ new.aired = push[p].aired
         /\ new.blind = push[p].blind
    BY <1>1, ToNew DEF Running
<1>4. inboundFaults' \in 0..MaxInboundFaults
    BY InboundFaultsBounded DEF ReadRoute, ReadRouteFails
<1>5. Placed(p)' /\ Known(p)'
    BY <1>1, <1>2, <1>3 DEF InboundInv, Placed, Known, Running, Routed, Written, roomVars, tableVars
<1> QED BY <1>2, <1>3, <1>4, <1>5, MoveStep

LEMMA ResolveStep == ASSUME InboundInv, NEW p \in Pushes, Resolve(p) PROVE InboundInv'
<1> DEFINE found == IF route = "escaped" THEN "none" ELSE onAir
           pc == IF found = "none" THEN "dropped" ELSE "insert"
<1>1. PICK new : new = [push[p] EXCEPT !.room = found, !.pc = pc]
    OBVIOUS
<1>2. new \in Handlers /\ new.pc = pc /\ new.room = found /\ new.aired = push[p].aired
  <2>1. pc \in Running \cup {"unsent", "refused", "cut", "dropped", "done"}
      BY DEF Running
  <2>2. found \in Rooms \cup {"none"}
      BY InboundTyped
  <2> HIDE DEF pc, found
  <2> QED BY <1>1, <2>1, <2>2, InboundTyped DEF Handlers
<1>3. /\ push[p].pc = "resolve" /\ UNCHANGED <<roomVars, tableVars>>
      /\ push' = [push EXCEPT ![p] = new] /\ push'[p] = new
    BY <1>1, InboundTyped DEF Resolve
<1>4. inboundFaults' \in 0..MaxInboundFaults
    BY InboundFaultsBounded DEF Resolve
<1>5. Placed(p)' /\ Known(p)'
    BY <1>2, <1>3 DEF InboundInv, Placed, Known, Running, Routed, Written, roomVars, tableVars
<1> HIDE DEF pc, found
<1> QED BY <1>2, <1>3, <1>4, <1>5, MoveStep

\* A handler that gives up blind: nothing on air to be read, or no contact written.
LEMMA BlindStep ==
  ASSUME InboundInv, NEW p \in Pushes, ResolveFails(p) \/ WriteContactFails(p) PROVE InboundInv'
<1>1. PICK pc \in {"dropped", "notify"} :
         /\ push' = [push EXCEPT ![p].pc = pc, ![p].blind = TRUE]
         /\ \/ push[p].pc = "resolve" /\ pc = "dropped"
            \/ push[p].pc \in {"patch", "post"} /\ pc = "notify"
  <2>1. CASE ResolveFails(p)
    <3>1. push' = [push EXCEPT ![p].pc = "dropped", ![p].blind = TRUE]
          /\ push[p].pc = "resolve"
        BY <2>1 DEF ResolveFails
    <3> QED BY <3>1
  <2>2. CASE WriteContactFails(p)
      BY <2>2 DEF WriteContactFails
  <2> QED BY <2>1, <2>2
<1>2. PICK new : new = [push[p] EXCEPT !.pc = pc, !.blind = TRUE]
    OBVIOUS
<1>3. new \in Handlers /\ new.pc = pc /\ new.room = push[p].room
      /\ new.aired = push[p].aired /\ new.blind = TRUE
    BY <1>2, InboundTyped DEF Handlers, Running
<1>4. push' = [push EXCEPT ![p] = new] /\ push'[p] = new
    BY <1>1, <1>2, InboundTyped
<1>5. UNCHANGED <<roomVars, tableVars>> /\ inboundFaults' \in 0..MaxInboundFaults
    BY InboundFaultsBounded DEF ResolveFails, WriteContactFails
<1>6. Placed(p)' /\ Known(p)'
    BY <1>1, <1>3, <1>4, <1>5 DEF InboundInv, Placed, Known, Running, Routed, Written, roomVars, tableVars
<1> QED BY <1>3, <1>4, <1>5, <1>6, MoveStep

LEMMA InsertStep == ASSUME InboundInv, NEW p \in Pushes, Insert(p) \/ InsertFails(p) PROVE InboundInv'
<1>1. PICK pc \in {"contact", "refused"} :
         To(p, pc) /\ (Store(p) \/ (pc = "refused" /\ UNCHANGED <<messages, written, early>>))
  <2>1. CASE Insert(p)
    <3>1. To(p, "contact") /\ Store(p)
        BY <2>1 DEF Insert
    <3> QED BY <3>1
  <2>2. CASE InsertFails(p)
    <3>1. /\ To(p, "refused")
          /\ Store(p) \/ UNCHANGED <<messages, written, early>>
        BY <2>2 DEF InsertFails
    <3> QED BY <3>1
  <2> QED BY <2>1, <2>2
<1>2. push[p].pc = "insert" /\ UNCHANGED <<roomVars, contacts, alerts>>
      /\ inboundFaults' \in 0..MaxInboundFaults
    BY InboundFaultsBounded DEF Insert, InsertFails
<1>3. PICK new \in Handlers :
         /\ push' = [push EXCEPT ![p] = new] /\ push'[p] = new
         /\ new.pc = pc /\ new.room = push[p].room /\ new.aired = push[p].aired
         /\ new.blind = push[p].blind
    BY <1>1, ToNew DEF Running
<1>4. CASE Store(p)
  <2>1. /\ messages' = messages \cup {p} /\ written' = written \cup {p}
        /\ early' = early \/ early' = early \cup {p}
        /\ p \in early' \/ push[p].room \in stamped
      BY <1>4 DEF Store
  <2>2. Placed(p)' /\ Known(p)'
      BY <1>1, <1>2, <1>3, <2>1 DEF InboundInv, Placed, Known, Running, Routed, Written, roomVars
  <2> QED BY <1>2, <1>3, <2>1, <2>2, HandlerStep, InboundTyped DEF InboundInv, InboundTypeOK
<1>5. CASE pc = "refused" /\ UNCHANGED <<messages, written, early>>
  <2>1. UNCHANGED <<roomVars, tableVars>>
      BY <1>2, <1>5 DEF tableVars
  <2>2. Placed(p)' /\ Known(p)'
      BY <1>2, <1>3, <1>5 DEF InboundInv, Placed, Known, Running, Routed, Written, roomVars
  <2> QED BY <1>2, <1>3, <2>1, <2>2, MoveStep
<1> QED BY <1>1, <1>4, <1>5

LEMMA CheckStep ==
  ASSUME InboundInv, NEW p \in Pushes, CheckContact(p) \/ CheckContactFails(p) PROVE InboundInv'
<1>1. PICK pc \in {"patch", "post"} :
         To(p, pc) /\ (pc = "patch" => Sender[p[1]] \in contacts)
    BY DEF CheckContact, CheckContactFails
<1>2. push[p].pc = "contact" /\ UNCHANGED <<roomVars, tableVars>>
    BY DEF CheckContact, CheckContactFails
<1>3. PICK new \in Handlers :
         /\ push' = [push EXCEPT ![p] = new] /\ push'[p] = new
         /\ new.pc = pc /\ new.room = push[p].room /\ new.aired = push[p].aired
         /\ new.blind = push[p].blind
    BY <1>1, ToNew DEF Running
<1>4. inboundFaults' \in 0..MaxInboundFaults
    BY InboundFaultsBounded DEF CheckContact, CheckContactFails
<1>5. Placed(p)' /\ Known(p)'
    BY <1>1, <1>2, <1>3 DEF InboundInv, Placed, Known, Running, Routed, Written, roomVars, tableVars
<1> QED BY <1>2, <1>3, <1>4, <1>5, MoveStep

LEMMA WriteContactStep == ASSUME InboundInv, NEW p \in Pushes, WriteContact(p) PROVE InboundInv'
<1>1. To(p, "notify") /\ push[p].pc \in {"patch", "post"}
      /\ UNCHANGED <<roomVars, messages, written, early, alerts>>
      /\ inboundFaults' \in 0..MaxInboundFaults
    BY InboundFaultsBounded DEF WriteContact
<1>2. PICK new \in Handlers :
         /\ push' = [push EXCEPT ![p] = new] /\ push'[p] = new
         /\ new.pc = "notify" /\ new.room = push[p].room /\ new.aired = push[p].aired
         /\ new.blind = push[p].blind
    BY <1>1, ToNew DEF Running
<1>3. /\ contacts \subseteq contacts' /\ contacts' \subseteq {Sender[t] : t \in Texts}
      /\ Sender[p[1]] \in contacts'
    BY <1>1, SenderOfText DEF WriteContact, InboundInv, InboundTypeOK, Known
<1>4. Placed(p)' /\ Known(p)'
    BY <1>1, <1>2, <1>3 DEF InboundInv, Placed, Known, Running, Routed, Written, roomVars
<1> QED BY <1>1, <1>2, <1>3, <1>4, HandlerStep, InboundTyped DEF InboundInv, InboundTypeOK

LEMMA NotifyStep == ASSUME InboundInv, NEW p \in Pushes, Notify(p) PROVE InboundInv'
<1>1. To(p, "done") /\ push[p].pc = "notify"
      /\ UNCHANGED <<roomVars, messages, written, early, contacts>>
    BY DEF Notify
<1>2. inboundFaults' \in 0..MaxInboundFaults
    BY InboundFaultsBounded DEF Notify
<1>3. alerts' \subseteq Pushes \X RoomAdmins
    BY DEF Notify, InboundInv, InboundTypeOK
<1>4. PICK new \in Handlers :
         /\ push' = [push EXCEPT ![p] = new] /\ push'[p] = new
         /\ new.pc = "done" /\ new.room = push[p].room /\ new.aired = push[p].aired
         /\ new.blind = push[p].blind
    BY <1>1, ToNew
<1>5. Placed(p)' /\ Known(p)'
    BY <1>1, <1>4 DEF InboundInv, Placed, Known, Running, Routed, Written, roomVars
<1> QED BY <1>1, <1>2, <1>3, <1>4, <1>5, HandlerStep, InboundTyped DEF InboundInv, InboundTypeOK

----------------------------------------------------------------------------
(* Beside them *)

\* What all the handlers keep when the rooms or the manager move.
LEMMA AirStep == ASSUME InboundInv, AirMoves PROVE InboundInv'
<1>1. onAir' \in Rooms \cup {"none"} /\ moves' \in 0..MaxMoves
      /\ UNCHANGED <<route, tableVars, stamped, clear, inboundFaults>>
    BY InboundAssumption DEF AirMoves, InboundInv, InboundTypeOK
<1>2. ASSUME NEW p \in Pushes
      PROVE  push'[p] \in Handlers /\ Placed(p)' /\ Known(p)'
  <2>1. CASE push[p].pc \in Running
    <3>1. PICK new : new = [push[p] EXCEPT !.aired = @ \cup {onAir'}]
        OBVIOUS
    <3>2. push'[p] = new
        BY <2>1, <3>1 DEF AirMoves
    <3>3. /\ new \in Handlers /\ new.pc = push[p].pc /\ new.room = push[p].room
          /\ new.aired = push[p].aired \cup {onAir'} /\ new.blind = push[p].blind
        BY <1>1, <3>1, InboundTyped DEF Handlers
    <3> QED BY <1>1, <3>2, <3>3 DEF InboundInv, Placed, Known, Routed, Written, Running, tableVars
  <2>2. CASE push[p].pc \notin Running
    <3>1. push'[p] = push[p]
        BY <2>2 DEF AirMoves
    <3> QED BY <1>1, <2>2, <3>1, InboundTyped DEF InboundInv, Placed, Known, tableVars
  <2> QED BY <2>1, <2>2
<1>3. push' \in [Pushes -> Handlers]
  <2>1. push' = [p \in Pushes |-> push'[p]]
      BY DEF AirMoves
  <2> QED BY <1>2, <2>1
<1>4. InboundTypeOK'
    BY <1>1, <1>3 DEF InboundInv, InboundTypeOK, Handlers, tableVars
<1> QED BY <1>1, <1>2, <1>4 DEF InboundInv, ClearsUnstamped

LEMMA ManagerStep ==
  ASSUME InboundInv, ReadRoomStamp \/ DeleteChat \/ DeleteChatFails \/ StampRoom PROVE InboundInv'
<1>1. UNCHANGED <<route, onAir, push, written, early, contacts, alerts, moves>>
      /\ inboundFaults' \in 0..MaxInboundFaults
    BY InboundFaultsBounded DEF ReadRoomStamp, DeleteChat, DeleteChatFails, StampRoom, tableVars,
                  InboundInv, InboundTypeOK
<1>2. /\ stamped \subseteq stamped' /\ stamped' \subseteq Rooms
      /\ messages' \subseteq messages
      /\ \A p \in messages : push[p].room \in stamped => p \in messages'
      /\ clear' \in [pc : {"idle", "delete", "stamp"}, room : Rooms \cup {"none"}]
      /\ ClearsUnstamped'
  <2>1. CASE ReadRoomStamp
      BY <2>1 DEF ReadRoomStamp, tableVars, InboundInv, InboundTypeOK, ClearsUnstamped
  <2>2. CASE DeleteChat
      BY <2>2 DEF DeleteChat, InboundInv, InboundTypeOK, ClearsUnstamped
  <2>3. CASE DeleteChatFails
      BY <2>3 DEF DeleteChatFails, tableVars, InboundInv, InboundTypeOK, ClearsUnstamped
  <2>4. CASE StampRoom
    <3>1. clear.pc = "stamp" /\ clear.room \in Rooms
        BY <2>4 DEF StampRoom, InboundInv, ClearsUnstamped
    <3> QED BY <2>4, <3>1 DEF StampRoom, tableVars, InboundInv, InboundTypeOK, ClearsUnstamped, IdleClear
  <2> QED BY <2>1, <2>2, <2>3, <2>4
<1>3. InboundTypeOK'
    BY <1>1, <1>2 DEF InboundInv, InboundTypeOK
<1>4. \A p \in Pushes : Placed(p)' /\ Known(p)'
    BY <1>1, <1>2 DEF InboundInv, Placed, Known
<1> QED BY <1>2, <1>3, <1>4 DEF InboundInv

LEMMA RestartStep == ASSUME InboundInv, InboundRestart PROVE InboundInv'
<1>1. clear' = IdleClear /\ inboundFaults' \in 0..MaxInboundFaults
      /\ UNCHANGED <<route, onAir, tableVars, stamped, moves>>
    BY InboundFaultsBounded DEF InboundRestart
<1>2. ASSUME NEW p \in Pushes
      PROVE  push'[p] \in Handlers /\ Placed(p)' /\ Known(p)'
  <2>1. CASE push[p].pc \in Running
    <3>1. PICK new : new = [push[p] EXCEPT !.pc = "cut"]
        OBVIOUS
    <3>2. push'[p] = new
        BY <2>1, <3>1 DEF InboundRestart
    <3>3. /\ new \in Handlers /\ new.pc = "cut" /\ new.room = push[p].room
          /\ new.aired = push[p].aired
        BY <3>1, InboundTyped DEF Handlers
    <3> QED BY <1>1, <3>2, <3>3 DEF InboundInv, Placed, Known, Routed, Written, Running, tableVars
  <2>2. CASE push[p].pc \notin Running
    <3>1. push'[p] = push[p]
        BY <2>2 DEF InboundRestart
    <3> QED BY <1>1, <2>2, <3>1, InboundTyped DEF InboundInv, Placed, Known, tableVars
  <2> QED BY <2>1, <2>2
<1>3. push' \in [Pushes -> Handlers]
  <2>1. push' = [p \in Pushes |-> push'[p]]
      BY DEF InboundRestart
  <2> QED BY <1>2, <2>1
<1>4. InboundTypeOK'
    BY <1>1, <1>3 DEF InboundInv, InboundTypeOK, Handlers, tableVars, IdleClear
<1> QED BY <1>1, <1>2, <1>4 DEF InboundInv, ClearsUnstamped, IdleClear

----------------------------------------------------------------------------
LEMMA InboundNextInv == InboundInv /\ [InboundNext]_inboundVars => InboundInv'
<1> SUFFICES ASSUME InboundInv, [InboundNext]_inboundVars PROVE InboundInv'
    OBVIOUS
<1>1. CASE UNCHANGED inboundVars
    BY <1>1 DEF inboundVars, InboundInv, InboundTypeOK, Placed, Known, ClearsUnstamped
<1> QED BY <1>1, SendStep, RouteStep, ResolveStep, BlindStep, InsertStep, CheckStep,
        WriteContactStep, NotifyStep, AirStep, ManagerStep, RestartStep DEF InboundNext

\* The handlers, the tables and the manager's clear are well typed in every
\* reachable state.
THEOREM InboundTypes == InboundSpec => []InboundTypeOK
<1>1. InboundInv => InboundTypeOK
    BY DEF InboundInv
<1> QED BY InboundInitInv, InboundNextInv, <1>1, PTL DEF InboundSpec

\* A text answered with success is in its room's chat for the rest of the day
\* unless it came before the room was cleared, for any texts at once, programs
\* changing under them and restarts (inbound_router.go, activateChatRoom).
THEOREM SuccessIsKept == InboundSpec => []SuccessMeansKept
<1>1. InboundInv => SuccessMeansKept
    BY DEF InboundInv, Placed, Written, SuccessMeansKept
<1> QED BY InboundInitInv, InboundNextInv, <1>1, PTL DEF InboundSpec

\* Every message goes to a room that was on air while its push was handled, and only
\* what the lineup gave no room for is dropped, or what came for a station whose id is
\* not the same once escaped: of those none is ever written (resolveActiveRoom).
THEOREM RoutedRight == InboundSpec => []RoutedByTheAir
<1>1. InboundInv => RoutedByTheAir
    BY DEF InboundInv, Placed, Routed, RoutedByTheAir
<1> QED BY InboundInitInv, InboundNextInv, <1>1, PTL DEF InboundSpec

\* The sender of a text answered with success has a contact row, unless writing
\* it failed, however two texts of a new sender overlap (upsertChannelContact).
THEOREM SendersKnown == InboundSpec => []SenderKnown
<1>1. InboundInv => SenderKnown
    BY DEF InboundInv, Known, SenderKnown
<1> QED BY InboundInitInv, InboundNextInv, <1>1, PTL DEF InboundSpec

----------------------------------------------------------------------------
(* Copies *)

\* A push that wrote its message, may still write it, or may be sent at no fault.
May(p) ==
  \/ p \in written \/ push[p].pc \in {"route", "resolve", "insert"}
  \/ push[p].pc = "unsent" /\ (p[2] = 1 \/ push[<<p[1], p[2] - 1>>].pc \in {"refused", "cut"})

Chances(t) == {p \in Pushes : p[1] = t /\ May(p)}

SentInOrder ==
  \A p, q \in Pushes :
    p[1] = q[1] /\ p[2] <= q[2] /\ push[q].pc # "unsent" => push[p].pc # "unsent"

Counted(t) == Cardinality(Chances(t)) <= 1 + inboundFaults

CopiesInv == SentInOrder /\ \A t \in Texts : Counted(t)

Again(p) == <<p[1], p[2] + 1>>
Before(p) == <<p[1], p[2] - 1>>

LEMMA PushParts ==
  ASSUME NEW p \in Pushes
  PROVE  p = <<p[1], p[2]>> /\ p[1] \in Texts /\ p[2] \in 1..MaxSends /\ p[2] \in Nat
  BY InboundAssumption DEF Pushes

LEMMA BeforeAPush ==
  ASSUME NEW p \in Pushes, p[2] # 1
  PROVE  /\ Before(p) \in Pushes /\ Before(p)[1] = p[1] /\ Before(p)[2] = p[2] - 1
         /\ p = Again(Before(p)) /\ Before(p) # p
<1>1. p = <<p[1], p[2]>> /\ p[1] \in Texts /\ p[2] \in 1..MaxSends
    BY PushParts
<1>2. p[2] - 1 \in 1..MaxSends /\ p[2] - 1 # p[2] /\ (p[2] - 1) + 1 = p[2]
    BY <1>1, InboundAssumption
<1>3. Before(p)[1] = p[1] /\ Before(p)[2] = p[2] - 1
    BY DEF Before
<1> QED BY <1>1, <1>2, <1>3 DEF Before, Again, Pushes

LEMMA OneTextsPushesFinite ==
  ASSUME NEW t \in Texts, NEW S, S \subseteq {p \in Pushes : p[1] = t}
  PROVE  IsFiniteSet(S) /\ Cardinality(S) \in Nat
<1>1. 1 \in Int /\ MaxSends \in Int
    BY InboundAssumption
<1>2. IsFiniteSet({t} \X (1..MaxSends))
    BY <1>1, FS_Interval, FS_Singleton, FS_Product
<1>3. S \subseteq {t} \X (1..MaxSends)
  <2>1. ASSUME NEW p \in S PROVE p \in {t} \X (1..MaxSends)
    <3>1. p = <<t, p[2]>> /\ p[2] \in 1..MaxSends
        BY PushParts
    <3> QED BY <3>1
  <2> QED BY <2>1
<1> QED BY <1>2, <1>3, FS_Subset, FS_CardinalityType

LEMMA ChancesFinite ==
  ASSUME NEW t \in Texts
  PROVE  IsFiniteSet(Chances(t)) /\ Cardinality(Chances(t)) \in Nat
<1>1. Chances(t) \subseteq {p \in Pushes : p[1] = t}
    BY DEF Chances
<1> QED BY <1>1, OneTextsPushesFinite

LEMMA NextChancesFinite == ASSUME NEW t \in Texts PROVE IsFiniteSet(Chances(t)')
<1>1. Chances(t)' \subseteq {p \in Pushes : p[1] = t}
    BY DEF Chances
<1> QED BY <1>1, OneTextsPushesFinite

\* A chance more needs a fault, unless another is spent.
LEMMA CountedStep ==
  ASSUME InboundTypeOK, NEW t \in Texts, Counted(t),
         IsFiniteSet(Chances(t)'),
         \/ Chances(t)' \subseteq Chances(t) /\ inboundFaults' \in {inboundFaults, inboundFaults + 1}
         \/ /\ \E x : Chances(t)' \subseteq Chances(t) \cup {x}
            /\ inboundFaults' = inboundFaults + 1
         \/ /\ \E x : \E p \in Chances(t) : Chances(t)' \subseteq (Chances(t) \ {p}) \cup {x}
            /\ inboundFaults' = inboundFaults
  PROVE  Counted(t)'
<1> DEFINE C == Chances(t)
           n == Cardinality(C)
<1>1. IsFiniteSet(C) /\ n \in Nat /\ n <= 1 + inboundFaults /\ inboundFaults \in Nat
    BY ChancesFinite, InboundAssumption DEF Counted, InboundTypeOK
<1>2. Cardinality(C') <= 1 + inboundFaults'
  <2>1. CASE C' \subseteq C /\ inboundFaults' \in {inboundFaults, inboundFaults + 1}
    <3>1. Cardinality(C') <= n /\ Cardinality(C') \in Nat
        BY <1>1, <2>1, FS_Subset, FS_CardinalityType
    <3> QED BY <1>1, <2>1, <3>1
  <2>2. ASSUME NEW x, C' \subseteq C \cup {x}, inboundFaults' = inboundFaults + 1
        PROVE  Cardinality(C') <= 1 + inboundFaults'
    <3>1. IsFiniteSet(C \cup {x})
          /\ Cardinality(C \cup {x}) = IF x \in C THEN n ELSE n + 1
        BY <1>1, FS_AddElement
    <3>2. Cardinality(C') <= Cardinality(C \cup {x}) /\ Cardinality(C') \in Nat
        BY <2>2, <3>1, FS_Subset, FS_CardinalityType
    <3> HIDE DEF C
    <3> QED BY <1>1, <2>2, <3>1, <3>2
  <2>3. ASSUME NEW x, NEW p \in C, C' \subseteq (C \ {p}) \cup {x}, inboundFaults' = inboundFaults
        PROVE  Cardinality(C') <= 1 + inboundFaults'
    <3> DEFINE D == C \ {p}
    <3>1. IsFiniteSet(D) /\ Cardinality(D) = n - 1
        BY <1>1, <2>3, FS_RemoveElement
    <3>2. Cardinality(D) \in Nat
        BY <3>1, FS_CardinalityType
    <3>3. IsFiniteSet(D \cup {x})
          /\ Cardinality(D \cup {x}) = IF x \in D THEN Cardinality(D) ELSE Cardinality(D) + 1
        BY <3>1, FS_AddElement
    <3>4. Cardinality(C') <= Cardinality(D \cup {x}) /\ Cardinality(C') \in Nat
        BY <2>3, <3>3, FS_Subset, FS_CardinalityType
    <3> HIDE DEF D, C
    <3> QED BY <1>1, <2>3, <3>1, <3>2, <3>3, <3>4
  <2> QED BY <2>1, <2>2, <2>3
<1> QED BY <1>2 DEF Counted

\* A handler that runs may write its message, or has.
LEMMA RunningMay ==
  ASSUME InboundInv, NEW p \in Pushes, push[p].pc \in Running PROVE May(p)
  BY DEF InboundInv, Placed, Written, Running, May

LEMMA FaultOrNot ==
  ASSUME InboundInv, NoInboundFault \/ InboundFault
  PROVE  inboundFaults' \in {inboundFaults, inboundFaults + 1}
  BY DEF NoInboundFault, InboundFault

\* A handler's step, by what its push is answered.
LEMMA CopiesMove ==
  ASSUME InboundInv, CopiesInv, NEW p \in Pushes, push[p].pc \in Running,
         NEW new \in Handlers, push' = [push EXCEPT ![p] = new], new.pc # "unsent",
         written' \subseteq written \cup {p},
         inboundFaults' \in {inboundFaults, inboundFaults + 1},
         \/ new.pc \notin {"refused", "cut"}
         \/ inboundFaults' = inboundFaults + 1
         \/ p \notin written' /\ new.pc = "refused"
  PROVE  CopiesInv'
<1>1. push'[p] = new /\ \A q \in Pushes \ {p} : push'[q] = push[q]
    BY InboundTyped
<1>2. SentInOrder'
    BY <1>1 DEF CopiesInv, SentInOrder, Running
<1>3. ASSUME NEW q \in Pushes, q # p, May(q)', ~May(q)
      PROVE  q = Again(p) /\ new.pc \in {"refused", "cut"}
  <2>1. push'[q] = push[q] /\ q \notin written' 
      BY <1>1, <1>3 DEF May
  <2>2. push[q].pc = "unsent" /\ q[2] # 1 /\ push'[Before(q)].pc \in {"refused", "cut"}
        /\ push[Before(q)].pc \notin {"refused", "cut"}
      BY <1>3, <2>1 DEF May, Before
  <2>3. Before(q) \in Pushes /\ q = Again(Before(q))
      BY <2>2, BeforeAPush
  <2>4. Before(q) = p
      BY <1>1, <2>2, <2>3
  <2> QED BY <1>1, <2>2, <2>3, <2>4
<1>4. May(p)
    BY RunningMay
<1>5. ASSUME NEW t \in Texts PROVE Counted(t)'
  <2>1. IsFiniteSet(Chances(t)')
      BY NextChancesFinite
  <2>2. CASE new.pc \notin {"refused", "cut"}
    <3>1. Chances(t)' \subseteq Chances(t)
        BY <1>3, <1>4, <2>2 DEF Chances
    <3> QED BY <2>1, <3>1, CountedStep DEF InboundInv, CopiesInv
  <2>3. CASE inboundFaults' = inboundFaults + 1
    <3>1. Chances(t)' \subseteq Chances(t) \cup {Again(p)}
        BY <1>3, <1>4 DEF Chances
    <3> QED BY <2>1, <2>3, <3>1, CountedStep DEF InboundInv, CopiesInv
  <2>4. CASE p \notin written' /\ new.pc = "refused" /\ inboundFaults' = inboundFaults
    <3>1. ~May(p)'
        BY <1>1, <2>4 DEF May
    <3>2. CASE p[1] = t
      <4>1. p \in Chances(t)
          BY <1>4, <3>2 DEF Chances
      <4>2. Chances(t)' \subseteq (Chances(t) \ {p}) \cup {Again(p)}
          BY <1>3, <3>1 DEF Chances
      <4> QED BY <2>1, <2>4, <4>1, <4>2, CountedStep DEF InboundInv, CopiesInv
    <3>3. CASE p[1] # t
      <4>1. Again(p)[1] = p[1]
          BY DEF Again
      <4>2. Chances(t)' \subseteq Chances(t)
          BY <1>3, <3>3, <4>1 DEF Chances
      <4> QED BY <2>1, <4>2, CountedStep DEF InboundInv, CopiesInv
    <3> QED BY <3>2, <3>3
  <2> QED BY <2>2, <2>3, <2>4
<1> QED BY <1>2, <1>5 DEF CopiesInv

LEMMA CopiesSend ==
  ASSUME InboundInv, CopiesInv, NEW p \in Pushes, Send(p) PROVE CopiesInv'
<1> DEFINE new == Handler("route", "none", {onAir}, FALSE)
<1>1. /\ push[p].pc = "unsent" /\ push'[p] = new /\ new.pc = "route"
      /\ \A q \in Pushes \ {p} : push'[q] = push[q]
      /\ written' = written
    BY InboundTyped DEF Send, tableVars, Handler
<1>2. /\ p[2] # 1 => push[Before(p)].pc # "unsent"
      /\ \/ p[2] = 1 /\ inboundFaults' = inboundFaults
         \/ push[Before(p)].pc \in {"refused", "cut"} /\ inboundFaults' = inboundFaults
         \/ inboundFaults' = inboundFaults + 1
    BY DEF Send, Before, Running, NoInboundFault, InboundFault
<1> HIDE DEF new
<1>3. SentInOrder'
  <2>1. ASSUME NEW q \in Pushes, q[1] = p[1], q[2] <= p[2], q # p PROVE push[q].pc # "unsent"
    <3>1. q = <<q[1], q[2]>> /\ p = <<p[1], p[2]>> /\ q[2] \in 1..MaxSends /\ p[2] \in 1..MaxSends
        BY PushParts
    <3>2. q[2] <= p[2] - 1 /\ p[2] # 1
        BY <2>1, <3>1, InboundAssumption
    <3> QED BY <1>2, <2>1, <3>2, BeforeAPush DEF CopiesInv, SentInOrder
  <2> QED BY <1>1, <2>1 DEF CopiesInv, SentInOrder
<1>4. ASSUME NEW q \in Pushes, q # p, May(q)' PROVE May(q)
  <2>1. CASE q[2] # 1
      BY <1>1, <1>4, <2>1, BeforeAPush DEF May, Before
  <2>2. CASE q[2] = 1
      BY <1>1, <1>4, <2>2 DEF May
  <2> QED BY <2>1, <2>2
<1>5. ASSUME NEW t \in Texts PROVE Counted(t)'
  <2>1. IsFiniteSet(Chances(t)')
      BY NextChancesFinite
  <2>2. CASE inboundFaults' = inboundFaults + 1
    <3>1. Chances(t)' \subseteq Chances(t) \cup {p}
        BY <1>4 DEF Chances
    <3> QED BY <2>1, <2>2, <3>1, CountedStep DEF InboundInv, CopiesInv
  <2>3. CASE inboundFaults' = inboundFaults /\ (p[2] = 1 \/ push[Before(p)].pc \in {"refused", "cut"})
    <3>1. May(p)
        BY <1>1, <2>3 DEF May, Before
    <3>2. Chances(t)' \subseteq Chances(t)
        BY <1>4, <3>1 DEF Chances
    <3> QED BY <2>1, <2>3, <3>2, CountedStep DEF InboundInv, CopiesInv
  <2> QED BY <1>2, <2>2, <2>3
<1> QED BY <1>3, <1>5 DEF CopiesInv

\* A restart cuts every handler, and gives one more chance to the push that
\* comes after the last one sent.
LEMMA CopiesRestart ==
  ASSUME InboundInv, CopiesInv, InboundRestart PROVE CopiesInv'
<1>1. /\ written' = written /\ inboundFaults' = inboundFaults + 1
      /\ \A q \in Pushes : push'[q].pc = push[q].pc
                           \/ (push[q].pc \in Running /\ push'[q].pc = "cut")
    BY InboundTyped DEF InboundRestart, InboundFault, tableVars, Handlers
<1>2. \A q \in Pushes : push'[q].pc = "unsent" <=> push[q].pc = "unsent"
    BY <1>1 DEF Running
<1>3. SentInOrder'
    BY <1>2 DEF CopiesInv, SentInOrder
<1>4. ASSUME NEW q \in Pushes, May(q)', ~May(q)
      PROVE  q[2] # 1 /\ push[q].pc = "unsent" /\ push[Before(q)].pc # "unsent"
  <2>1. push'[q].pc \notin {"route", "resolve", "insert"}
      BY <1>1, <1>4 DEF May, Running
  <2>2. push'[q].pc = "unsent" /\ q[2] # 1 /\ push'[Before(q)].pc \in {"refused", "cut"}
      BY <1>1, <1>2, <1>4, <2>1 DEF May, Before
  <2> QED BY <1>2, <2>2, BeforeAPush
<1>5. ASSUME NEW q \in Pushes, NEW r \in Pushes, q[1] = r[1],
             May(q)', ~May(q), May(r)', ~May(r)
      PROVE  q = r
  <2>1. /\ q = <<q[1], q[2]>> /\ q[2] \in Nat /\ r = <<r[1], r[2]>> /\ r[2] \in Nat
      BY PushParts
  <2>2. \A a, b \in Pushes : a[1] = b[1] /\ a[2] <= b[2] /\ push[b].pc # "unsent"
                             => push[a].pc # "unsent"
      BY DEF CopiesInv, SentInOrder
  <2>3. /\ Before(q) \in Pushes /\ Before(q)[1] = q[1] /\ Before(q)[2] = q[2] - 1
        /\ Before(r) \in Pushes /\ Before(r)[1] = r[1] /\ Before(r)[2] = r[2] - 1
      BY <1>4, <1>5, BeforeAPush
  <2>4. ~(r[2] <= q[2] - 1) /\ ~(q[2] <= r[2] - 1)
      BY <1>4, <1>5, <2>2, <2>3
  <2>5. q[2] = r[2]
      BY <2>1, <2>4
  <2> QED BY <1>5, <2>1, <2>5
<1>6. ASSUME NEW t \in Texts PROVE Counted(t)'
  <2>1. IsFiniteSet(Chances(t)')
      BY NextChancesFinite
  <2>2. \E x : Chances(t)' \subseteq Chances(t) \cup {x}
    <3>1. CASE \E q \in Pushes : q[1] = t /\ May(q)' /\ ~May(q)
      <4>1. PICK q \in Pushes : q[1] = t /\ May(q)' /\ ~May(q)
          BY <3>1
      <4>2. Chances(t)' \subseteq Chances(t) \cup {q}
          BY <1>5, <4>1 DEF Chances
      <4> QED BY <4>2
    <3>2. CASE ~ \E q \in Pushes : q[1] = t /\ May(q)' /\ ~May(q)
      <4>1. Chances(t)' \subseteq Chances(t) \cup {t}
          BY <3>2 DEF Chances
      <4> QED BY <4>1
    <3> QED BY <3>1, <3>2
  <2> QED BY <1>1, <2>1, <2>2, CountedStep DEF InboundInv, CopiesInv
<1> QED BY <1>3, <1>6 DEF CopiesInv

LEMMA CopiesHandler ==
  ASSUME InboundInv, CopiesInv, NEW p \in Pushes,
         \/ ReadRoute(p) \/ ReadRouteFails(p) \/ Resolve(p) \/ ResolveFails(p)
         \/ Insert(p) \/ InsertFails(p) \/ CheckContact(p) \/ CheckContactFails(p)
         \/ WriteContact(p) \/ WriteContactFails(p) \/ Notify(p)
  PROVE  CopiesInv'
<1>1. push[p].pc \in Running /\ push[p] \in Handlers
  <2>1. push[p].pc \in {"route", "resolve", "insert", "contact", "patch", "post", "notify"}
      BY DEF ReadRoute, ReadRouteFails, Resolve, ResolveFails, Insert, InsertFails,
             CheckContact, CheckContactFails, WriteContact, WriteContactFails, Notify
  <2> QED BY <2>1, InboundTyped DEF Running
<1>2. written' \subseteq written \cup {p}
    BY DEF ReadRoute, ReadRouteFails, Resolve, ResolveFails, Insert, InsertFails, Store,
           CheckContact, CheckContactFails, WriteContact, WriteContactFails, Notify, tableVars
<1>3. inboundFaults' \in {inboundFaults, inboundFaults + 1}
    BY FaultOrNot
       DEF ReadRoute, ReadRouteFails, Resolve, ResolveFails, Insert, InsertFails,
           CheckContact, CheckContactFails, WriteContact, WriteContactFails, Notify
<1>4. ASSUME NEW pc \in Running \cup {"refused", "cut", "dropped", "done"}, To(p, pc),
             \/ pc \notin {"refused", "cut"}
             \/ inboundFaults' = inboundFaults + 1
             \/ p \notin written' /\ pc = "refused"
      PROVE  CopiesInv'
  <2>1. PICK new \in Handlers :
           /\ push' = [push EXCEPT ![p] = new] /\ push'[p] = new
           /\ new.pc = pc /\ new.room = push[p].room /\ new.aired = push[p].aired
           /\ new.blind = push[p].blind
      BY <1>4, ToNew
  <2>2. new.pc # "unsent"
      BY <2>1 DEF Running
  <2> QED BY <1>1, <1>2, <1>3, <1>4, <2>1, <2>2, CopiesMove
<1>5. ASSUME NEW new, new \in Handlers, push' = [push EXCEPT ![p] = new],
             new.pc \in {"dropped", "insert", "notify"}
      PROVE  CopiesInv'
    BY <1>1, <1>2, <1>3, <1>5, CopiesMove
<1>6. CASE ReadRoute(p)
  <2>1. CASE route # "none"
      BY <1>4, <1>6, <2>1 DEF ReadRoute, Running
  <2>2. CASE route = "none"
    <3>1. p \notin written'
        BY <1>6 DEF ReadRoute, tableVars, InboundInv, Placed
    <3> QED BY <1>4, <1>6, <2>2, <3>1 DEF ReadRoute
  <2> QED BY <2>1, <2>2
<1>7. CASE ReadRouteFails(p)
    BY <1>4, <1>7 DEF ReadRouteFails, InboundFault
<1>8. CASE Resolve(p)
  <2> DEFINE found == IF route = "escaped" THEN "none" ELSE onAir
             pc == IF found = "none" THEN "dropped" ELSE "insert"
  <2>1. PICK new : new = [push[p] EXCEPT !.room = found, !.pc = pc]
      OBVIOUS
  <2>2. pc \in {"dropped", "insert"} /\ pc \in Running \cup {"dropped"}
        /\ found \in Rooms \cup {"none"}
      BY InboundTyped DEF Running
  <2>3. push' = [push EXCEPT ![p] = new]
      BY <1>8, <2>1, InboundTyped DEF Resolve
  <2> HIDE DEF pc, found
  <2>4. new \in Handlers /\ new.pc = pc
      BY <1>1, <2>1, <2>2, InboundTyped DEF Handlers
  <2> QED BY <1>5, <2>2, <2>3, <2>4
<1>9. CASE ResolveFails(p)
  <2>1. PICK new : new = [push[p] EXCEPT !.pc = "dropped", !.blind = TRUE]
      OBVIOUS
  <2>2. push' = [push EXCEPT ![p] = new] /\ new \in Handlers /\ new.pc = "dropped"
      BY <1>1, <1>9, <2>1, InboundTyped DEF ResolveFails, Handlers
  <2> QED BY <1>5, <2>2
<1>10. CASE Insert(p)
    BY <1>4, <1>10 DEF Insert, Running
<1>11. CASE InsertFails(p)
    BY <1>4, <1>11 DEF InsertFails, InboundFault
<1>12. CASE CheckContact(p) \/ CheckContactFails(p)
  <2>1. PICK pc \in {"patch", "post"} : To(p, pc)
      BY <1>12 DEF CheckContact, CheckContactFails
  <2> QED BY <1>4, <2>1 DEF Running
<1>13. CASE WriteContact(p)
    BY <1>4, <1>13 DEF WriteContact, Running
<1>14. CASE WriteContactFails(p)
  <2>1. PICK new : new = [push[p] EXCEPT !.pc = "notify", !.blind = TRUE]
      OBVIOUS
  <2>2. push' = [push EXCEPT ![p] = new] /\ new \in Handlers /\ new.pc = "notify"
      BY <1>1, <1>14, <2>1, InboundTyped DEF WriteContactFails, Handlers, Running
  <2> QED BY <1>5, <2>2
<1>15. CASE Notify(p)
    BY <1>4, <1>15 DEF Notify
<1> QED BY <1>6, <1>7, <1>8, <1>9, <1>10, <1>11, <1>12, <1>13, <1>14, <1>15

\* The program on air and the manager send and write nothing.
LEMMA CopiesBeside ==
  ASSUME InboundInv, CopiesInv,
         \/ AirMoves \/ ReadRoomStamp \/ DeleteChat \/ DeleteChatFails \/ StampRoom
         \/ UNCHANGED inboundVars
  PROVE  CopiesInv'
<1>1. written' = written /\ inboundFaults' \in {inboundFaults, inboundFaults + 1}
    BY FaultOrNot DEF AirMoves, ReadRoomStamp, DeleteChat, DeleteChatFails, StampRoom, tableVars,
           inboundVars
<1>2. \A q \in Pushes : push'[q].pc = push[q].pc
  <2>1. CASE AirMoves
    <3>1. ASSUME NEW q \in Pushes PROVE push'[q].pc = push[q].pc
      <4>1. push'[q] = push[q] \/ push'[q] = [push[q] EXCEPT !.aired = @ \cup {onAir'}]
          BY <2>1 DEF AirMoves
      <4> QED BY <4>1, InboundTyped DEF Handlers
    <3> QED BY <3>1
  <2>2. CASE ~AirMoves
      BY <2>2 DEF ReadRoomStamp, DeleteChat, DeleteChatFails, StampRoom, inboundVars
  <2> QED BY <2>1, <2>2
<1>3. SentInOrder'
    BY <1>2 DEF CopiesInv, SentInOrder
<1>4. ASSUME NEW q \in Pushes, May(q)' PROVE May(q)
  <2>1. CASE q[2] = 1
      BY <1>1, <1>2, <1>4, <2>1 DEF May
  <2>2. CASE q[2] # 1
      BY <1>1, <1>2, <1>4, <2>2, BeforeAPush DEF May, Before
  <2> QED BY <2>1, <2>2
<1>5. ASSUME NEW t \in Texts PROVE Counted(t)'
  <2>1. Chances(t)' \subseteq Chances(t)
      BY <1>4 DEF Chances
  <2> QED BY <1>1, <2>1, NextChancesFinite, CountedStep DEF InboundInv, CopiesInv
<1> QED BY <1>3, <1>5 DEF CopiesInv

LEMMA CopiesInit == InboundInit => CopiesInv
<1> SUFFICES ASSUME InboundInit PROVE CopiesInv
    OBVIOUS
<1>1. written = {} /\ inboundFaults = 0 /\ \A p \in Pushes : push[p].pc = "unsent"
    BY DEF InboundInit, Handler
<1>2. ASSUME NEW t \in Texts PROVE Counted(t)
  <2>1. ASSUME NEW p \in Chances(t) PROVE p = <<t, 1>>
    <3>1. p \in Pushes /\ p[1] = t /\ p[2] = 1
        BY <1>1, BeforeAPush DEF Chances, May, Before
    <3> QED BY <3>1, PushParts
  <2>2. Chances(t) \subseteq {<<t, 1>>}
      BY <2>1
  <2>3. Cardinality(Chances(t)) <= Cardinality({<<t, 1>>}) /\ Cardinality({<<t, 1>>}) = 1
      BY <2>2, FS_Singleton, FS_Subset
  <2> QED BY <1>1, <2>3, ChancesFinite DEF Counted
<1> QED BY <1>1, <1>2 DEF CopiesInv, SentInOrder

LEMMA CopiesNext == InboundInv /\ CopiesInv /\ [InboundNext]_inboundVars => CopiesInv'
  BY CopiesSend, CopiesHandler, CopiesBeside, CopiesRestart DEF InboundNext

\* A text is in the chat once, and once more for each request that failed and
\* each answer that was lost, late or cut, whatever texts overlap (the random
\* message ids of insertInboundMessage).
THEOREM CopiesAreResends == InboundSpec => []CopiesNeedResends
<1>1. InboundInv /\ CopiesInv => CopiesNeedResends
  <2> SUFFICES ASSUME InboundInv, CopiesInv, NEW t \in Texts
               PROVE  Cardinality({p \in written : p[1] = t}) <= 1 + inboundFaults
      BY DEF CopiesNeedResends
  <2>1. {p \in written : p[1] = t} \subseteq Chances(t)
      BY InboundTyped DEF Chances, May
  <2>2. /\ Cardinality({p \in written : p[1] = t}) <= Cardinality(Chances(t))
        /\ Cardinality({p \in written : p[1] = t}) \in Nat
      BY <2>1, ChancesFinite, FS_Subset, FS_CardinalityType
  <2> QED BY <2>2, ChancesFinite, InboundAssumption DEF CopiesInv, Counted, InboundInv, InboundTypeOK
<1> QED BY InboundInitInv, InboundNextInv, CopiesInit, CopiesNext, <1>1, PTL DEF InboundSpec

----------------------------------------------------------------------------
(* Chat messages *)

CallSteps ==
  {"new", "check", "join", "readers", "mentions", "flagged", "roled", "push", "done"}
ReadFields == {"readers", "mentioned", "admins"}
CallRecs == [pc : CallSteps, post : Posts \cup {NoPost}, read : [ReadFields -> SUBSET Users],
             missed : BOOLEAN]
Told == {<<>>} \cup {<<t>> : t \in Types}

ChatTypes ==
  /\ participants \in [Users -> Nat]
  /\ call \in [Calls -> CallRecs]
  /\ pushed \in [Calls -> [Users -> Told]]
  /\ tangled \subseteq Users
  /\ chatFaults \in 0..MaxChatFaults

Joining(c) == call[c].pc \in {"check", "join"}
Passed(u) == {c \in Calls : By(c) = u /\ call[c].pc \notin {"new", "check", "join"}}

\* Who is a participant how often, and who is about to be inserted.
Joins(u) ==
  /\ participants[u] <= 1 + Cardinality(Passed(u))
  /\ u \notin tangled =>
       /\ participants[u] <= 1
       /\ \A c \in Calls : call[c].pc = "join" /\ By(c) = u =>
            /\ participants[u] = 0
            /\ \A d \in Calls : call[d].pc = "join" /\ By(d) = u => c = d

\* The reads of call c are behind it.
HasRead(c, steps) == call[c].pc \in steps \/ (call[c].pc = "done" /\ ~call[c].post.quiet)

\* What call c has read of user u, and told them.
Tells(c, u) ==
  /\ u \in Recipients(c) => pushed[c][u] = <<>> /\ u # By(c) /\ call[c].pc # "new"
  /\ call[c].pc \notin {"push", "done"} => pushed[c][u] = <<>>
  /\ pushed[c][u] # <<>> => u # By(c) /\ (call[c].missed \/ pushed[c][u] = <<Due(c, u)>>)
  /\ u \in call[c].read.mentioned => u \in call[c].post.mentions
  /\ u \in call[c].read.admins => u \in Flagged \cup Roled
  /\ (u # By(c) /\ pushed[c][u] = <<>> /\ ~call[c].missed) =>
       /\ u \in call[c].post.mentions /\ HasRead(c, {"flagged", "roled", "push"})
            => u \in call[c].read.mentioned
       /\ u \in Flagged /\ HasRead(c, {"roled", "push"}) => u \in call[c].read.admins
       /\ u \in Roled /\ HasRead(c, {"push"}) => u \in call[c].read.admins
  /\ call[c].pc = "done" /\ ~call[c].post.quiet => u \notin Recipients(c)

ChatInv ==
  /\ ChatTypes
  /\ \A c \in Calls : Joining(c) => By(c) \in Users
  /\ \A u \in Users : Joins(u)
  /\ \A c \in Calls, u \in Users : Tells(c, u)

LEMMA ChatAssumed ==
  /\ MaxChatFaults \in Nat /\ IsFiniteSet(Calls)
  /\ Flagged \subseteq Users /\ Roled \subseteq Users
  /\ Posts \subseteq [by : Users \cup {"nobody"}, mentions : SUBSET Users, quiet : BOOLEAN]
  BY ChatAssumption

LEMMA ChatInitInv == ChatInit => ChatInv
<1> SUFFICES ASSUME ChatInit PROVE ChatInv
    OBVIOUS
<1> DEFINE first == [pc |-> "new", post |-> NoPost, read |-> Unread, missed |-> FALSE]
<1>1. first \in CallRecs /\ \A c \in Calls : call[c] = first
  <2>1. Unread \in [ReadFields -> SUBSET Users]
      BY DEF Unread, ReadFields
  <2> QED BY <2>1 DEF CallRecs, CallSteps, ChatInit
<1>2. \A c \in Calls : call[c].pc = "new" /\ Recipients(c) = {}
      /\ call[c].read.mentioned = {} /\ call[c].read.admins = {}
    BY <1>1 DEF Recipients, Unread
<1>3. \A c \in Calls, u \in Users : pushed[c][u] = <<>>
    BY DEF ChatInit
<1>4. ChatTypes
  <2>1. call \in [Calls -> CallRecs]
      BY <1>1 DEF ChatInit
  <2>2. pushed \in [Calls -> [Users -> Told]]
      BY DEF ChatInit, Told
  <2>3. 0 \in 0..MaxChatFaults
      BY ChatAssumed
  <2>4. participants \in [Users -> Nat] /\ tangled \subseteq Users
      BY DEF ChatInit
  <2> QED BY <2>1, <2>2, <2>3, <2>4 DEF ChatInit, ChatTypes
<1>5. \A u \in Users : Joins(u)
  <2> TAKE u \in Users
  <2>1. IsFiniteSet(Passed(u))
      BY ChatAssumed, FS_Subset DEF Passed
  <2>2. Cardinality(Passed(u)) \in Nat
      BY <2>1, FS_CardinalityType
  <2> QED BY <1>2, <2>2 DEF Joins, ChatInit
<1>6. \A c \in Calls, u \in Users : Tells(c, u)
    BY <1>2, <1>3 DEF Tells, HasRead
<1> QED BY <1>2, <1>4, <1>5, <1>6 DEF ChatInv, Joining

\* One call moves: the others are as they were.
LEMMA OneCall ==
  ASSUME ChatInv, NEW c \in Calls, NEW new \in CallRecs, call' = [call EXCEPT ![c] = new],
         NEW said \in [Users -> Told], pushed' = [pushed EXCEPT ![c] = said],
         participants' \in [Users -> Nat], tangled' \subseteq Users,
         chatFaults' \in 0..MaxChatFaults,
         Joining(c)' => By(c)' \in Users,
         \A u \in Users : Joins(u)',
         \A u \in Users : Tells(c, u)'
  PROVE  ChatInv'
<1>1. \A d \in Calls \ {c} : call'[d] = call[d] /\ pushed'[d] = pushed[d]
    BY DEF ChatInv, ChatTypes
<1>2. ChatTypes'
    BY DEF ChatInv, ChatTypes
<1>3. ASSUME NEW d \in Calls \ {c}, NEW u \in Users PROVE Tells(d, u)'
    BY <1>1 DEF ChatInv, Tells, HasRead, Recipients, By, Due
<1>4. ASSUME NEW d \in Calls, Joining(d)' PROVE By(d)' \in Users
    BY <1>1, <1>4 DEF ChatInv, Joining, By
<1> QED BY <1>2, <1>3, <1>4 DEF ChatInv

\* A call that joins nobody by its step.
LEMMA JoinsKept ==
  ASSUME ChatInv, NEW c \in Calls, NEW new \in CallRecs, call' = [call EXCEPT ![c] = new],
         UNCHANGED <<participants, tangled>>,
         new.pc # "join",
         new.post = call[c].post \/ call[c].pc = "new",
         call[c].pc \notin {"new", "check", "join"} => new.pc \notin {"new", "check", "join"}
  PROVE  \A u \in Users : Joins(u)'
<1> TAKE u \in Users
<1>1. call'[c] = new /\ \A d \in Calls \ {c} : call'[d] = call[d]
    BY DEF ChatInv, ChatTypes
<1>2. Passed(u) \subseteq Passed(u)'
    BY <1>1 DEF Passed, By
<1>3. Cardinality(Passed(u)) <= Cardinality(Passed(u)')
      /\ Cardinality(Passed(u)) \in Nat /\ Cardinality(Passed(u)') \in Nat
  <2>1. IsFiniteSet(Passed(u)) /\ IsFiniteSet(Passed(u)')
      BY ChatAssumed, FS_Subset DEF Passed
  <2> QED BY <1>2, <2>1, FS_Subset, FS_CardinalityType
<1>4. participants[u] \in Nat /\ Joins(u)
    BY DEF ChatInv, ChatTypes
<1> QED BY <1>1, <1>3, <1>4 DEF Joins, By

LEMMA ChatFaultBound ==
  ASSUME ChatInv, ChatFault \/ NoChatFault
  PROVE  chatFaults' \in 0..MaxChatFaults
  BY ChatAssumed DEF ChatInv, ChatTypes, ChatFault, NoChatFault

LEMMA CallTypes ==
  ASSUME ChatInv, NEW c \in Calls
  PROVE  /\ call[c] \in CallRecs /\ pushed[c] \in [Users -> Told]
         /\ pushed = [pushed EXCEPT ![c] = pushed[c]]
  BY DEF ChatInv, ChatTypes

LEMMA ProcessStep ==
  ASSUME ChatInv, NEW c \in Calls, NEW post \in Posts, Process(c, post) PROVE ChatInv'
<1> DEFINE pc == IF post.by # "nobody" THEN "check" ELSE IF post.quiet THEN "done" ELSE "readers"
<1>1. PICK new : new = [call[c] EXCEPT !.post = post, !.pc = pc]
    OBVIOUS
<1>2. /\ call[c].pc = "new" /\ call' = [call EXCEPT ![c] = new]
      /\ UNCHANGED <<participants, pushed, tangled, chatFaults>>
    BY <1>1, CallTypes DEF Process, NoChatFault
<1>3. pc \in {"check", "done", "readers"} /\ (pc = "check" => post.by \in Users)
      /\ (pc = "done" => post.quiet)
    BY ChatAssumed
<1> HIDE DEF pc
<1>4. new \in CallRecs /\ new.pc = pc /\ new.post = post /\ new.read = call[c].read
      /\ new.missed = call[c].missed
    BY <1>1, <1>3, CallTypes DEF CallRecs, CallSteps
<1>5. call'[c] = new
    BY <1>2 DEF ChatInv, ChatTypes
<1>6. \A u \in Users : Joins(u)'
    BY <1>2, <1>3, <1>4, JoinsKept
<1>7. ASSUME NEW u \in Users PROVE Tells(c, u)'
  <2>1. u \notin Recipients(c) /\ Recipients(c)' = Recipients(c) /\ pushed'[c][u] = <<>>
      BY <1>2, <1>4, <1>5 DEF ChatInv, Tells, Recipients
  <2>2. u \notin call'[c].read.mentioned /\ u \notin call'[c].read.admins
      BY <2>1, <1>4, <1>5 DEF Recipients
  <2> QED BY <1>3, <1>4, <1>5, <2>1, <2>2 DEF Tells, HasRead
<1>8. Joining(c)' => By(c)' \in Users
    BY <1>3, <1>4, <1>5 DEF Joining, By
<1> QED BY <1>2, <1>4, <1>6, <1>7, <1>8, CallTypes, OneCall DEF ChatInv, ChatTypes

\* A step that only moves the call on, to a place where nothing is asked of it.
LEMMA MoveOn ==
  ASSUME ChatInv, NEW c \in Calls, Joining(c), NEW pc \in {"join", "readers", "done"},
         pc = "done" => call[c].post.quiet,
         call' = [call EXCEPT ![c].pc = pc], UNCHANGED pushed,
         participants' \in [Users -> Nat], tangled' \subseteq Users,
         chatFaults' \in 0..MaxChatFaults, \A u \in Users : Joins(u)'
  PROVE  ChatInv'
<1>1. PICK new : new = [call[c] EXCEPT !.pc = pc]
    OBVIOUS
<1>2. /\ new \in CallRecs /\ new.pc = pc /\ new.post = call[c].post /\ new.read = call[c].read
      /\ new.missed = call[c].missed
    BY <1>1, CallTypes DEF CallRecs, CallSteps
<1>3. call' = [call EXCEPT ![c] = new] /\ call'[c] = new
    BY <1>1 DEF ChatInv, ChatTypes
<1>4. ASSUME NEW u \in Users PROVE Tells(c, u)'
  <2>1. Tells(c, u) /\ Recipients(c)' = Recipients(c) /\ By(c)' = By(c)
      BY <1>2, <1>3 DEF ChatInv, Recipients, By
  <2>2. pushed'[c][u] = <<>> /\ call[c].pc \in {"check", "join"}
      BY <2>1 DEF Tells, Joining
  <2> QED BY <1>2, <1>3, <2>1, <2>2 DEF Tells, HasRead, ChatInv
<1>5. Joining(c)' => By(c)' \in Users
    BY <1>2, <1>3 DEF ChatInv, Joining, By
<1> QED BY <1>2, <1>3, <1>4, <1>5, CallTypes, OneCall

LEMMA CheckJoinStep ==
  ASSUME ChatInv, NEW c \in Calls, CheckJoin(c) \/ CheckJoinFails(c) PROVE ChatInv'
<1>1. PICK pc \in {"join", AfterJoin(c)} : call' = [call EXCEPT ![c].pc = pc]
    BY DEF CheckJoin, CheckJoinFails
<1>2. /\ call[c].pc = "check" /\ UNCHANGED <<participants, pushed>> /\ By(c) \in Users
      /\ chatFaults' \in 0..MaxChatFaults
      /\ tangled' = tangled \/ tangled' = tangled \cup {By(c)}
      /\ pc = "join" /\ By(c) \notin tangled' => participants[By(c)] = 0 /\ ~Overlapped(c)
  <2>1. CASE CheckJoin(c)
    <3>1. call'[c].pc = pc
        BY <1>1, CallTypes DEF ChatInv, ChatTypes, CallRecs
    <3>2. call'[c].pc = IF participants[By(c)] > 0 THEN AfterJoin(c) ELSE "join"
        BY <2>1, CallTypes DEF CheckJoin, ChatInv, ChatTypes, CallRecs
    <3>3. pc = "join" => ~(participants[By(c)] > 0)
        BY <3>1, <3>2 DEF AfterJoin
    <3>4. By(c) \in Users /\ participants[By(c)] \in Nat
        BY <2>1 DEF CheckJoin, ChatInv, ChatTypes, Joining
    <3> QED BY <2>1, <3>3, <3>4, ChatFaultBound DEF CheckJoin
  <2>2. CASE CheckJoinFails(c)
      BY <2>2, ChatFaultBound DEF CheckJoinFails, ChatInv, Joining
  <2> QED BY <2>1, <2>2
<1>3. pc \in {"join", "readers", "done"} /\ (pc = "done" => call[c].post.quiet)
    BY <1>1 DEF AfterJoin
<1>4. /\ call'[c].pc = pc /\ call'[c].post = call[c].post
      /\ \A d \in Calls \ {c} : call'[d] = call[d]
    BY <1>1, CallTypes DEF ChatInv, ChatTypes, CallRecs
<1>5. ASSUME NEW u \in Users PROVE Joins(u)'
  <2>1. participants[u] <= 1 + Cardinality(Passed(u)')
    <3>1. Passed(u) \subseteq Passed(u)'
        BY <1>2, <1>4 DEF Passed, By
    <3>2. IsFiniteSet(Passed(u)) /\ IsFiniteSet(Passed(u)')
        BY ChatAssumed, FS_Subset DEF Passed
    <3>3. Cardinality(Passed(u)) <= Cardinality(Passed(u)')
          /\ Cardinality(Passed(u)) \in Nat /\ Cardinality(Passed(u)') \in Nat
        BY <3>1, <3>2, FS_Subset, FS_CardinalityType
    <3>4. participants[u] \in Nat /\ participants[u] <= 1 + Cardinality(Passed(u))
        BY DEF ChatInv, ChatTypes, Joins
    <3> QED BY <3>3, <3>4
  <2>2. ASSUME u \notin tangled', NEW d \in Calls, call'[d].pc = "join", By(d)' = u
        PROVE  /\ participants[u] = 0
               /\ \A e \in Calls : call'[e].pc = "join" /\ By(e)' = u => d = e
    <3>1. \A e \in Calls \ {c} : call'[e].pc = "join" /\ By(e)' = u
                                  => call[e].pc = "join" /\ By(e) = u
        BY <1>4 DEF By
    <3>2. u \notin tangled
        BY <1>2, <2>2
    <3>3. CASE call'[c].pc = "join" /\ By(c)' = u
      <4>1. By(c) = u /\ pc = "join" /\ ~Overlapped(c) /\ participants[u] = 0
          BY <1>2, <1>4, <2>2, <3>3 DEF By
      <4>2. \A e \in Calls \ {c} : ~(call[e].pc = "join" /\ By(e) = u)
          BY <4>1 DEF Overlapped
      <4> QED BY <2>2, <3>1, <4>1, <4>2
    <3>4. CASE ~(call'[c].pc = "join" /\ By(c)' = u)
        BY <2>2, <3>1, <3>2, <3>4 DEF ChatInv, Joins
    <3> QED BY <3>3, <3>4
  <2>3. u \notin tangled' => participants[u] <= 1
      BY <1>2 DEF ChatInv, Joins
  <2> QED BY <1>2, <2>1, <2>2, <2>3 DEF Joins
<1>6. participants' \in [Users -> Nat] /\ tangled' \subseteq Users
    BY <1>2 DEF ChatInv, ChatTypes
<1> QED BY <1>1, <1>2, <1>3, <1>5, <1>6, MoveOn DEF Joining

LEMMA JoinStep == ASSUME ChatInv, NEW c \in Calls, Join(c) PROVE ChatInv'
<1>1. /\ call[c].pc = "join" /\ participants' = [participants EXCEPT ![By(c)] = @ + 1]
      /\ call' = [call EXCEPT ![c].pc = AfterJoin(c)] /\ UNCHANGED <<pushed, tangled>>
      /\ chatFaults' \in 0..MaxChatFaults /\ By(c) \in Users
    BY ChatFaultBound DEF Join, ChatInv, Joining
<1>2. AfterJoin(c) \in {"readers", "done"} /\ (AfterJoin(c) = "done" => call[c].post.quiet)
    BY DEF AfterJoin
<1>3. /\ call'[c].pc \in {"readers", "done"} /\ call'[c].post = call[c].post
      /\ \A d \in Calls \ {c} : call'[d] = call[d]
    BY <1>1, <1>2, CallTypes DEF ChatInv, ChatTypes, CallRecs
<1>4. /\ participants' \in [Users -> Nat]
      /\ participants'[By(c)] = participants[By(c)] + 1
      /\ \A u \in Users \ {By(c)} : participants'[u] = participants[u]
      /\ \A u \in Users : participants[u] \in Nat
    BY <1>1 DEF ChatInv, ChatTypes
<1>5. ASSUME NEW u \in Users PROVE Joins(u)'
  <2>1. /\ IsFiniteSet(Passed(u)) /\ Cardinality(Passed(u)) \in Nat
        /\ participants[u] <= 1 + Cardinality(Passed(u))
      BY ChatAssumed, FS_Subset, FS_CardinalityType DEF Passed, ChatInv, Joins
  <2>2. ASSUME NEW d \in Calls, call'[d].pc = "join"
        PROVE  d # c /\ call[d].pc = "join" /\ By(d)' = By(d)
      BY <1>3, <2>2 DEF By
  <2>3. CASE u = By(c)
    <3>1. Passed(u)' = Passed(u) \cup {c} /\ c \notin Passed(u)
        BY <1>1, <1>3, <2>3 DEF Passed, By
    <3>2. Cardinality(Passed(u)') = Cardinality(Passed(u)) + 1
        BY <2>1, <3>1, FS_AddElement
    <3>3. participants'[u] <= 1 + Cardinality(Passed(u)')
        BY <1>4, <2>1, <2>3, <3>2
    <3>4. ASSUME u \notin tangled'
          PROVE  /\ participants'[u] <= 1
                 /\ \A d \in Calls : call'[d].pc = "join" => By(d)' # u
      <4>1. participants[u] = 0 /\ \A d \in Calls : call[d].pc = "join" /\ By(d) = u => c = d
          BY <1>1, <2>3, <3>4 DEF ChatInv, Joins
      <4> QED BY <1>4, <2>2, <2>3, <4>1
    <3> QED BY <3>3, <3>4 DEF Joins
  <2>4. CASE u # By(c)
    <3>1. Passed(u)' = Passed(u)
        BY <1>1, <1>3, <2>4 DEF Passed, By
    <3>2. participants'[u] = participants[u]
        BY <1>4, <2>4
    <3> QED BY <1>1, <2>1, <2>2, <3>1, <3>2 DEF ChatInv, Joins
  <2> QED BY <2>3, <2>4
<1> QED BY <1>1, <1>2, <1>4, <1>5, MoveOn DEF Joining, ChatInv, ChatTypes

LEMMA JoinFailsStep == ASSUME ChatInv, NEW c \in Calls, JoinFails(c) PROVE ChatInv'
<1>1. /\ call[c].pc = "join" /\ call' = [call EXCEPT ![c].pc = AfterJoin(c)]
      /\ UNCHANGED <<participants, pushed, tangled>> /\ chatFaults' \in 0..MaxChatFaults
    BY ChatFaultBound DEF JoinFails
<1>2. AfterJoin(c) \in {"readers", "done"} /\ (AfterJoin(c) = "done" => call[c].post.quiet)
    BY DEF AfterJoin
<1>3. PICK new : new = [call[c] EXCEPT !.pc = AfterJoin(c)]
    OBVIOUS
<1>4. new \in CallRecs /\ new.pc = AfterJoin(c) /\ new.post = call[c].post
    BY <1>2, <1>3, CallTypes DEF CallRecs, CallSteps
<1>5. call' = [call EXCEPT ![c] = new]
    BY <1>1, <1>3 DEF ChatInv, ChatTypes
<1>6. \A u \in Users : Joins(u)'
    BY <1>1, <1>2, <1>4, <1>5, JoinsKept
<1> QED BY <1>1, <1>2, <1>6, MoveOn DEF Joining, ChatInv, ChatTypes

----------------------------------------------------------------------------
(* Telling *)

\* A step behind the insertion that changes what call c has read.
LEMMA Reading ==
  ASSUME ChatInv, NEW c \in Calls, call[c].pc \in {"readers", "mentions", "flagged", "roled", "push"},
         UNCHANGED <<participants, tangled>>, NoChatFault \/ ChatFault,
         NEW new \in CallRecs, call' = [call EXCEPT ![c] = new], new.post = call[c].post,
         new.pc \in {"mentions", "flagged", "roled", "push", "done"},
         NEW said \in [Users -> Told], pushed' = [pushed EXCEPT ![c] = said],
         \A u \in Users : Tells(c, u)'
  PROVE  ChatInv'
<1>1. \A u \in Users : Joins(u)'
    BY JoinsKept
<1>2. call'[c] = new
    BY DEF ChatInv, ChatTypes
<1>3. ~Joining(c)'
    BY <1>2 DEF Joining
<1> QED BY <1>1, <1>3, OneCall, ChatFaultBound DEF ChatInv, ChatTypes

LEMMA FetchStep ==
  ASSUME ChatInv, NEW c \in Calls, NEW step \in {"readers", "mentions", "flagged", "roled"},
         NEW field \in ReadFields, NEW rows \in SUBSET Users,
         NEW next \in {"mentions", "flagged", "roled", "push"}, Fetch(c, step, field, rows, next),
         \/ step = "readers" /\ field = "readers" /\ next = "mentions"
         \/ step = "mentions" /\ field = "mentioned" /\ next = "flagged"
              /\ rows = call[c].post.mentions
         \/ step = "flagged" /\ field = "admins" /\ next = "roled" /\ rows = Flagged
         \/ step = "roled" /\ field = "admins" /\ next = "push" /\ rows = Roled
  PROVE  ChatInv'
<1>1. PICK more \in SUBSET Users, missed \in BOOLEAN :
        /\ \/ more = rows \ {By(c)} /\ missed = call[c].missed
           \/ more = {} /\ missed = TRUE
        /\ call' = [call EXCEPT ![c] = [pc |-> next, post |-> call[c].post, missed |-> missed,
                                        read |-> [call[c].read EXCEPT ![field] = @ \cup more]]]
  <2>1. call[c].read \in [ReadFields -> SUBSET Users] /\ call[c].missed \in BOOLEAN
      BY CallTypes DEF CallRecs
  <2>2. CASE call' = [call EXCEPT ![c].pc = next, ![c].read[field] = @ \cup (rows \ {By(c)})]
    <3>1. call' = [call EXCEPT ![c] = [pc |-> next, post |-> call[c].post,
                                       missed |-> call[c].missed,
                       read |-> [call[c].read EXCEPT ![field] = @ \cup (rows \ {By(c)})]]]
      <4>1. PICK x : x = [call[c] EXCEPT !.pc = next, !.read[field] = @ \cup (rows \ {By(c)})]
          OBVIOUS
      <4>2. call' = [call EXCEPT ![c] = x]
          BY <2>2, <4>1 DEF ChatInv, ChatTypes
      <4>3. x = [pc |-> next, post |-> call[c].post, missed |-> call[c].missed,
                 read |-> [call[c].read EXCEPT ![field] = @ \cup (rows \ {By(c)})]]
          BY <4>1, CallTypes DEF CallRecs
      <4> QED BY <4>2, <4>3
    <3>2. rows \ {By(c)} \in SUBSET Users
        OBVIOUS
    <3> QED BY <2>1, <3>1, <3>2
  <2>3. CASE call' = [call EXCEPT ![c].pc = next, ![c].missed = TRUE]
    <3>1. [call[c].read EXCEPT ![field] = @ \cup {}] = call[c].read
        BY <2>1
    <3>2. call' = [call EXCEPT ![c] = [pc |-> next, post |-> call[c].post, missed |-> TRUE,
                       read |-> [call[c].read EXCEPT ![field] = @ \cup {}]]]
      <4>1. PICK x : x = [call[c] EXCEPT !.pc = next, !.missed = TRUE]
          OBVIOUS
      <4>2. call' = [call EXCEPT ![c] = x]
          BY <2>3, <4>1 DEF ChatInv, ChatTypes
      <4>3. x = [pc |-> next, post |-> call[c].post, missed |-> TRUE, read |-> call[c].read]
          BY <4>1, CallTypes DEF CallRecs
      <4> QED BY <3>1, <4>2, <4>3
    <3> QED BY <3>2
  <2> QED BY <2>2, <2>3 DEF Fetch
<1> DEFINE read == [call[c].read EXCEPT ![field] = @ \cup more]
           new == [pc |-> next, post |-> call[c].post, missed |-> missed, read |-> read]
<1>2. /\ read \in [ReadFields -> SUBSET Users] /\ read[field] = call[c].read[field] \cup more
      /\ \A f \in ReadFields \ {field} : read[f] = call[c].read[f]
    BY CallTypes DEF CallRecs
<1>3. new \in CallRecs
    BY <1>2, CallTypes DEF CallRecs, CallSteps
<1>4. /\ call[c].pc = step /\ UNCHANGED <<participants, pushed, tangled>>
      /\ (NoChatFault \/ ChatFault)
    BY DEF Fetch
<1>5. call'[c] = new
    BY <1>1 DEF ChatInv, ChatTypes
<1> HIDE DEF read
<1>6. /\ call'[c].pc = next /\ call'[c].post = call[c].post /\ call'[c].read = read
      /\ call'[c].missed = missed
    BY <1>5
<1>7. ASSUME NEW u \in Users PROVE Tells(c, u)'
  <2>1. Tells(c, u) /\ pushed[c][u] = <<>> /\ pushed'[c][u] = <<>>
      BY <1>4 DEF ChatInv, Tells
  <2>2. u # By(c) \/ u \notin more
      BY <1>1
  <2>3. /\ "readers" \in ReadFields /\ "mentioned" \in ReadFields /\ "admins" \in ReadFields
      BY DEF ReadFields
  <2>4. Recipients(c)' = Recipients(c) \cup more
      BY <1>2, <1>6, <2>3 DEF Recipients, ReadFields
  <2>5. By(c)' = By(c)
      BY <1>6 DEF By
  <2>6. /\ u \in read.mentioned <=> u \in call[c].read.mentioned \/ (field = "mentioned" /\ u \in more)
        /\ u \in read.admins <=> u \in call[c].read.admins \/ (field = "admins" /\ u \in more)
      BY <1>2, <2>3
  <2>7. u \in read.mentioned => u \in call[c].post.mentions
      BY <1>1, <2>1, <2>6 DEF Tells
  <2>8. u \in read.admins => u \in Flagged \cup Roled
      BY <1>1, <2>1, <2>6 DEF Tells
  <2>9. u \in Recipients(c)' => u # By(c)
      BY <2>1, <2>2, <2>4 DEF Tells
  <2>10. ASSUME u # By(c), ~missed
         PROVE  /\ u \in call[c].post.mentions /\ next \in {"flagged", "roled", "push"}
                     => u \in read.mentioned
                /\ u \in Flagged /\ next \in {"roled", "push"} => u \in read.admins
                /\ u \in Roled /\ next = "push" => u \in read.admins
      BY <1>1, <1>4, <2>1, <2>6, <2>10 DEF Tells, HasRead
  <2> QED BY <1>6, <2>1, <2>5, <2>7, <2>8, <2>9, <2>10 DEF Tells, HasRead
<1>8. call' = [call EXCEPT ![c] = new] /\ new.post = call[c].post /\ new.pc = next
    BY <1>1 DEF read
<1>9. pushed[c] \in [Users -> Told] /\ pushed' = [pushed EXCEPT ![c] = pushed[c]]
    BY <1>4, CallTypes
<1> HIDE DEF new
<1> QED BY <1>3, <1>4, <1>7, <1>8, <1>9, Reading

LEMMA ReadSteps ==
  ASSUME ChatInv, NEW c \in Calls,
         ReadParticipants(c) \/ ReadMentions(c) \/ ReadFlagged(c) \/ ReadRoled(c)
  PROVE  ChatInv'
<1>1. call[c].post.mentions \in SUBSET Users
    BY CallTypes, ChatAssumed DEF CallRecs, NoPost
<1>2. CASE ReadParticipants(c)
    BY <1>2, FetchStep DEF ReadParticipants, ReadFields
<1>3. CASE ReadMentions(c)
    BY <1>1, <1>3, FetchStep DEF ReadMentions, ReadFields
<1>4. CASE ReadFlagged(c)
    BY <1>4, FetchStep, ChatAssumed DEF ReadFlagged, ReadFields
<1>5. CASE ReadRoled(c)
    BY <1>5, FetchStep, ChatAssumed DEF ReadRoled, ReadFields
<1> QED BY <1>2, <1>3, <1>4, <1>5

LEMMA NotifyUserStep ==
  ASSUME ChatInv, NEW c \in Calls, NEW u \in Users, NotifyUser(c, u) PROVE ChatInv'
<1> DEFINE q == call[c]
<1>1. /\ q \in CallRecs /\ q.pc = "push" /\ u \in Recipients(c) /\ pushed[c][u] = <<>>
      /\ u # By(c) /\ UNCHANGED <<participants, tangled>> /\ (NoChatFault \/ ChatFault)
    BY CallTypes DEF NotifyUser, ChatInv, Tells
<1>2. PICK said \in [Users -> Told], missed \in BOOLEAN :
        /\ pushed' = [pushed EXCEPT ![c] = said]
        /\ \A v \in Users \ {u} : said[v] = pushed[c][v]
        /\ \/ said[u] = <<TypeFor(c, u)>> /\ missed = q.missed
           \/ said[u] = <<>> /\ missed = TRUE
        /\ missed = (q.missed \/ UNCHANGED pushed)
  <2>1. CASE pushed' = [pushed EXCEPT ![c][u] = Append(@, TypeFor(c, u))]
    <3>1. Append(pushed[c][u], TypeFor(c, u)) = <<TypeFor(c, u)>> /\ TypeFor(c, u) \in Types
        BY <1>1 DEF TypeFor, Types
    <3> DEFINE said == [pushed[c] EXCEPT ![u] = <<TypeFor(c, u)>>]
    <3>2. /\ said \in [Users -> Told] /\ pushed' = [pushed EXCEPT ![c] = said]
          /\ said[u] = <<TypeFor(c, u)>> /\ \A v \in Users \ {u} : said[v] = pushed[c][v]
        BY <2>1, <3>1 DEF ChatInv, ChatTypes, Told
    <3>3. pushed'[c][u] # pushed[c][u]
        BY <1>1, <3>2 DEF ChatInv, ChatTypes
    <3>4. q.missed \in BOOLEAN /\ q.missed = (q.missed \/ UNCHANGED pushed)
        BY <1>1, <3>3 DEF CallRecs
    <3> QED BY <3>2, <3>4
  <2>2. CASE UNCHANGED pushed
      BY <1>1, <2>2, CallTypes
  <2> QED BY <2>1, <2>2 DEF NotifyUser
<1> DEFINE read == [f \in ReadFields |-> q.read[f] \ {u}]
           new == [pc |-> "push", post |-> q.post, missed |-> missed, read |-> read]
<1>3. read \in [ReadFields -> SUBSET Users]
    BY <1>1 DEF CallRecs
<1>4. new \in CallRecs
    BY <1>1, <1>3 DEF CallRecs, CallSteps
<1>5. call' = [call EXCEPT ![c] = new]
  <2>1. PICK x : x = [q EXCEPT !.read = [f \in DOMAIN @ |-> @[f] \ {u}],
                               !.missed = @ \/ UNCHANGED pushed]
      OBVIOUS
  <2>2. call' = [call EXCEPT ![c] = x]
      BY <2>1 DEF NotifyUser, ChatInv, ChatTypes
  <2>3. DOMAIN q.read = ReadFields
      BY <1>1 DEF CallRecs
  <2>4. x = new
      BY <1>1, <1>2, <2>1, <2>3 DEF CallRecs
  <2> QED BY <2>2, <2>4
<1>6. call'[c] = new
    BY <1>5 DEF ChatInv, ChatTypes
<1>7. /\ read.mentioned = q.read.mentioned \ {u} /\ read.admins = q.read.admins \ {u}
      /\ read.readers = q.read.readers \ {u}
    BY DEF ReadFields
<1> HIDE DEF read
<1>8. /\ call'[c].pc = "push" /\ call'[c].post = q.post /\ call'[c].read = read
      /\ call'[c].missed = missed /\ By(c)' = By(c)
    BY <1>6 DEF By
<1>9. Recipients(c)' = Recipients(c) \ {u}
    BY <1>7, <1>8 DEF Recipients
<1>10. pushed'[c] = said
    BY <1>2 DEF ChatInv, ChatTypes
<1>11. ASSUME NEW v \in Users PROVE Tells(c, v)'
  <2>1. Tells(c, v) /\ Due(c, v)' = Due(c, v)
      BY <1>8 DEF ChatInv, Due
  <2>2. CASE v # u
    <3>1. pushed'[c][v] = pushed[c][v]
        BY <1>2, <1>10, <2>2
    <3>2. (v \in read.mentioned <=> v \in q.read.mentioned)
          /\ (v \in read.admins <=> v \in q.read.admins)
        BY <1>7, <2>2
    <3>3. ~missed => ~q.missed
        BY <1>2
    <3>4. pushed'[c][v] # <<>> => v # By(c) /\ (missed \/ pushed'[c][v] = <<Due(c, v)>>)
        BY <1>1, <1>2, <2>1, <3>1 DEF Tells, CallRecs
    <3> QED BY <1>1, <1>8, <1>9, <2>1, <2>2, <3>1, <3>2, <3>3, <3>4 DEF Tells, HasRead
  <2>3. CASE v = u
    <3>1. v \notin Recipients(c)' /\ v \notin read.mentioned /\ v \notin read.admins
        BY <1>7, <1>9, <2>3
    <3>2. ~missed => pushed'[c][v] = <<TypeFor(c, v)>> /\ ~q.missed
        BY <1>2, <1>10, <2>3
    <3>3. ~missed => TypeFor(c, v) = Due(c, v)
      <4>1. ~q.missed => /\ v \in q.read.mentioned <=> v \in q.post.mentions
                         /\ v \in q.read.admins <=> v \in Flagged \cup Roled
          BY <1>1, <2>1, <2>3 DEF Tells, HasRead
      <4> QED BY <3>2, <4>1 DEF TypeFor, Due
    <3>4. ~missed => pushed'[c][v] # <<>>
      <4>1. <<TypeFor(c, v)>> # <<>>
          OBVIOUS
      <4> QED BY <3>2, <4>1
    <3> QED BY <1>1, <1>8, <2>1, <2>3, <3>1, <3>2, <3>3, <3>4 DEF Tells, HasRead
  <2> QED BY <2>2, <2>3
<1>12. new.pc = "push" /\ new.post = call[c].post
    OBVIOUS
<1>13. /\ call[c].pc = "push" /\ UNCHANGED <<participants, tangled>>
       /\ (NoChatFault \/ ChatFault)
    BY <1>1
<1>14. pushed' = [pushed EXCEPT ![c] = said]
    BY <1>2
<1> HIDE DEF new, q
<1> QED BY <1>4, <1>5, <1>11, <1>12, <1>13, <1>14, Reading

LEMMA AnswerAppStep == ASSUME ChatInv, NEW c \in Calls, AnswerApp(c) PROVE ChatInv'
<1>1. PICK new : new = [call[c] EXCEPT !.pc = "done"]
    OBVIOUS
<1>2. /\ new \in CallRecs /\ new.pc = "done" /\ new.post = call[c].post
      /\ new.read = call[c].read /\ new.missed = call[c].missed
    BY <1>1, CallTypes DEF CallRecs, CallSteps
<1>3. /\ call[c].pc = "push" /\ Recipients(c) = {} /\ call' = [call EXCEPT ![c] = new]
      /\ UNCHANGED <<participants, pushed, tangled>> /\ NoChatFault /\ call'[c] = new
    BY <1>1 DEF AnswerApp, ChatInv, ChatTypes
<1>4. ASSUME NEW u \in Users PROVE Tells(c, u)'
  <2>1. Tells(c, u) /\ Recipients(c)' = {} /\ By(c)' = By(c) /\ Due(c, u)' = Due(c, u)
      BY <1>2, <1>3 DEF ChatInv, Recipients, By, Due
  <2> QED BY <1>2, <1>3, <2>1 DEF Tells, HasRead
<1> QED BY <1>2, <1>3, <1>4, Reading, CallTypes

----------------------------------------------------------------------------
LEMMA ChatNextInv == ChatInv /\ [ChatNext]_chatVars => ChatInv'
<1> SUFFICES ASSUME ChatInv, [ChatNext]_chatVars PROVE ChatInv'
    OBVIOUS
<1>1. CASE UNCHANGED chatVars
  <2>1. UNCHANGED <<participants, call, pushed, tangled, chatFaults>>
      BY <1>1 DEF chatVars
  <2>2. \A c \in Calls : By(c)' = By(c)
      BY <2>1 DEF By
  <2>3. \A u \in Users : Joins(u)'
    <3>1. \A u \in Users : Passed(u)' = Passed(u)
        BY <2>1, <2>2 DEF Passed
    <3> QED BY <2>1, <2>2, <3>1 DEF ChatInv, Joins
  <2>4. \A c \in Calls, u \in Users : Tells(c, u)'
      BY <2>1, <2>2 DEF ChatInv, Tells, HasRead, Recipients, Due
  <2> QED BY <2>1, <2>2, <2>3, <2>4 DEF ChatInv, ChatTypes, Joining
<1>2. CASE ChatNext
    BY <1>2, ProcessStep, CheckJoinStep, JoinStep, JoinFailsStep, ReadSteps, NotifyUserStep,
       AnswerAppStep DEF ChatNext
<1> QED BY <1>1, <1>2

LEMMA ChatInvTypes == ChatInv => ChatTypeOK
<1> SUFFICES ASSUME ChatInv PROVE ChatTypeOK
    OBVIOUS
<1>1. participants \in [Users -> 0..(1 + Cardinality(Calls))]
  <2>1. ASSUME NEW u \in Users PROVE participants[u] \in 0..(1 + Cardinality(Calls))
    <3>1. Cardinality(Passed(u)) <= Cardinality(Calls)
      <4>1. Passed(u) \subseteq Calls
          BY DEF Passed
      <4> QED BY <4>1, ChatAssumed, FS_Subset
    <3>2. Cardinality(Passed(u)) \in Nat /\ Cardinality(Calls) \in Nat
      <4>1. IsFiniteSet(Passed(u))
          BY ChatAssumed, FS_Subset DEF Passed
      <4> QED BY <4>1, ChatAssumed, FS_CardinalityType
    <3>3. participants[u] \in Nat /\ participants[u] <= 1 + Cardinality(Passed(u))
        BY DEF ChatInv, ChatTypes, Joins
    <3> QED BY <3>1, <3>2, <3>3
  <2> QED BY <2>1 DEF ChatInv, ChatTypes
<1>2. ASSUME NEW c \in Calls
      PROVE  /\ call[c] \in CallRecs
             /\ \A u \in Users : \A i \in DOMAIN pushed[c][u] : pushed[c][u][i] \in Types
  <2>1. call[c] \in CallRecs /\ \A u \in Users : pushed[c][u] \in Told
      BY DEF ChatInv, ChatTypes
  <2>2. \A s \in Told : \A i \in DOMAIN s : s[i] \in Types
      BY DEF Told
  <2> QED BY <2>1, <2>2
<1> QED BY <1>1, <1>2 DEF ChatInv, ChatTypes, ChatTypeOK, CallRecs, CallSteps, ReadFields

\* A user is in a room's list twice only if two calls looked before either inserted,
\* or a look failed, for any calls and users at once (upsertChatParticipant).
THEOREM JoinsOnce == ChatSpec => []JoinedOnce
<1>1. ChatInv => JoinedOnce
  <2> SUFFICES ASSUME ChatInv, NEW u \in Users, u \notin tangled PROVE ~(participants[u] > 1)
      BY DEF JoinedOnce
  <2> QED BY DEF ChatInv, ChatTypes, Joins
<1> QED BY <1>1, ChatInitInv, ChatNextInv, PTL DEF ChatSpec

\* A call tells nobody twice, never its sender, and of the reasons that hold for a
\* user the strongest, and passes over no mentioned user and no admin unless a read
\* failed, for any posts, users and overlapping calls (sendChatNotifications).
THEOREM TellsOnce == ChatSpec => []ToldOnce
<1>1. ChatInv => ToldOnce
  <2> SUFFICES ASSUME ChatInv, NEW c \in Calls, NEW u \in Users
               PROVE  /\ Len(pushed[c][u]) <= 1
                      /\ pushed[c][u] # <<>> =>
                           u # By(c) /\ (call[c].missed \/ pushed[c][u] = <<Due(c, u)>>)
                      /\ (/\ call[c].pc = "done" /\ ~call[c].post.quiet /\ ~call[c].missed
                          /\ u # By(c) /\ Due(c, u) # "chat_message")
                           => pushed[c][u] # <<>>
      BY DEF ToldOnce
  <2>1. Tells(c, u) /\ pushed[c][u] \in Told
      BY DEF ChatInv, ChatTypes
  <2>2. \A s \in Told : Len(s) <= 1
    <3>1. \A t : Len(<<t>>) = 1
        OBVIOUS
    <3>2. Len(<<>>) = 0
        OBVIOUS
    <3> TAKE s \in Told
    <3>3. s = <<>> \/ \E t \in Types : s = <<t>>
        BY DEF Told
    <3> QED BY <3>1, <3>2, <3>3
  <2>3. ASSUME call[c].pc = "done", ~call[c].post.quiet, ~call[c].missed, u # By(c),
               Due(c, u) # "chat_message", pushed[c][u] = <<>>
        PROVE  FALSE
    <3>1. u \in call[c].post.mentions \/ u \in Flagged \/ u \in Roled
        BY <2>3 DEF Due
    <3>2. u \in call[c].read.mentioned \/ u \in call[c].read.admins
        BY <2>1, <2>3, <3>1 DEF Tells, HasRead
    <3> QED BY <2>1, <2>3, <3>2 DEF Tells, Recipients
  <2> QED BY <2>1, <2>2, <2>3 DEF Tells
<1> QED BY <1>1, ChatInitInv, ChatNextInv, PTL DEF ChatSpec

\* The calls and the list of participants are well typed, and nobody is listed
\* more often than there were calls (upsertChatParticipant).
THEOREM ChatTyped == ChatSpec => []ChatTypeOK
  BY ChatInitInv, ChatNextInv, ChatInvTypes, PTL DEF ChatSpec

----------------------------------------------------------------------------
(* The parts side by side *)

\* A behaviour of the whole is one of every part: each step is a step of one of
\* them and leaves the others as they are.
THEOREM PartsRun ==
  Spec => CacheSpec /\ ViewerSpec /\ GeoSpec /\ InboundSpec /\ ChatSpec /\ UserSpec
<1>1. Init => CacheInit /\ ViewerInit /\ GeoInit /\ InboundInit /\ ChatInit /\ UserInit
    BY DEF Init
<1>2. [Next]_vars => /\ [CacheNext]_cacheVars /\ [ViewerNext]_viewerVars /\ [GeoNext]_geoVars
                     /\ [InboundNext]_inboundVars /\ [ChatNext]_chatVars /\ [UserNext]_userVars
    BY DEF Next, vars
<1> QED BY <1>1, <1>2, PTL
        DEF Spec, CacheSpec, ViewerSpec, GeoSpec, InboundSpec, ChatSpec, UserSpec

\* Every variable of every part has its type in every reachable state, for any
\* readers, sessions, addresses, texts, calls, users and bounds.
THEOREM AudienceTypes == Spec => []AudienceTypeOK
<1>1. CacheTypeOK /\ ViewerTypeOK /\ GeoTypeOK /\ InboundTypeOK /\ ChatTypeOK /\ UserTypeOK
        => AudienceTypeOK
    BY DEF AudienceTypeOK
<1> QED BY <1>1, PartsRun, CacheTyped, ViewerTyped, GeoTyped, InboundTypes, ChatTyped, UserTyped, PTL

\* The live counts, the history and the address cache show what was heard of, but for
\* the failures and doubts that the parts name, restarts, overlapping look-ups and the
\* outbox's second deliveries included (live_tv_stats.go, varnish_analytics.go).
THEOREM ViewersAreTrue == Spec => []ViewersTrue
<1>1. WindowExact /\ OneSnapshotPerMinute /\ AddressesSettle => ViewersTrue
    BY DEF ViewersTrue
<1> QED BY <1>1, PartsRun, WindowsExact, SnapshotsOnce, AddressesSettled, PTL

\* Listeners' texts and users' messages reach the room, its participants and its
\* admins, once but for the mishaps the parts name, however handlers overlap, fail
\* or are cut by a restart (handleSMSInbound, handleProcessChatMessage).
THEOREM ChatsAreTrue == Spec => []ChatsTrue
<1>1. SuccessMeansKept /\ RoutedByTheAir /\ CopiesNeedResends /\ SenderKnown /\ JoinedOnce /\ ToldOnce
        => ChatsTrue
    BY DEF ChatsTrue, InboundTrue
<1> QED BY <1>1, PartsRun, SuccessIsKept, RoutedRight, CopiesAreResends, SendersKnown, JoinsOnce,
           TellsOnce, PTL
=============================================================================
