------------------------------ MODULE EpgSync ------------------------------
(***************************************************************************)
(* Jobs that derive TimescaleDB tables from other tables: the EPG mirror   *)
(* (syncEPGMetadata in gofn/epg.go, with syncRadioPrograms of              *)
(* gofn/radio_programs.go) truncates two tables and fills them again, the  *)
(* first, which has a key, in one statement, the second, which has none,   *)
(* row by row; and the viewer sync (gofn/viewer_sync.go) upserts a row per *)
(* day.  The schedule of both is in gofn/scheduler.go; requests run them   *)
(* by hand.                                                                *)
(***************************************************************************)
EXTENDS Integers, Sequences

CONSTANTS
  RadioPrograms, TvPrograms,  \* programs that a lineup may hold
  ContentId,      \* the key of each: a radio program's name, a TV program's id or ""
  EpgRequests,    \* requests that run the mirror by hand, once each
  MaxLineupEdits, \* bound: programs added and removed
  MaxEpgFaults,   \* bound: requests that fail
  Days,           \* days that have views
  MaxViews        \* bound: views on a day

EpgActors == {"scheduler"} \cup EpgRequests
Programs == RadioPrograms \cup TvPrograms

VARIABLES
  lineup,       \* the programs of all stations
  lineupEdits,
  metadata,     \* epg_metadata: its keys
  radioRows,    \* epg_programs_radio: copies of each program's row
  mirror,       \* each actor's run of syncEPGMetadata
  epgSpent,     \* requests that have run
  tangled,      \* two runs of the mirror overlapped
  torn,         \* how the last run ended: in a failure, a refused insert, or neither
  epgFaults

epgVars == <<lineup, lineupEdits, metadata, radioRows, mirror, epgSpent, tangled, torn, epgFaults>>

\* The stations' own rows are always there, next to those of the programs.
LiveStream == "live_stream"
Ids(programs) == {LiveStream} \cup {ContentId[p] : p \in programs}
Clashes(programs) ==
  \E p \in programs :
    ContentId[p] = LiveStream \/ \E q \in programs \ {p} : ContentId[p] = ContentId[q]

ASSUME EpgAssumption ==
  /\ RadioPrograms \cap TvPrograms = {}
  /\ MaxLineupEdits \in Nat /\ MaxEpgFaults \in Nat
  /\ \E last \in Days : Days = 1..last /\ last \in Nat

NoRows == [p \in RadioPrograms |-> 0]
Copied == {p \in RadioPrograms : radioRows[p] > 0}
Asleep == [pc |-> "idle", batch |-> {}]

EpgInit ==
  /\ lineup \in SUBSET Programs /\ lineupEdits = 0
  /\ metadata = {} /\ radioRows = NoRows
  /\ mirror = [a \in EpgActors |-> Asleep]
  /\ epgSpent = {} /\ tangled = FALSE /\ torn = "no"
  /\ epgFaults = 0

Mirroring(a, pc) == mirror[a].pc = pc
EpgFault == epgFaults < MaxEpgFaults /\ epgFaults' = epgFaults + 1
Advance(a, pc, batch) == mirror' = [mirror EXCEPT ![a] = [pc |-> pc, batch |-> batch]]
Sleep(a) == mirror' = [mirror EXCEPT ![a] = Asleep]

\* A program comes or goes (one that is given its id or another name is another).
EditLineup(p) ==
  /\ lineupEdits < MaxLineupEdits
  /\ lineupEdits' = lineupEdits + 1
  /\ lineup' = IF p \in lineup THEN lineup \ {p} ELSE lineup \cup {p}
  /\ UNCHANGED <<metadata, radioRows, mirror, epgSpent, tangled, torn, epgFaults>>

----------------------------------------------------------------------------
(* syncEPGMetadata *)

StartMirror(a) ==
  /\ Mirroring(a, "idle")
  /\ a \in EpgRequests => a \notin epgSpent
  /\ epgSpent' = epgSpent \cup ({a} \cap EpgRequests)
  /\ tangled' = (tangled \/ \E b \in EpgActors : ~Mirroring(b, "idle"))
  /\ Advance(a, "truncate", lineup)
  /\ UNCHANGED <<lineup, lineupEdits, metadata, radioRows, torn, epgFaults>>

TruncateMetadata(a) ==
  /\ Mirroring(a, "truncate")
  /\ metadata' = {}
  /\ Advance(a, "insert", mirror[a].batch)
  /\ UNCHANGED <<lineup, lineupEdits, radioRows, epgSpent, tangled, torn, epgFaults>>

\* content_id is the primary key.
Accepted(a) ==
  /\ Mirroring(a, "insert")
  /\ ~Clashes(mirror[a].batch) /\ metadata \cap Ids(mirror[a].batch) = {}
Inserted(a) == metadata' = metadata \cup Ids(mirror[a].batch)

InsertMetadata(a) ==
  /\ Accepted(a)
  /\ Inserted(a)
  /\ Advance(a, "radio", {})
  /\ UNCHANGED <<lineup, lineupEdits, radioRows, epgSpent, tangled, torn, epgFaults>>

\* Two rows with one key, or one that another run has put there: the one statement
\* stores none, and the run ends with the error.
MetadataRefused(a) ==
  /\ Mirroring(a, "insert") /\ ~Accepted(a)
  /\ Sleep(a) /\ torn' = "refused"
  /\ UNCHANGED <<lineup, lineupEdits, metadata, radioRows, epgSpent, tangled, epgFaults>>

\* syncRadioPrograms reads the lineup again; without radio programs it leaves
\* the table as it is.
ReadRadioPrograms(a) ==
  /\ Mirroring(a, "radio")
  /\ IF lineup \cap RadioPrograms = {} THEN Sleep(a) /\ torn' = "no"
     ELSE Advance(a, "truncateRadio", lineup \cap RadioPrograms) /\ UNCHANGED torn
  /\ UNCHANGED <<lineup, lineupEdits, metadata, radioRows, epgSpent, tangled, epgFaults>>

TruncateRadioPrograms(a) ==
  /\ Mirroring(a, "truncateRadio")
  /\ radioRows' = NoRows
  /\ Advance(a, "insertRadio", mirror[a].batch)
  /\ UNCHANGED <<lineup, lineupEdits, metadata, epgSpent, tangled, torn, epgFaults>>

WithNext(p) == radioRows' = [radioRows EXCEPT ![p] = @ + 1]

\* One statement for each row, in the order of the lineup; the keys are serial
\* numbers and refuse nothing.
InsertRadioProgram(a, p) ==
  /\ Mirroring(a, "insertRadio") /\ p \in mirror[a].batch
  /\ LET rest == mirror[a].batch \ {p}
     IN  IF rest = {} THEN Sleep(a) /\ torn' = "no"
         ELSE Advance(a, "insertRadio", rest) /\ UNCHANGED torn
  /\ WithNext(p)
  /\ UNCHANGED <<lineup, lineupEdits, metadata, epgSpent, tangled, epgFaults>>

\* Any request may fail, its statement executed or not; the run ends with what
\* it has done so far.
MirrorFails(a) ==
  /\ ~Mirroring(a, "idle")
  /\ EpgFault
  /\ Sleep(a)
  /\ torn' = "failed"
  /\ \/ UNCHANGED <<metadata, radioRows>>
     \/ Mirroring(a, "truncate") /\ metadata' = {} /\ UNCHANGED radioRows
     \/ Accepted(a) /\ Inserted(a) /\ UNCHANGED radioRows
     \/ Mirroring(a, "truncateRadio") /\ radioRows' = NoRows /\ UNCHANGED metadata
     \/ /\ Mirroring(a, "insertRadio")
        /\ \E p \in mirror[a].batch : WithNext(p)
        /\ UNCHANGED metadata
  /\ UNCHANGED <<lineup, lineupEdits, epgSpent, tangled>>

MirrorStep(a) ==
  \/ TruncateMetadata(a) \/ InsertMetadata(a) \/ MetadataRefused(a) \/ ReadRadioPrograms(a)
  \/ TruncateRadioPrograms(a) \/ (\E p \in RadioPrograms : InsertRadioProgram(a, p))
  \/ MirrorFails(a)

EpgNext ==
  \/ \E p \in Programs : EditLineup(p)
  \/ \E a \in EpgActors : StartMirror(a) \/ MirrorStep(a)

EpgSpec == EpgInit /\ [][EpgNext]_epgVars

----------------------------------------------------------------------------
(* The viewer sync: an aggregate of a day's views, upserted in one statement *)

ViewerJobs == {"hourly", "backfill"}

VARIABLES
  views,        \* views of each day in content_views
  today,
  viewerDaily,  \* the day's row in viewer_daily, 0 when there is none
  counting      \* each job's days to come, and the count it is about to write

viewerVars == <<views, today, viewerDaily, counting>>

Still == [days |-> <<>>, count |-> -1]

ViewerInit ==
  /\ views = [d \in Days |-> 0]
  /\ today = 1
  /\ viewerDaily = [d \in Days |-> 0]
  /\ counting = [j \in ViewerJobs |-> Still]

View ==
  /\ views[today] < MaxViews
  /\ views' = [views EXCEPT ![today] = @ + 1]
  /\ UNCHANGED <<today, viewerDaily, counting>>

NextDay ==
  /\ today + 1 \in Days
  /\ today' = today + 1
  /\ UNCHANGED <<views, viewerDaily, counting>>

\* Hourly: yesterday and today; once a day, the last 30 days.
DaysOf(j) ==
  IF j = "backfill" THEN [d \in 1..today |-> d]
  ELSE IF today - 1 \in Days THEN <<today - 1, today>>
  ELSE <<today>>

StartCount(j) ==
  /\ counting[j] = Still
  /\ counting' = [counting EXCEPT ![j].days = DaysOf(j)]
  /\ UNCHANGED <<views, today, viewerDaily>>

\* The statement reads the views, and then may wait for the row.
CountDay(j) ==
  /\ counting[j].days # <<>> /\ counting[j].count = -1
  /\ counting' = [counting EXCEPT ![j].count = views[Head(counting[j].days)]]
  /\ UNCHANGED <<views, today, viewerDaily>>

DayDone(j) == counting' = [counting EXCEPT ![j] = [days |-> Tail(@.days), count |-> -1]]

\* A day without views has no group, and so no row.
UpsertDay(j) ==
  /\ counting[j].count >= 0
  /\ viewerDaily' = IF counting[j].count = 0 THEN viewerDaily
                    ELSE [viewerDaily EXCEPT ![Head(counting[j].days)] = counting[j].count]
  /\ DayDone(j)
  /\ UNCHANGED <<views, today>>

\* A day that fails is logged, and the next one is counted; its statement may
\* have been executed all the same.
CountDayFails(j) ==
  /\ counting[j].days # <<>>
  /\ DayDone(j)
  /\ \/ UNCHANGED viewerDaily
     \/ counting[j].count > 0
        /\ viewerDaily' = [viewerDaily EXCEPT ![Head(counting[j].days)] = counting[j].count]
  /\ UNCHANGED <<views, today>>

ViewerStep(j) == StartCount(j) \/ CountDay(j) \/ UpsertDay(j)

ViewerNext ==
  \/ ((View \/ NextDay) /\ UNCHANGED epgFaults)
  \/ \E j \in ViewerJobs :
       \/ (ViewerStep(j) /\ UNCHANGED epgFaults)
       \/ (CountDayFails(j) /\ EpgFault)

ViewerSpec == ViewerInit /\ [][ViewerNext]_viewerVars

----------------------------------------------------------------------------
(* Properties *)

EpgTypeOK ==
  /\ lineup \subseteq Programs /\ lineupEdits \in 0..MaxLineupEdits
  /\ metadata \subseteq Ids(Programs) /\ radioRows \in [RadioPrograms -> Nat]
  /\ \A a \in EpgActors :
       /\ mirror[a].batch \subseteq Programs
       /\ mirror[a].pc \in {"truncateRadio", "insertRadio"} =>
            mirror[a].batch # {} /\ mirror[a].batch \subseteq RadioPrograms
  /\ epgSpent \subseteq EpgRequests /\ epgFaults \in 0..MaxEpgFaults
  /\ today \in Days
  /\ \A d \in Days : d > today => views[d] = 0 /\ viewerDaily[d] = 0

\* While the lineup stays as it is, a reader finds in epg_metadata all of it or
\* nothing, whatever runs overlap or fail; an insert is refused only when the lineup
\* has a key twice or two runs overlapped; epg_programs_radio holds each row once,
\* unless two runs overlapped; and the two tables tell of one lineup, except during
\* a run, after one that ended in an error, or when the lineup changed
\* (syncEPGMetadata, syncRadioPrograms).
MirrorsHonest ==
  /\ lineupEdits = 0 => metadata \in {{}, Ids(lineup)}
  /\ torn = "refused" => tangled \/ lineupEdits > 0 \/ Clashes(lineup)
  /\ tangled \/ \A p \in RadioPrograms : radioRows[p] <= 1
  /\ \/ tangled \/ torn # "no" \/ lineupEdits > 0
     \/ \E a \in EpgActors : ~Mirroring(a, "idle")
     \/ metadata = {} /\ Copied = {}
     \/ metadata = Ids(lineup) /\ Copied = lineup \cap RadioPrograms

\* No statement writes a count of views that the day never had.
ViewersCounted == \A d \in Days : viewerDaily[d] <= views[d]

\* The two tables say what the lineup says, each row once, between the runs of
\* the schedule (during one a reader may find them empty); but a radio lineup that
\* became empty leaves the old rows, and a lineup that has a key twice leaves
\* epg_metadata empty, and the other table as it was, for as long as it stays so.
EpgSettled ==
  Mirroring("scheduler", "idle") =>
    IF Clashes(lineup) THEN metadata = {}
    ELSE /\ metadata = Ids(lineup)
         /\ lineup \cap RadioPrograms # {} =>
              radioRows = [p \in RadioPrograms |-> IF p \in lineup THEN 1 ELSE 0]

\* And viewer_daily counts the views of every day.
ViewersSettled == viewerDaily = views
=============================================================================
