----------------------------- MODULE RadioSync -----------------------------
(***************************************************************************)
(* The radio jobs (gofn/radio_sync.go): the scheduler and requests pull    *)
(* from AzuraCast and write to TimescaleDB.  The history is a window over  *)
(* the last songs, whose key admits each once and refuses an insert that   *)
(* brings one again as a whole; a day's listeners are upserted; every      *)
(* other report is appended.  One goroutine runs each scheduled job, so it *)
(* never overlaps itself, but a request for the same job may overlap it.   *)
(***************************************************************************)
EXTENDS Integers, FiniteSets, FiniteSetsExt

CONSTANTS
  Window,          \* songs in AzuraCast's history
  RadioRequests,   \* requests that run a job by hand, once each
  Reports,         \* overview reports: country, browser, client, ...
  MaxSongs,        \* bound: songs played
  MaxRadioFaults   \* bound: requests to AzuraCast or TimescaleDB that fail

\* No overview report is called like a job.
ASSUME RadioAssumption ==
  MaxSongs \in Nat /\ MaxRadioFaults \in Nat /\ Reports \cap {"history", "reports"} = {}

RadioActors == {"scheduler"} \cup RadioRequests

VARIABLES
  job,        \* the job that this behaviour is about; jobs share no table
  songs,      \* songs played so far; also the listeners the charts show today
  history,    \* songs that have their row in radio_history
  daily,      \* the day's row of radio_daily, 0 when there is none
  newest,     \* the listeners in the latest rows of each appended table
  sync,       \* each actor's run
  spent,      \* requests that have run
  pulled,     \* songs that a run has seen in AzuraCast's history
  excused,    \* songs of runs that a failed request or an overlap kept from storing
  radioFaults

radioVars == <<job, songs, history, daily, newest, sync, spent, pulled, excused, radioFaults>>

Appended == {"hourly", "best_worst", "nowplaying", "listeners"} \cup Reports
Song == 1..MaxSongs
Listed == {s \in Song : s <= songs /\ s > songs - Window}
Resting == [pc |-> "idle", batch |-> {}, figure |-> 0, todo |-> {}]

RadioInit ==
  /\ job \in {"history", "reports", "nowplaying", "listeners"}
  /\ songs = 0
  /\ history = {}
  /\ daily = 0
  /\ newest = [t \in Appended |-> 0]
  /\ sync = [a \in RadioActors |-> Resting]
  /\ spent = {} /\ pulled = {} /\ excused = {}
  /\ radioFaults = 0

Syncing(a, pc) == sync[a].pc = pc
RadioFault == radioFaults < MaxRadioFaults /\ radioFaults' = radioFaults + 1
Rest(a) == sync' = [sync EXCEPT ![a] = Resting]
radioTables == <<history, daily, newest>>

\* AzuraCast plays a song; its charts change with it.
PlaySong ==
  /\ songs < MaxSongs
  /\ songs' = songs + 1
  /\ UNCHANGED <<job, radioTables, sync, spent, pulled, excused, radioFaults>>

----------------------------------------------------------------------------
(* A run starts with what AzuraCast answers *)

StartsRun(a) ==
  /\ Syncing(a, "idle")
  /\ a \in RadioRequests => a \notin spent
  /\ spent' = spent \cup ({a} \cap RadioRequests)

FirstStep == [history |-> "check", reports |-> "daily",
              nowplaying |-> "append", listeners |-> "append"][job]

\* An empty history or no listeners: nothing to do.
PullFromAzura(a) ==
  /\ StartsRun(a)
  /\ sync' = [sync EXCEPT ![a] =
       IF songs = 0 /\ job \in {"history", "listeners"} THEN Resting
       ELSE [pc |-> FirstStep, batch |-> Listed, figure |-> songs, todo |-> {job} \cap Appended]]
  /\ pulled' = IF job = "history" THEN pulled \cup Listed ELSE pulled
  /\ UNCHANGED <<job, songs, radioTables, excused, radioFaults>>

PullFails(a) ==
  /\ StartsRun(a)
  /\ RadioFault
  /\ UNCHANGED <<job, songs, radioTables, sync, pulled, excused>>

----------------------------------------------------------------------------
(* syncRadioHistory *)

ExistingShIDs(a) ==
  /\ Syncing(a, "check")
  /\ sync' = [sync EXCEPT ![a].pc = "insert", ![a].batch = @ \ history]
  /\ UNCHANGED <<job, songs, radioTables, spent, pulled, excused, radioFaults>>

\* No connection, the query fails, or its rows break off: what was not read
\* counts as new.
ExistingShIDsFails(a) ==
  /\ Syncing(a, "check")
  /\ RadioFault
  /\ \E read \in SUBSET history :
       sync' = [sync EXCEPT ![a].pc = "insert", ![a].batch = @ \ read]
  /\ excused' = excused \cup sync[a].batch
  /\ UNCHANGED <<job, songs, radioTables, spent, pulled>>

\* Others that are about to insert one of these songs will be refused.
Forestalled(a) ==
  UNION {sync[b].batch : b \in {c \in RadioActors \ {a} :
                                Syncing(c, "insert") /\ sync[c].batch \cap sync[a].batch # {}}}

StoreSongs(a) ==
  /\ sync[a].batch \cap history = {}
  /\ history' = history \cup sync[a].batch

InsertSongs(a) ==
  /\ Syncing(a, "insert")
  /\ StoreSongs(a)
  /\ excused' = excused \cup Forestalled(a)
  /\ Rest(a)
  /\ UNCHANGED <<job, songs, daily, newest, spent, pulled, radioFaults>>

\* One statement: a row whose key is taken refuses them all, and the new songs
\* with it.
SongsRefused(a) ==
  /\ Syncing(a, "insert")
  /\ sync[a].batch \cap history # {}
  /\ Rest(a)
  /\ UNCHANGED <<job, songs, radioTables, spent, pulled, excused, radioFaults>>

\* All of it or nothing, whatever the answer says.
InsertSongsFails(a) ==
  /\ Syncing(a, "insert")
  /\ RadioFault
  /\ \/ StoreSongs(a) /\ excused' = excused \cup Forestalled(a)
     \/ UNCHANGED history /\ excused' = excused \cup sync[a].batch
  /\ Rest(a)
  /\ UNCHANGED <<job, songs, daily, newest, spent, pulled>>

----------------------------------------------------------------------------
(* syncRadioCharts: a failing insert ends the run, except for the overview   *)
(* reports, each of which is fetched and inserted by itself.                 *)

UpsertDaily(a) ==
  /\ Syncing(a, "daily")
  /\ daily' = sync[a].figure
  /\ sync' = [sync EXCEPT ![a].pc = "append", ![a].todo = {"hourly"}]
  /\ UNCHANGED <<job, songs, history, newest, spent, pulled, excused, radioFaults>>

UpsertDailyFails(a) ==
  /\ Syncing(a, "daily")
  /\ RadioFault
  /\ daily' \in {daily, sync[a].figure}
  /\ Rest(a)
  /\ UNCHANGED <<job, songs, history, newest, spent, pulled, excused>>

Following(t) == CASE t = "hourly" -> {"best_worst"}
                  [] t = "best_worst" -> Reports
                  [] OTHER -> {}

\* After a table: the rest of its step, then the following step.
GoOn(a, t) ==
  LET left == (sync[a].todo \ {t}) \cup Following(t)
  IN  sync' = [sync EXCEPT ![a] = IF left = {} THEN Resting ELSE [@ EXCEPT !.todo = left]]

\* The rows carry the time of their fetch, and the readers take the latest.
AppendTo(a, t) == newest' = [newest EXCEPT ![t] = Max({@, sync[a].figure})]

AppendRows(a, t) ==
  /\ Syncing(a, "append") /\ t \in sync[a].todo
  /\ AppendTo(a, t)
  /\ GoOn(a, t)
  /\ UNCHANGED <<job, songs, history, daily, spent, pulled, excused, radioFaults>>

\* Best-and-worst and the overview reports are fetched first; a failing fetch
\* skips the table, and so does an answer without rows.  The map of the reports
\* has no order.
SkipReport(a, t) ==
  /\ Syncing(a, "append") /\ t \in sync[a].todo
  /\ t \in {"hourly", "best_worst"} \cup Reports
  /\ RadioFault
  /\ GoOn(a, t)
  /\ UNCHANGED <<job, songs, radioTables, spent, pulled, excused>>

AppendFails(a, t) ==
  /\ Syncing(a, "append") /\ t \in sync[a].todo
  /\ RadioFault
  /\ AppendTo(a, t) \/ UNCHANGED newest
  /\ IF t \in Reports THEN GoOn(a, t) ELSE Rest(a)
  /\ UNCHANGED <<job, songs, history, daily, spent, pulled, excused>>

----------------------------------------------------------------------------

RadioStep(a) ==
  \/ ExistingShIDs(a) \/ ExistingShIDsFails(a)
  \/ InsertSongs(a) \/ SongsRefused(a) \/ InsertSongsFails(a)
  \/ UpsertDaily(a) \/ UpsertDailyFails(a)
  \/ \E t \in Appended : AppendRows(a, t) \/ SkipReport(a, t) \/ AppendFails(a, t)

RadioNext ==
  \/ PlaySong
  \/ \E a \in RadioActors : PullFromAzura(a) \/ PullFails(a) \/ RadioStep(a)

RadioSpec == RadioInit /\ [][RadioNext]_radioVars

----------------------------------------------------------------------------
(* Properties *)

RadioTypeOK ==
  /\ songs \in 0..MaxSongs /\ radioFaults \in 0..MaxRadioFaults
  /\ daily \in 0..MaxSongs
  /\ newest \in [Appended -> 0..MaxSongs]
  /\ \A a \in RadioActors :
       /\ sync[a].pc \in {"idle", "check", "insert", "daily", "append"}
       /\ sync[a].pc = "append" <=> sync[a].todo # {}
       /\ sync[a].batch \subseteq 1..songs
  /\ spent \subseteq RadioRequests /\ history \subseteq pulled /\ excused \subseteq pulled

\* A song that a run has pulled is stored when the run is over, though a single
\* row that is there already refuses all of an insert: it is lost (once it leaves
\* AzuraCast's window, for good) only by a run whose check or insert failed, or
\* that another run got in front of between its check and its insert.  An insert
\* whose answer was lost does no harm, for the next run finds its rows
\* (existingShIDs, insertRows and the key of radio_history).
SongsKept ==
  \A s \in pulled \ history :
    s \in excused \/ \E a \in RadioActors : s \in sync[a].batch

\* The songs in AzuraCast's window are stored, the day's listeners are those of
\* the charts, and so are the latest rows of each report that the job fills: what
\* the runs bring about once the failures stop.
RadioSettled ==
  /\ job = "history" => Listed \subseteq history
  /\ job = "reports" => daily = songs
                        /\ \A t \in {"hourly", "best_worst"} \cup Reports : newest[t] = songs
  /\ job \in Appended => newest[job] = songs
=============================================================================
