----------------------------- MODULE ViewerStats ----------------------------
(***************************************************************************)
(* The live-viewer statistics of gofn/varnish_analytics.go.                *)
(* Every log line of the CDN refreshes a session; the viewers of a stream  *)
(* are its sessions seen within the window.  The scheduler records a       *)
(* snapshot every minute and then stores the counts of that later moment,  *)
(* at once or through the outbox; a reader of the history records one too  *)
(* if the minute has none.  The cleanup removes sessions not heard of for  *)
(* two hours, although some readers ask for more.                          *)
(***************************************************************************)
EXTENDS Integers, Sequences, SequencesExt, FiniteSets

CONSTANTS
  Streams,      \* "stream" and "stream2"
  Ips,          \* addresses in the log
  Window,       \* 30 seconds, in ticks
  MinuteTicks,  \* one minute
  Expiry,       \* 120 minutes
  Widest,       \* 168 hours, the widest window of a reader
  HistoryCap,   \* 1440 snapshots
  MaxTime,      \* bound: ticks of a behaviour
  MaxRestarts,  \* bound
  MaxDoubts     \* bound: inserts of the outbox that commit and report an error

ASSUME ViewerAssumption ==
  /\ Window \in Nat \ {0} /\ MinuteTicks \in Nat \ {0} /\ HistoryCap \in Nat \ {0}
  /\ Expiry \in Nat /\ Expiry >= Window
  /\ Widest \in Nat
  /\ MaxTime \in Nat /\ MaxRestarts \in Nat /\ MaxDoubts \in Nat
  /\ IsFiniteSet(Ips)

VARIABLES
  now,           \* ticks since the start
  sessions,      \* LastSeen by session, Gone when the map has no entry
  history,       \* the ring of minute snapshots
  lastSnapshot,  \* minute of the newest one, Gone at the start
  job,           \* the scheduler's minute job: waiting, or between its two steps
  nextRun,       \* tick before which the job sleeps
  outboxed,      \* whether the process has an outbox
  queue,         \* its snapshot jobs, a minute and its counts
  keys,          \* the jobs it has accepted: its deduplication entries
  stored,        \* rows of varnish_stream_snapshots by minute
  lastHit,       \* when a session was last heard of, since the process started
  restarts, doubts

storeVars == <<outboxed, queue, keys, stored, doubts>>
viewerVars == <<now, sessions, history, lastSnapshot, job, nextRun, storeVars,
                lastHit, restarts>>

Gone == -1
Sessions == Streams \X Ips
Minute == now \div MinuteTicks
Minutes == 0..(MaxTime \div MinuteTicks)

\* GetStats and CurrentCounts: the sessions of a stream seen within a window.
Seen(w) == {s \in Sessions : sessions[s] # Gone /\ sessions[s] > now - w}
Count(w) == [st \in Streams |-> Cardinality({s \in Seen(w) : s[1] = st})]
CountsNow == [minute |-> Minute, viewers |-> Count(Window)]

ViewerInit ==
  /\ now = 0
  /\ sessions = [s \in Sessions |-> Gone]
  /\ history = <<>>
  /\ lastSnapshot = Gone
  /\ job = "sleep"
  /\ nextRun = 0
  /\ outboxed \in BOOLEAN /\ queue = {} /\ keys = {}
  /\ stored = [m \in Minutes |-> 0] /\ doubts = 0
  /\ lastHit = [s \in Sessions |-> Gone]
  /\ restarts = 0

----------------------------------------------------------------------------
\* A log line of a live stream.
RecordHit(s) ==
  /\ sessions' = [sessions EXCEPT ![s] = now]
  /\ lastHit' = [lastHit EXCEPT ![s] = now]
  /\ UNCHANGED <<now, history, lastSnapshot, job, nextRun, storeVars, restarts>>

\* Mutant: the oldest snapshot goes one too late.
KeepOneMore(h) ==
  IF Len(h) > HistoryCap + 1 THEN SubSeq(h, Len(h) - HistoryCap, Len(h)) ELSE h

\* Every append drops what the ring is over its limit.
Keep(h) == IF Len(h) > HistoryCap THEN SubSeq(h, Len(h) - HistoryCap + 1, Len(h)) ELSE h

\* Mutant: a reader of the history records although the minute has a snapshot.
RecordMinuteSnapshotAlways ==
  /\ history' = Keep(Append(history, CountsNow))
  /\ lastSnapshot' = Minute

RecordMinuteSnapshot ==
  IF lastSnapshot = Minute
  THEN UNCHANGED <<history, lastSnapshot>>
  ELSE /\ history' = Keep(Append(history, CountsNow))
       /\ lastSnapshot' = Minute

\* handleGetViewerStats, when the database has no snapshots to show.
ReadHistory ==
  /\ RecordMinuteSnapshot
  /\ UNCHANGED <<now, sessions, job, nextRun, storeVars, lastHit, restarts>>

\* The first step of the minute job.
Snapshot ==
  /\ job = "sleep" /\ now >= nextRun
  /\ RecordMinuteSnapshot
  /\ job' = "persist"
  /\ UNCHANGED <<now, sessions, nextRun, storeVars, lastHit, restarts>>

\* The second stores the counts of now, under the minute of now, hands them to the
\* outbox, which passes over what it has accepted, or loses them; the job then
\* sleeps for a minute.
Persist ==
  /\ job = "persist"
  /\ \/ /\ ~outboxed
        /\ stored' = [stored EXCEPT ![Minute] = @ + 1]
        /\ UNCHANGED <<queue, keys>>
     \/ /\ outboxed /\ CountsNow \notin keys
        /\ queue' = queue \cup {CountsNow} /\ keys' = keys \cup {CountsNow}
        /\ UNCHANGED stored
     \/ UNCHANGED <<queue, keys, stored>>
  /\ job' = "sleep"
  /\ nextRun' = IF nextRun > now THEN nextRun ELSE now + MinuteTicks
  /\ UNCHANGED <<now, sessions, history, lastSnapshot, outboxed, doubts, lastHit, restarts>>

\* The drainer inserts a job's rows.  When the commit reports an error, or the
\* process ends after it, the job stays and is inserted again.  (Outbox.tla has
\* the rest of the drainer; a job of this kind dies only of a limit of attempts,
\* which is off by default.)
Drain(j) ==
  /\ j \in queue
  /\ stored' = [stored EXCEPT ![j.minute] = @ + 1]
  /\ \/ queue' = queue \ {j} /\ UNCHANGED doubts
     \/ doubts < MaxDoubts /\ doubts' = doubts + 1 /\ UNCHANGED queue
  /\ UNCHANGED <<now, sessions, history, lastSnapshot, job, nextRun, outboxed, keys,
                 lastHit, restarts>>

\* Every 15 seconds, whatever windows are asked for.
CleanupExpired ==
  /\ sessions' = [s \in Sessions |-> IF sessions[s] < now - Expiry THEN Gone ELSE sessions[s]]
  /\ UNCHANGED <<now, history, lastSnapshot, job, nextRun, storeVars, lastHit, restarts>>

Second ==
  /\ now < MaxTime
  /\ now' = now + 1
  /\ UNCHANGED <<sessions, history, lastSnapshot, job, nextRun, storeVars, lastHit, restarts>>

\* The tracker, the ring and the GeoIP cache are in memory only; the outbox is not.
ViewerRestart ==
  /\ restarts < MaxRestarts
  /\ restarts' = restarts + 1
  /\ sessions' = [s \in Sessions |-> Gone]
  /\ lastHit' = [s \in Sessions |-> Gone]
  /\ history' = <<>> /\ lastSnapshot' = Gone
  /\ job' = "sleep" /\ nextRun' = now
  /\ UNCHANGED <<now, storeVars>>

ViewerNext ==
  \/ \E s \in Sessions : RecordHit(s)
  \/ \E j \in queue : Drain(j)
  \/ ReadHistory \/ Snapshot \/ Persist \/ CleanupExpired \/ Second \/ ViewerRestart

ViewerSpec == ViewerInit /\ [][ViewerNext]_viewerVars

----------------------------------------------------------------------------
(* Properties *)

Snapshots == [minute : Minutes, viewers : [Streams -> 0..Cardinality(Ips)]]

\* Every variable has its type; the ring keeps its limit (RecordMinuteSnapshot).
ViewerTypeOK ==
  /\ now \in 0..MaxTime
  /\ sessions \in [Sessions -> {Gone} \cup 0..now]
  /\ lastHit \in [Sessions -> {Gone} \cup 0..now]
  /\ ToSet(history) \subseteq Snapshots /\ Len(history) <= HistoryCap
  /\ lastSnapshot \in {Gone} \cup 0..Minute
  /\ job \in {"sleep", "persist"}
  /\ nextRun \in 0..(now + MinuteTicks)
  /\ outboxed \in BOOLEAN /\ queue \subseteq keys /\ keys \subseteq Snapshots
  /\ stored \in [Minutes -> Nat]
  /\ restarts \in 0..MaxRestarts /\ doubts \in 0..MaxDoubts

Heard(w) == {s \in Sessions : lastHit[s] # Gone /\ lastHit[s] > now - w}

\* A window of any width shows only what was heard of within it since the start of
\* the process, and all of it but what was last heard of before the expiry (a
\* reader may ask for 24 or 168 hours, live_tv_stats.go:386 and 652): the cleanup,
\* which runs between any two steps, takes nothing that a narrower window could count.
WindowExact ==
  \A w \in 1..Widest :
    Seen(w) \subseteq Heard(w) /\ \A s \in Heard(w) \ Seen(w) : lastHit[s] < now - Expiry

KeysOf(m) == {k \in keys : k.minute = m}

\* The history has at most one snapshot of a minute, in order, though both the
\* scheduler and readers record them.  One process stores, or has the outbox accept,
\* at most one row of a minute, for the job sleeps a minute after it ends (runEvery);
\* the table has no key, so a row more in it needs a restart within the minute, or a
\* commit of the outbox that reported an error.  What the outbox accepted waits or
\* is stored.
OneSnapshotPerMinute ==
  /\ \A i, j \in DOMAIN history : i < j => history[i].minute < history[j].minute
  /\ \A m \in Minutes :
       IF outboxed
       THEN Cardinality(KeysOf(m)) <= 1 + restarts /\ stored[m] <= Cardinality(KeysOf(m)) + doubts
       ELSE stored[m] <= 1 + restarts
  /\ \A k \in keys : k \in queue \/ stored[k.minute] > 0
=============================================================================
