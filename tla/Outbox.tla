------------------------------- MODULE Outbox -------------------------------
(***************************************************************************)
(* The durable edge outbox of gofn/outbox.go and gofn/outbox_jobs.go: the  *)
(* bbolt buckets pending, dead, dedupe and meta, the HTTP requests that    *)
(* enqueue into them, the one drainer goroutine that hands jobs to the     *)
(* TimescaleDB handler, the dead-letter replay, and process restarts.      *)
(*                                                                         *)
(* Every bbolt Update transaction is one action.  A job leaves the         *)
(* transaction boundary when the drainer reads it (FetchDue) and comes     *)
(* back only in MarkDone, MarkDead or RecordFailure: enqueues, replays,    *)
(* ticks and crashes interleave with the handler in between.               *)
(*                                                                         *)
(* Time is relative: a job carries the ticks left until NextAttemptAt, a   *)
(* dedupe entry the ticks left until ExpiresAt, and Tick counts them all   *)
(* down.  The receipt time that orders the keys is a rank in Stamps.       *)
(***************************************************************************)
EXTENDS Integers, FiniteSets

CONSTANTS
  Payload,       \* distinct batches; equal batches have equal dedupe keys
  KindOf,        \* the job kind each batch is queued under
  PayloadBytes,  \* encoded size of a batch's job, without an error text
  ErrorBytes,    \* what a stored last_error adds to that size
  NewKinds,      \* kinds that only an upgraded binary can handle
  Rejected,      \* batches every insert of which the database refuses
  Clients,       \* concurrent HTTP requests
  Backoff,       \* outbox.backoff as a function of the attempt number
  CountCap,      \* attempts and failures are not counted past this value
  DedupeTTL, DrainInterval, MaxAttempts, MaxBytes,
  MaxStamp,      \* bound: ranks of receipt times
  MaxJobs,       \* bound: jobs ever admitted
  MaxMishaps     \* bound: crashes, and commits that still report an error

Kinds == {"video.ingest", "radio.ingest", "analytics.rows", "varnish.snapshot"}
Priority == {"video.ingest", "radio.ingest"}
Stamps == 1..MaxStamp
Count == 0..CountCap

\* Traffic rows are inserted ON CONFLICT (played_at, log_hash) DO NOTHING;
\* analytics rows and varnish snapshots are plain inserts.
Idempotent == {"video.ingest", "radio.ingest"}

ASSUME OutboxAssumption ==
  /\ KindOf \in [Payload -> Kinds]
  /\ PayloadBytes \in [Payload -> Nat]
  /\ ErrorBytes \in Nat
  /\ NewKinds \subseteq Kinds
  /\ Rejected \subseteq Payload
  /\ CountCap \in Nat \ {0}
  /\ Backoff \in [1..CountCap -> Nat]
  /\ DedupeTTL \in Nat \ {0}
  /\ DrainInterval \in Nat \ {0}
  /\ MaxAttempts \in 0..CountCap
  /\ MaxBytes \in Nat
  /\ MaxStamp \in Nat
  /\ MaxJobs \in Nat
  /\ MaxMishaps \in Nat

VARIABLES
  pending, dead, \* buckets: key -> job
  dedupe,        \* bucket: batch -> [job, ttl]
  seq,           \* the pending bucket's bbolt sequence
  bytes,         \* meta "pending_bytes"
  request,       \* the batch each in-flight HTTP request carries, or NoRequest
  drainer,       \* the drainer goroutine
  failures,      \* Run's consecutive failed drains
  running,       \* the process is up
  draining,      \* it was started with OUTBOX_DRAIN=1
  known,         \* job kinds this binary can handle
  dbUp,          \* TimescaleDB reachable
  stored,        \* copies of each batch in TimescaleDB
  acked,         \* batches some client got HTTP 200 for
  admitted,      \* jobs ever created for each batch (history)
  mishaps        \* crashes and ambiguous commits so far (bound)

buckets == <<pending, dead, dedupe, seq, bytes>>
process == <<running, draining, known>>
observed == <<stored, acked, admitted, mishaps>>
vars == <<pending, dead, dedupe, seq, bytes, request, drainer, failures,
          running, draining, known, dbUp, stored, acked, admitted, mishaps>>

Key == Stamps \X (1..MaxJobs)
Job == [payload : Payload, attempts : Count, wait : Nat, err : BOOLEAN]
Entry == [job : Key, ttl : Nat]
NoRequest == [at |-> 0]
Request == [at : Stamps, payload : Payload]

\* The drainer's program counter, the key and the copy of the job it read,
\* what the handler returned, and the ticks left of sleepContext.
Idle == [pc |-> "poll"]
Asleep(d) == [pc |-> "asleep", sleep |-> d]
Handling(k, j) == [pc |-> "handling", key |-> k, job |-> j]
Returned(k, j, o) == [pc |-> "returned", key |-> k, job |-> j, outcome |-> o]
Outcomes == {"ok", "transient", "permanent"}

----------------------------------------------------------------------------
(* Buckets *)

Put(b, k, v) == [x \in DOMAIN b \cup {k} |-> IF x = k THEN v ELSE b[x]]
Without(b, ks) == [x \in DOMAIN b \ ks |-> b[x]]

\* makeOutboxKey: big-endian receipt time, then sequence number.
Before(k, l) == k[1] < l[1] \/ (k[1] = l[1] /\ k[2] < l[2])

EncodedSize(job) ==
  PayloadBytes[job.payload] + (IF job.err THEN ErrorBytes ELSE 0)

\* The encoded records of the jobs ks of bucket b, byte by byte, and their number.
Bytes(b, ks) == UNION {{k} \X (1..EncodedSize(b[k])) : k \in ks}
SizeOf(b, ks) == Cardinality(Bytes(b, ks))

\* addPendingBytes clamps the counter at zero.
AddBytes(delta) == IF bytes + delta < 0 THEN 0 ELSE bytes + delta

\* What the transactions subtract for the record now stored under k.
StoredSize(k) == IF k \in DOMAIN pending THEN EncodedSize(pending[k]) ELSE 0

Inc(n) == IF n < CountCap THEN n + 1 ELSE n
\* Mutant: an expired wait keeps counting.
DecPastZero(n) == n - 1
Dec(n) == IF n > 0 THEN n - 1 ELSE 0

----------------------------------------------------------------------------
Init ==
  /\ pending = <<>> /\ dead = <<>> /\ dedupe = <<>>
  /\ seq = 0 /\ bytes = 0
  /\ request = [c \in Clients |-> NoRequest]
  /\ drainer = Idle
  /\ failures = 0
  /\ running = TRUE
  /\ draining \in BOOLEAN
  /\ known \in {Kinds, Kinds \ NewKinds}
  /\ dbUp \in BOOLEAN
  /\ stored = [p \in Payload |-> 0]
  /\ acked = {}
  /\ admitted = [p \in Payload |-> 0]
  /\ mishaps = 0

----------------------------------------------------------------------------
(* HTTP requests: an ingest handler fixes the receipt time, then Enqueue   *)
(* runs one transaction.  The reply can be lost, so an accepted batch is   *)
(* acked or not; a client may send the same batch again at any time.       *)

Receive(c, p, at) ==
  /\ running
  /\ request[c] = NoRequest
  /\ request' = [request EXCEPT ![c] = [at |-> at, payload |-> p]]
  /\ UNCHANGED <<buckets, drainer, failures, process, dbUp, observed>>

LiveEntry(p) == p \in DOMAIN dedupe /\ dedupe[p].ttl > 0

NewJob(p) == [payload |-> p, attempts |-> 0, wait |-> 0, err |-> FALSE]

Fits(p) == MaxBytes > 0 => bytes + EncodedSize(NewJob(p)) <= MaxBytes

\* A live dedupe entry: nothing is written and the client still gets 200.
EnqueueDuplicate(c) ==
  /\ running
  /\ request[c] # NoRequest
  /\ LiveEntry(request[c].payload)
  /\ acked' \in {acked, acked \cup {request[c].payload}}
  /\ request' = [request EXCEPT ![c] = NoRequest]
  /\ UNCHANGED <<buckets, drainer, failures, process, dbUp, stored, admitted,
                 mishaps>>

\* ErrOutboxFull rolls the whole transaction back; the client gets 503.
EnqueueFull(c) ==
  /\ running
  /\ request[c] # NoRequest
  /\ ~LiveEntry(request[c].payload)
  /\ ~Fits(request[c].payload)
  /\ request' = [request EXCEPT ![c] = NoRequest]
  /\ UNCHANGED <<buckets, drainer, failures, process, dbUp, observed>>

EnqueueNew(c) ==
  LET p == request[c].payload
      key == <<request[c].at, seq + 1>>
  IN
  /\ running
  /\ seq < MaxJobs
  /\ request[c] # NoRequest
  /\ ~LiveEntry(p)
  /\ Fits(p)
  /\ seq' = seq + 1
  /\ pending' = Put(pending, key, NewJob(p))
  /\ bytes' = AddBytes(EncodedSize(NewJob(p)))
  /\ dedupe' = Put(dedupe, p, [job |-> key, ttl |-> DedupeTTL])
  /\ admitted' = [admitted EXCEPT ![p] = @ + 1]
  /\ acked' \in {acked, acked \cup {p}}
  /\ request' = [request EXCEPT ![c] = NoRequest]
  /\ UNCHANGED <<dead, drainer, failures, process, dbUp, stored, mishaps>>

----------------------------------------------------------------------------
(* The drainer *)

Due == {k \in DOMAIN pending : pending[k].wait = 0}
DuePriority == {k \in Due : KindOf[pending[k].payload] \in Priority}
\* Mutant: firstDue forgets its fallback job.
EligiblePriorityOnly == DuePriority
Eligible == IF DuePriority # {} THEN DuePriority ELSE Due

\* firstDue reads a copy of the first eligible job in key order.
FetchDue ==
  /\ running /\ draining /\ drainer.pc = "poll"
  /\ \E k \in Eligible :
       /\ \A l \in Eligible \ {k} : Before(k, l)
       /\ drainer' = Handling(k, pending[k])
  /\ UNCHANGED <<buckets, request, failures, process, dbUp, observed>>

NothingDue ==
  /\ running /\ draining /\ drainer.pc = "poll"
  /\ Due = {}
  /\ drainer' = Asleep(DrainInterval)
  /\ UNCHANGED <<buckets, request, failures, process, dbUp, observed>>

Wake ==
  /\ running /\ drainer.pc = "asleep"
  /\ drainer.sleep = 0
  /\ drainer' = Idle
  /\ UNCHANGED <<buckets, request, failures, process, dbUp, observed>>

HandlerReturns(outcome) ==
  drainer' = Returned(drainer.key, drainer.job, outcome)

Commit(p) ==
  stored' = [stored EXCEPT ![p] = IF KindOf[p] \in Idempotent THEN 1 ELSE @ + 1]

\* The insert commits and the handler returns nil.
HandleOk ==
  /\ running /\ drainer.pc = "handling"
  /\ LET p == drainer.job.payload IN
       /\ KindOf[p] \in known
       /\ dbUp /\ p \notin Rejected
       /\ Commit(p)
  /\ HandlerReturns("ok")
  /\ UNCHANGED <<buckets, request, failures, process, dbUp, acked, admitted,
                 mishaps>>

\* The insert commits but the handler's context ends before it hears so.
HandleAmbiguous ==
  /\ running /\ drainer.pc = "handling"
  /\ mishaps < MaxMishaps
  /\ LET p == drainer.job.payload IN
       /\ KindOf[p] \in known
       /\ dbUp /\ p \notin Rejected
       /\ Commit(p)
  /\ mishaps' = mishaps + 1
  /\ HandlerReturns("transient")
  /\ UNCHANGED <<buckets, request, failures, process, dbUp, acked, admitted>>

\* The database is away (or the context was cancelled while it looked so), or
\* it refuses these rows: a plain, retryable error.
HandleError ==
  /\ running /\ drainer.pc = "handling"
  /\ KindOf[drainer.job.payload] \in known
  /\ ~dbUp \/ drainer.job.payload \in Rejected
  /\ HandlerReturns("transient")
  /\ UNCHANGED <<buckets, request, failures, process, dbUp, observed>>

\* permanentJob: this binary does not know the kind or cannot decode it.
HandlePermanent ==
  /\ running /\ drainer.pc = "handling"
  /\ KindOf[drainer.job.payload] \notin known
  /\ HandlerReturns("permanent")
  /\ UNCHANGED <<buckets, request, failures, process, dbUp, observed>>

\* Mutants: the job is deleted whatever the handler returned, or never.
MarkDoneAlways ==
  /\ running /\ drainer.pc = "returned" /\ drainer.outcome # "permanent"
  /\ bytes' = AddBytes(-StoredSize(drainer.key))
  /\ pending' = Without(pending, {drainer.key})
  /\ drainer' = Idle
  /\ failures' = 0
  /\ UNCHANGED <<dead, dedupe, seq, request, process, dbUp, observed>>

MarkDoneKeepsJob ==
  /\ running /\ drainer.pc = "returned" /\ drainer.outcome = "ok"
  /\ drainer' = Idle
  /\ failures' = 0
  /\ UNCHANGED <<buckets, request, process, dbUp, observed>>

MarkDone ==
  /\ running /\ drainer.pc = "returned" /\ drainer.outcome = "ok"
  /\ bytes' = AddBytes(-StoredSize(drainer.key))
  /\ pending' = Without(pending, {drainer.key})
  /\ drainer' = Idle
  /\ failures' = 0
  /\ UNCHANGED <<dead, dedupe, seq, request, process, dbUp, observed>>

\* Mutant: off by one.
ExhaustedEarly(attempts) == MaxAttempts > 0 /\ attempts + 1 >= MaxAttempts
Exhausted(attempts) == MaxAttempts > 0 /\ attempts >= MaxAttempts

\* Mutants of the three writes of the transaction below: the job is not put
\* into dead, not deleted from pending, or keeps its dedupe key.
DeadLetter(deadNow, pendingNow, dedupeNow) ==
  /\ running /\ drainer.pc = "returned"
  /\ \/ drainer.outcome = "permanent"
     \/ drainer.outcome = "transient" /\ Exhausted(Inc(drainer.job.attempts))
  /\ dead' = deadNow /\ pending' = pendingNow /\ dedupe' = dedupeNow
  /\ bytes' = AddBytes(-StoredSize(drainer.key))
  /\ drainer' = Idle /\ failures' = 0
  /\ UNCHANGED <<seq, request, process, dbUp, observed>>
DeadJob == [drainer.job EXCEPT !.attempts = Inc(@), !.wait = 0, !.err = TRUE]
MarkDeadDropsJob ==
  DeadLetter(dead, Without(pending, {drainer.key}),
             Without(dedupe, {drainer.job.payload}))
MarkDeadKeepsPending ==
  DeadLetter(Put(dead, drainer.key, DeadJob), pending,
             Without(dedupe, {drainer.job.payload}))
MarkDeadKeepsDedupe ==
  DeadLetter(Put(dead, drainer.key, DeadJob), Without(pending, {drainer.key}),
             dedupe)

\* One transaction moves the job to dead and frees its dedupe key, whichever
\* job that key now names.
MarkDead ==
  LET job == [drainer.job EXCEPT !.attempts = Inc(@), !.wait = 0, !.err = TRUE]
  IN
  /\ running /\ drainer.pc = "returned"
  /\ \/ drainer.outcome = "permanent"
     \/ drainer.outcome = "transient" /\ Exhausted(job.attempts)
  /\ dead' = Put(dead, drainer.key, job)
  /\ bytes' = AddBytes(-StoredSize(drainer.key))
  /\ pending' = Without(pending, {drainer.key})
  /\ dedupe' = Without(dedupe, {job.payload})
  /\ drainer' = Idle
  /\ failures' = 0
  /\ UNCHANGED <<seq, request, process, dbUp, observed>>

\* Mutant: the stored record grows by its error text, the counter does not.
RecordFailureUncounted ==
  LET n == Inc(drainer.job.attempts)
      job == [drainer.job EXCEPT !.attempts = n, !.wait = Backoff[n],
                                 !.err = TRUE]
  IN
  /\ running /\ drainer.pc = "returned" /\ drainer.outcome = "transient"
  /\ ~Exhausted(n)
  /\ pending' = Put(pending, drainer.key, job)
  /\ failures' = Inc(failures)
  /\ drainer' = Asleep(Backoff[Inc(failures)])
  /\ UNCHANGED <<dead, dedupe, seq, bytes, request, process, dbUp, observed>>

\* The job stays pending with its own backoff, and the whole drainer sleeps
\* for the backoff of its consecutive failures.
RecordFailure ==
  LET n == Inc(drainer.job.attempts)
      job == [drainer.job EXCEPT !.attempts = n, !.wait = Backoff[n],
                                 !.err = TRUE]
  IN
  /\ running /\ drainer.pc = "returned" /\ drainer.outcome = "transient"
  /\ ~Exhausted(n)
  /\ bytes' = IF drainer.key \in DOMAIN pending
                THEN AddBytes(EncodedSize(job) - StoredSize(drainer.key))
                ELSE bytes
  /\ pending' = Put(pending, drainer.key, job)
  /\ failures' = Inc(failures)
  /\ drainer' = Asleep(Backoff[Inc(failures)])
  /\ UNCHANGED <<dead, dedupe, seq, request, process, dbUp, observed>>

\* Run calls it between two drains, about once an hour.
CleanupDedupe ==
  /\ running /\ draining /\ drainer.pc = "poll"
  /\ dedupe' = Without(dedupe, {p \in DOMAIN dedupe : dedupe[p].ttl = 0})
  /\ UNCHANGED <<pending, dead, seq, bytes, request, drainer, failures, process,
                 dbUp, observed>>

----------------------------------------------------------------------------
(* POST /replayOutboxDead?limit=n: the first n dead jobs become pending    *)
(* again in one transaction.  "last" names, for each batch replayed, the   *)
(* last of its jobs, whose dedupe entry overwrites the others'.            *)

Replayed(job) == [job EXCEPT !.attempts = 0, !.wait = 0, !.err = FALSE]

ReplayDead(ks, last) ==
  LET back == [k \in ks |-> Replayed(dead[k])] IN
  /\ running
  /\ ks # {}
  /\ \A k \in ks, l \in DOMAIN dead \ ks : Before(k, l)
  /\ \A p \in DOMAIN last : \A k \in ks :
       dead[k].payload = p => k = last[p] \/ Before(k, last[p])
  /\ \A p \in DOMAIN last : dead[last[p]].payload = p
  /\ pending' = [k \in DOMAIN pending \cup ks |->
                   IF k \in ks THEN back[k] ELSE pending[k]]
  /\ dead' = Without(dead, ks)
  /\ bytes' = AddBytes(SizeOf(back, ks))
  /\ dedupe' = [p \in DOMAIN dedupe \cup DOMAIN last |->
                  IF p \in DOMAIN last THEN [job |-> last[p], ttl |-> DedupeTTL]
                                       ELSE dedupe[p]]
  /\ UNCHANGED <<seq, request, drainer, failures, process, dbUp, observed>>

ReplaySome ==
  \E ks \in SUBSET DOMAIN dead :
    \E last \in [{dead[k].payload : k \in ks} -> ks] : ReplayDead(ks, last)

----------------------------------------------------------------------------
(* The environment *)

Tick ==
  /\ pending' = [k \in DOMAIN pending |-> [pending[k] EXCEPT !.wait = Dec(@)]]
  /\ dedupe' = [p \in DOMAIN dedupe |-> [dedupe[p] EXCEPT !.ttl = Dec(@)]]
  /\ drainer' = IF drainer.pc = "asleep" THEN Asleep(Dec(drainer.sleep))
                                         ELSE drainer
  /\ UNCHANGED <<dead, seq, bytes, request, failures, process, dbUp, observed>>

\* The process ends, killed or by SIGTERM: main closes the outbox without
\* waiting for the drainer, so a handler that has returned is not marked.
Crash ==
  /\ running
  /\ mishaps < MaxMishaps
  /\ mishaps' = mishaps + 1
  /\ running' = FALSE
  /\ draining' = FALSE
  /\ drainer' = Idle
  /\ failures' = 0
  /\ request' = [c \in Clients |-> NoRequest]
  /\ UNCHANGED <<buckets, known, dbUp, stored, acked, admitted>>

\* newOutbox reopens the same file; the binary may be newer.
Start ==
  /\ ~running
  /\ running' = TRUE
  /\ draining' \in BOOLEAN
  /\ known' \in {known, Kinds}
  /\ UNCHANGED <<buckets, request, drainer, failures, dbUp, observed>>

DbDown == dbUp /\ dbUp' = FALSE
          /\ UNCHANGED <<buckets, request, drainer, failures, process, observed>>
DbBack == ~dbUp /\ dbUp' = TRUE
          /\ UNCHANGED <<buckets, request, drainer, failures, process, observed>>

----------------------------------------------------------------------------
Enqueue(c) == EnqueueDuplicate(c) \/ EnqueueFull(c) \/ EnqueueNew(c)
Handler == HandleOk \/ HandleAmbiguous \/ HandleError \/ HandlePermanent
Mark == MarkDone \/ MarkDead \/ RecordFailure

Next ==
  \/ \E c \in Clients, p \in Payload, at \in Stamps : Receive(c, p, at)
  \/ \E c \in Clients : Enqueue(c)
  \/ FetchDue \/ NothingDue \/ Wake
  \/ Handler
  \/ Mark
  \/ CleanupDedupe
  \/ ReplaySome
  \/ Tick \/ Crash \/ Start \/ DbDown \/ DbBack

Spec == Init /\ [][Next]_vars

\* The Go scheduler runs the drainer goroutine, the clock advances, the
\* container restarts.  Clients, operators and the database owe nothing.
Fairness ==
  /\ WF_vars(FetchDue) /\ WF_vars(NothingDue) /\ WF_vars(Wake)
  /\ WF_vars(Handler) /\ WF_vars(Mark)
  /\ WF_vars(Tick) /\ WF_vars(Start)

FairSpec == Spec /\ Fairness

----------------------------------------------------------------------------
(* Properties *)

IsBucket(b, K, V) ==
  /\ b = [k \in DOMAIN b |-> b[k]]
  /\ DOMAIN b \subseteq K
  /\ \A k \in DOMAIN b : b[k] \in V

InHand == drainer.pc \in {"handling", "returned"}

DrainerOK ==
  \/ drainer = Idle
  \/ drainer.pc = "asleep" /\ drainer = Asleep(drainer.sleep) /\ drainer.sleep \in Nat
  \/ drainer.pc = "handling" /\ drainer = Handling(drainer.key, drainer.job)
  \/ drainer.pc = "returned" /\ drainer.outcome \in Outcomes
     /\ drainer = Returned(drainer.key, drainer.job, drainer.outcome)

\* Every bucket maps keys of its own kind to whole records, and the volatile
\* state of the goroutines has its shape.  (bytes is BytesAccounted's.)
TypeOK ==
  /\ IsBucket(pending, Key, Job)
  /\ IsBucket(dead, Key, Job)
  /\ IsBucket(dedupe, Payload, Entry)
  /\ seq \in 0..MaxJobs
  /\ request \in [Clients -> Request \cup {NoRequest}]
  /\ DrainerOK
  /\ InHand => drainer.key \in Key /\ drainer.job \in Job
  /\ failures \in Count
  /\ running \in BOOLEAN /\ draining \in BOOLEAN /\ dbUp \in BOOLEAN
  /\ known \subseteq Kinds
  /\ stored \in [Payload -> Nat]
  /\ acked \subseteq Payload
  /\ admitted \in [Payload -> Nat]
  /\ mishaps \in 0..MaxMishaps

HeldJobs(p) == {k \in DOMAIN pending : pending[k].payload = p}
               \cup {k \in DOMAIN dead : dead[k].payload = p}
Held == {p \in Payload : HeldJobs(p) # {}}
Delivered == {p \in Payload : stored[p] > 0}

\* A batch some client got HTTP 200 for is in TimescaleDB or still in the
\* outbox, whatever crashes, expiries, replays and duplicates came between:
\* the edge answers for the batch because the agent then drops its copy.
NoLostAck == acked \subseteq Held \cup Delivered

\* A dedupe entry stands for a batch that is being taken care of: its job is
\* pending or was delivered, never only in the dead-letter bucket, where it
\* would answer "duplicate" to the client that sends the batch again.
DedupeBacked ==
  \A p \in DOMAIN dedupe :
    \/ p \in Delivered
    \/ dedupe[p].job \in DOMAIN pending /\ pending[dedupe[p].job].payload = p

\* A job has one home, keys are never reused, and the job the drainer is
\* working on outside any transaction is still pending, exactly as it read it.
OneHome ==
  /\ DOMAIN pending \cap DOMAIN dead = {}
  /\ \A k \in DOMAIN pending \cup DOMAIN dead : k[2] <= seq
  /\ InHand => /\ drainer.key \in DOMAIN pending
               /\ drainer.job = pending[drainer.key]
               /\ drainer.job.wait = 0

\* The running byte counter that admission control reads is the size of what
\* is really pending, through retries that grow a record and dead-letter moves.
BytesAccounted == bytes = SizeOf(pending, DOMAIN pending)

\* Every copy of a batch in TimescaleDB beyond one per job it was admitted as
\* is the doing of a crash or of a commit that reported an error; a traffic
\* batch has one copy at most.
CopiesAccounted ==
  \A p \in Payload :
    /\ stored[p] <= admitted[p] + mishaps
    /\ KindOf[p] \in Idempotent => stored[p] <= 1

\* A job is dead-lettered only for a kind this binary cannot handle or after
\* the configured number of attempts: with OUTBOX_MAX_ATTEMPTS=0 an outage,
\* however long, dead-letters nothing.
DeadLettersJustified ==
  [][\A k \in DOMAIN dead' \ DOMAIN dead :
       \/ KindOf[dead'[k].payload] \notin known
       \/ MaxAttempts > 0 /\ dead'[k].attempts = MaxAttempts]_vars

\* The outbox implements an at-least-once queue of batches.
AtLeastOnce == INSTANCE AtLeastOnce WITH held <- Held, delivered <- Delivered
ImplementsAtLeastOnce == AtLeastOnce!Spec

\* Once TimescaleDB stays reachable and the process stays up with its drainer,
\* every pending batch the database accepts reaches it, unless its job is
\* dead-lettered: whatever the failures before, however long the backoffs.
DrainsAfterOutage ==
  <>[](dbUp /\ running /\ draining) =>
    \A p \in Payload \ Rejected :
      (\E k \in DOMAIN pending : pending[k].payload = p)
        ~> (stored[p] > 0 \/ \E k \in DOMAIN dead : dead[k].payload = p)
=============================================================================
