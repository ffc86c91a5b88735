------------------------------ MODULE Traffic -------------------------------
(***************************************************************************)
(* How log rows reach TimescaleDB (gofn/traffic.go, salttv_traffic.go,     *)
(* analytics.go, ads.go): the direct insert of a batch, which is also what *)
(* an outbox job runs.  The advertiser and the title of each record are    *)
(* resolved from two tables that are cached under a mutex each; the rows   *)
(* are then inserted in chunks, and a row that is already there is left    *)
(* alone.  Analytics rows and ad events are inserted by one statement with *)
(* no key.  Agents send a batch again until it is accepted.                *)
(***************************************************************************)
EXTENDS TsdbConn, Sequences, SequencesExt

CONSTANTS
  Radio,       \* requests and jobs with a StationPlaylist batch
  Video,       \* those with a vMix batch
  Webhooks,    \* calls of the StationPlaylist webhook
  Plain,       \* analytics and ad-event batches
  Batches,     \* sequences of records they may bring
  ChunkSize,   \* 100 in the code
  Versions     \* bound: contents of a rule table, 0 when it is empty

Requests == Radio \cup Video \cup Webhooks \cup Plain
Tables == {"rules", "titles"}

ASSUME TrafficAssumption ==
  /\ Callers = Requests
  /\ \A b \in Batches : b \in Seq(UNION {ToSet(c) : c \in Batches})
  /\ ChunkSize \in Nat \ {0}
  /\ Versions \in Nat

VARIABLES
  content,   \* what the rule tables hold: a version, or 0
  cached,    \* trafficRules and titleOverrides: a version, or 0 for nil
  fresh,     \* the cached version has not expired
  lock,      \* holders of trafficRulesMu and titleOverridesMu
  req,       \* each request's progress
  stored,    \* the rows of the two logs
  copies,    \* how often the rows of a plain batch are stored
  deprived,  \* a fetch of the advertiser rules failed or found none
  unsure     \* inserts whose outcome the server did not learn

trafficVars ==
  <<content, cached, fresh, lock, req, stored, copies, deprived, unsure>>

Nobody == <<"unassigned", 0>>
Begun(pc, b) == [pc |-> pc, batch |-> b, rows |-> <<>>, client |-> Nobody, next |-> 1]
Answers == {"ok", "error", "rejected"}

TrafficInit ==
  /\ content \in [Tables -> 0..Versions]
  /\ cached = [t \in Tables |-> 0]
  /\ fresh = [t \in Tables |-> FALSE]
  /\ lock = [t \in Tables |-> Free]
  /\ req = [r \in Requests |-> Begun("idle", <<>>)]
  /\ stored = {}
  /\ copies = [r \in Plain |-> 0]
  /\ deprived = FALSE
  /\ unsure = 0

In(r, pc) == req[r].pc = pc
Move(r, pc) == req' = [req EXCEPT ![r].pc = pc]
AskConn(r) == at' = [at EXCEPT ![r] = "waiting"]
LeaveConn(r) == at' = [at EXCEPT ![r] = "away"]
connRest == <<dbUp, connected, mu, probe>>

----------------------------------------------------------------------------
(* Who the advertiser is *)

\* What a record offers: the agent's own client, a rule of the table, a pattern
\* of the built-in list (version 0), a file name "Client - Ad".
Named(rec, rules) ==
  (rec.offers \cap {"explicit", "filename"}) \cup
  (IF (IF rules = 0 THEN "builtin" ELSE "table") \in rec.offers THEN {"rules"} ELSE {})

Precedence(r) ==
  IF r \in Video THEN <<"rules", "filename", "explicit">>
                 ELSE <<"explicit", "rules", "filename">>

\* Nobody is named: "Other Advert" or "Unassigned".
Client(r, rec, rules) ==
  LET ranks == {i \in 1..3 : Precedence(r)[i] \in Named(rec, rules)}
      first == Precedence(r)[Min(ranks)]
  IN  IF ranks = {} THEN Nobody
      ELSE <<first, IF first = "rules" THEN rules ELSE 0>>

\* For radio a client of the agent's own needs no rules.
NeedsRules(r, rec) == r \in Video \/ "explicit" \notin rec.offers

----------------------------------------------------------------------------
(* Arrival *)

\* The webhook ignores what is no advert, and an upload keeps the adverts of a
\* radio log and the complete lines of a TV log.
Kept(r, b) ==
  SelectSeq(b, LAMBDA rec : IF r \in Video THEN "complete" \in rec.is
                                           ELSE "advert" \in rec.is)

Accepted(r) ==
  CASE r \in Webhooks -> {Kept(r, b) : b \in {c \in Batches : Len(c) = 1}}
    [] r \in Plain -> Batches
    [] OTHER -> Batches \cup {Kept(r, b) : b \in Batches}

\* What is kept of a batch is one that may come by itself.
ASSUME KeptAssumption == \A r \in Requests, b \in Batches : Kept(r, b) \in Batches

\* An empty batch is an error for analytics, and done for the others.
Receive(r, b) ==
  /\ In(r, "idle")
  /\ b \in Accepted(r)
  /\ req' = [req EXCEPT ![r] =
       Begun(IF b # <<>> THEN IF r \in Plain THEN "insert" ELSE "record"
             ELSE IF r \in Plain THEN "rejected" ELSE "ok", b)]
  /\ UNCHANGED <<content, cached, fresh, lock, stored, copies, deprived, unsure>>
  /\ UNCHANGED connVars

\* The agent, or the drainer of the outbox, tries the same batch again.
Resend(r) ==
  /\ In(r, "error")
  /\ r \notin Webhooks
  /\ req' = [req EXCEPT ![r] =
       Begun(IF r \in Plain THEN "insert" ELSE "record", req[r].batch)]
  /\ UNCHANGED <<content, cached, fresh, lock, stored, copies, deprived, unsure>>
  /\ UNCHANGED connVars

----------------------------------------------------------------------------
(* Resolution, record by record *)

\* A record without a readable time is skipped.  After the last one the rows
\* are inserted, if there are any.
NextRecord(r) ==
  /\ In(r, "record")
  /\ LET q == req[r]
         rec == q.batch[q.next]
     IN  req' = [req EXCEPT ![r] =
           IF q.next > Len(q.batch)
           THEN [q EXCEPT !.pc = IF q.rows = <<>> THEN "ok" ELSE "insert", !.next = 1]
           ELSE IF "readable" \notin rec.is THEN [q EXCEPT !.next = @ + 1]
           ELSE IF NeedsRules(r, rec) THEN [q EXCEPT !.pc = "rules"]
           ELSE [q EXCEPT !.pc = "titles", !.client = Client(r, rec, 0)]]
  /\ UNCHANGED <<content, cached, fresh, lock, stored, copies, deprived, unsure>>
  /\ UNCHANGED connVars

Log(r) == IF r \in Video THEN "video" ELSE "radio"

\* With the rules the client is known; with the overrides the row is complete.
Resolved(r, t, version) ==
  LET q == req[r]
      rec == q.batch[q.next]
      title == IF "retitled" \in rec.is THEN version ELSE 0
  IN  req' = [req EXCEPT ![r] =
        IF t = "rules"
        THEN [q EXCEPT !.pc = "titles", !.client = Client(r, rec, version)]
        ELSE [q EXCEPT !.pc = "record", !.next = @ + 1,
                       !.rows = Append(@, [key |-> <<Log(r), rec.id>>,
                                           client |-> q.client, title |-> title])]]

LoadCached(r, t) ==
  /\ In(r, t)
  /\ lock[t] = Free
  /\ fresh[t] /\ cached[t] # 0
  /\ Resolved(r, t, cached[t])
  /\ UNCHANGED <<content, cached, fresh, lock, stored, copies, deprived, unsure>>
  /\ UNCHANGED connVars

\* The mutex of the table stays locked for the whole fetch.
LoadLock(r, t) ==
  /\ In(r, t)
  /\ lock[t] = Free
  /\ ~(fresh[t] /\ cached[t] # 0)
  /\ lock' = [lock EXCEPT ![t] = r]
  /\ AskConn(r)
  /\ UNCHANGED <<content, cached, fresh, req, stored, copies, deprived, unsure>>
  /\ UNCHANGED <<connRest, faults>>

\* Mutants: an empty rule table replaces the rules; the mutex of a fetch that
\* fails stays locked.
FetchReturnsEmpty(r, t) ==
  /\ In(r, t) /\ lock[t] = r /\ at[r] = "has" /\ dbUp
  /\ cached' = [cached EXCEPT ![t] = content[t]]
  /\ fresh' = [fresh EXCEPT ![t] = TRUE]
  /\ Resolved(r, t, content[t])
  /\ lock' = [lock EXCEPT ![t] = Free]
  /\ LeaveConn(r)
  /\ UNCHANGED <<content, stored, copies, deprived, unsure, connRest, faults>>

\* Rules are kept when the table is empty, the overrides are not.
FetchReturns(r, t) ==
  /\ In(r, t) /\ lock[t] = r /\ at[r] = "has" /\ dbUp
  /\ LET none == t = "rules" /\ content[t] = 0
     IN  /\ cached' = [cached EXCEPT ![t] = IF none THEN @ ELSE content[t]]
         /\ fresh' = [fresh EXCEPT ![t] = IF none THEN @ ELSE TRUE]
         /\ deprived' = (deprived \/ none)
  /\ Resolved(r, t, cached'[t])
  /\ lock' = [lock EXCEPT ![t] = Free]
  /\ LeaveConn(r)
  /\ UNCHANGED <<content, stored, copies, unsure, connRest, faults>>

FetchFailsLocked(r, t) ==
  /\ In(r, t) /\ lock[t] = r
  /\ at[r] = "refused" \/ at[r] = "has"
  /\ FaultIf(at[r] = "refused" \/ ~dbUp)
  /\ deprived' = (deprived \/ t = "rules")
  /\ Resolved(r, t, cached[t])
  /\ LeaveConn(r)
  /\ UNCHANGED <<content, cached, fresh, lock, stored, copies, unsure, connRest>>

\* No connection, or a failing query: the last good version, expired or not,
\* or the built-in list.
FetchFails(r, t) ==
  /\ In(r, t) /\ lock[t] = r
  /\ at[r] = "refused" \/ at[r] = "has"
  /\ FaultIf(at[r] = "refused" \/ ~dbUp)
  /\ deprived' = (deprived \/ t = "rules")
  /\ Resolved(r, t, cached[t])
  /\ lock' = [lock EXCEPT ![t] = Free]
  /\ LeaveConn(r)
  /\ UNCHANGED <<content, cached, fresh, stored, copies, unsure, connRest>>

----------------------------------------------------------------------------
(* Insertion *)

InsertAsk(r) ==
  /\ In(r, "insert")
  /\ at[r] = "away"
  /\ AskConn(r)
  /\ UNCHANGED trafficVars
  /\ UNCHANGED <<connRest, faults>>

Chunk(r) ==
  SubSeq(req[r].rows, req[r].next, Min({req[r].next + ChunkSize - 1, Len(req[r].rows)}))
LastChunk(r) == r \in Plain \/ req[r].next + ChunkSize > Len(req[r].rows)

\* Mutant: ON CONFLICT DO UPDATE.
StoreChunkOver(r) ==
  /\ LET keys == {row.key : row \in ToSet(Chunk(r))}
     IN  stored' = {row \in stored : row.key \notin keys} \cup ToSet(Chunk(r))
  /\ copies' = copies

\* One statement: the rows of a chunk whose key is new, or a plain batch.
StoreChunk(r) ==
  IF r \in Plain
  THEN stored' = stored /\ copies' = [copies EXCEPT ![r] = @ + 1]
  ELSE /\ stored' = stored \cup
            {Chunk(r)[i] : i \in {j \in DOMAIN Chunk(r) :
               /\ \A row \in stored : row.key # Chunk(r)[j].key
               /\ \A h \in 1..(j - 1) : Chunk(r)[h].key # Chunk(r)[j].key}}
       /\ copies' = copies

\* Mutant: the batch is answered for after its first chunk.
InsertChunkOnce(r) ==
  /\ In(r, "insert") /\ at[r] = "has" /\ dbUp
  /\ StoreChunk(r)
  /\ Move(r, "ok")
  /\ LeaveConn(r)
  /\ UNCHANGED <<content, cached, fresh, lock, deprived, unsure, connRest, faults>>

InsertChunk(r) ==
  /\ In(r, "insert") /\ at[r] = "has" /\ dbUp
  /\ StoreChunk(r)
  /\ IF LastChunk(r)
     THEN Move(r, "ok") /\ LeaveConn(r)
     ELSE req' = [req EXCEPT ![r].next = @ + ChunkSize] /\ at' = at
  /\ UNCHANGED <<content, cached, fresh, lock, deprived, unsure, connRest, faults>>

\* The batch is refused although earlier chunks are stored.  The webhook looks
\* at the connection's error only.
InsertFails(r) ==
  /\ In(r, "insert")
  /\ at[r] = "refused" \/ at[r] = "has"
  /\ FaultIf(at[r] = "refused" \/ ~dbUp)
  /\ Move(r, IF r \in Webhooks /\ at[r] = "has" THEN "ok" ELSE "error")
  /\ LeaveConn(r)
  /\ unsure' = IF r \in Webhooks /\ at[r] = "has" THEN unsure + 1 ELSE unsure
  /\ UNCHANGED <<content, cached, fresh, lock, stored, copies, deprived, connRest>>

\* The statement commits, but its answer does not arrive in time.
InsertUnsure(r) ==
  /\ In(r, "insert") /\ at[r] = "has" /\ dbUp
  /\ Fault
  /\ StoreChunk(r)
  /\ Move(r, IF r \in Webhooks THEN "ok" ELSE "error")
  /\ LeaveConn(r)
  /\ unsure' = unsure + 1
  /\ UNCHANGED <<content, cached, fresh, lock, deprived, connRest>>

----------------------------------------------------------------------------
Expire(t) ==
  /\ fresh[t]
  /\ fresh' = [fresh EXCEPT ![t] = FALSE]
  /\ UNCHANGED <<content, cached, lock, req, stored, copies, deprived, unsure>>
  /\ UNCHANGED connVars

\* Operators edit the tables by SQL.
Edit(t, v) ==
  /\ content[t] # v
  /\ content' = [content EXCEPT ![t] = v]
  /\ UNCHANGED <<cached, fresh, lock, req, stored, copies, deprived, unsure>>
  /\ UNCHANGED connVars

Load(r) == \E t \in Tables :
  LoadCached(r, t) \/ LoadLock(r, t) \/ FetchReturns(r, t) \/ FetchFails(r, t)
Insert(r) == InsertAsk(r) \/ InsertChunk(r) \/ InsertFails(r) \/ InsertUnsure(r)
Work(r) == NextRecord(r) \/ Load(r) \/ Insert(r)

TrafficNext ==
  \/ \E r \in Requests : Work(r) \/ Resend(r) \/ \E b \in Accepted(r) : Receive(r, b)
  \/ \E t \in Tables : Expire(t) \/ \E v \in 0..Versions : Edit(t, v)
  \/ ConnNext /\ UNCHANGED trafficVars

TrafficSpec == TrafficInit /\ ConnInit /\ [][TrafficNext]_<<trafficVars, connVars>>

\* Goroutines run, and a Go mutex starves nobody; agents try again; the database
\* comes back.
TrafficFairness ==
  /\ \A r \in Requests :
       /\ WF_<<trafficVars, connVars>>(Work(r) \/ Resend(r))
       /\ SF_<<trafficVars, connVars>>(ConnStep(r) /\ UNCHANGED trafficVars)
  /\ \A p \in Probes : WF_<<trafficVars, connVars>>(ProbeEnd(p) /\ UNCHANGED trafficVars)
  /\ WF_<<trafficVars, connVars>>(DbBack /\ UNCHANGED trafficVars)

----------------------------------------------------------------------------
(* Properties *)

RowTypes == [key : {"radio", "video"} \X UNION {{b[i].id : i \in DOMAIN b} : b \in Batches},
             client : {"explicit", "rules", "filename", "unassigned"} \X (0..Versions),
             title : 0..Versions]

\* Every variable has its type; the mutex of a rule table is held by a request
\* that is loading that table (loadClientRules, loadTitleOverrides).
TrafficTypeOK ==
  /\ content \in [Tables -> 0..Versions]
  /\ cached \in [Tables -> 0..Versions]
  /\ fresh \in [Tables -> BOOLEAN]
  /\ \A t \in Tables : lock[t] # Free => In(lock[t], t) /\ at[lock[t]] # "away"
  /\ \A r \in Requests : req[r].pc \in {"idle", "record", "insert"} \cup Tables \cup Answers
  /\ \A r \in Requests : ToSet(req[r].rows) \subseteq RowTypes
  /\ stored \subseteq RowTypes
  /\ copies \in [Plain -> 0..(MaxFaults + 1)]
  /\ deprived \in BOOLEAN
  /\ unsure \in Nat /\ (unsure > 0 => faults > 0)

\* Every variable has its type, and the three mutexes their rightful holders.
IngestTypeOK == ConnTypeOK /\ TrafficTypeOK

\* A spot is filed under the built-in list of advertisers only if the rules of
\* the database could not be read, or were none, at some time: neither expiry,
\* nor a failing fetch while good rules are cached, nor concurrent loads do it.
BuiltinNeedsDeprivation ==
  \A row \in stored : row.client = <<"rules", 0>> => deprived

\* What was accepted is stored: every readable record of an accepted batch,
\* through retries of batches of which some chunks were stored.  Only a webhook
\* call may be lost, and only when its insert failed (the error is discarded).
AcceptedIsStored ==
  \A r \in Requests :
    In(r, "ok") =>
      \/ r \in Webhooks /\ unsure > 0
      \/ IF r \in Plain THEN copies[r] >= 1
         ELSE \A i \in DOMAIN req[r].batch :
                "readable" \in req[r].batch[i].is =>
                  \E row \in stored : row.key = <<Log(r), req[r].batch[i].id>>

\* Batches that are sent again, overlap or fail between two chunks store each
\* aired spot once, and what is stored is final: no retry, however much later
\* and with whatever rules, adds a second row of the spot, rewrites the row or
\* removes it (the ON CONFLICT clauses of insertTrafficRecords and of
\* insertVideoTrafficRecords).
SpotsOnceAndFinal ==
  [][ /\ stored \subseteq stored'
      /\ \A x, y \in stored' : x.key = y.key => x = y ]_<<trafficVars, connVars>>

\* Every batch is stored or rejected at last, and every webhook call answered: no
\* mutex is held for good, no matter which dials, fetches and inserts fail.
Busy(r) == req[r].pc \notin {"idle", "ok", "rejected"} /\ ~(r \in Webhooks /\ In(r, "error"))
EveryBatchStored == (\E r \in Requests : Busy(r)) ~> (\A r \in Requests : ~Busy(r))
=============================================================================
