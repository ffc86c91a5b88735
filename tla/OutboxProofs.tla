---------------------------- MODULE OutboxProofs ----------------------------
(***************************************************************************)
(* Machine-checked proofs about Outbox, for every value of its constants:  *)
(* its types, that no acknowledged batch is lost, that a dedupe entry      *)
(* stands for a batch that is taken care of, that the outbox implements    *)
(* the abstract at-least-once queue, that the byte counter of admission    *)
(* control is exact, that every copy in the database is accounted for, and *)
(* that a dead letter is justified.                                        *)
(***************************************************************************)
EXTENDS Outbox, FiniteSetTheorems, TLAPS

USE OutboxAssumption

\* A handler that returned nil has put the batch into TimescaleDB: what lets
\* MarkDone forget the job.
OkMeansStored ==
  drainer.pc = "returned" /\ drainer.outcome = "ok"
    => drainer.job.payload \in Delivered

\* The inductive invariant.
IInv ==
  /\ TypeOK
  /\ OneHome
  /\ DedupeBacked
  /\ OkMeansStored
  /\ NoLostAck

(***************************************************************************)
(* Lemmas about the bucket operators                                       *)
(***************************************************************************)

\* Put keeps a bucket a bucket.
LEMMA PutBucket ==
  ASSUME NEW K, NEW V, NEW b, IsBucket(b, K, V), NEW k \in K, NEW v \in V
  PROVE  IsBucket(Put(b, k, v), K, V)
BY DEF IsBucket, Put

\* Without keeps a bucket a bucket.
LEMMA WithoutBucket ==
  ASSUME NEW K, NEW V, NEW b, IsBucket(b, K, V), NEW ks
  PROVE  IsBucket(Without(b, ks), K, V)
BY DEF IsBucket, Without

\* Counters stay within CountCap, timers within Nat.
LEMMA Counting ==
  /\ \A n \in Count : Inc(n) \in Count /\ Inc(n) \in 1..CountCap
  /\ \A n \in Nat : Dec(n) \in Nat
BY DEF Inc, Dec, Count

\* A drainer state built by its constructors is well shaped.
LEMMA DrainerShapes ==
  /\ Idle.pc = "poll"
  /\ \A d : Asleep(d).pc = "asleep" /\ Asleep(d).sleep = d
  /\ \A k, j : /\ Handling(k, j).pc = "handling"
               /\ Handling(k, j).key = k /\ Handling(k, j).job = j
  /\ \A k, j, o : /\ Returned(k, j, o).pc = "returned"
                  /\ Returned(k, j, o).key = k /\ Returned(k, j, o).job = j
                  /\ Returned(k, j, o).outcome = o
BY DEF Idle, Asleep, Handling, Returned

(***************************************************************************)
(* Types                                                                   *)
(***************************************************************************)

\* An empty queue is well typed.
LEMMA InitTypes == Init => TypeOK
<1> SUFFICES ASSUME Init PROVE TypeOK
  OBVIOUS
<1>1. \A K, V : IsBucket(<<>>, K, V)
  BY DEF IsBucket
<1>2. DrainerOK /\ ~InHand
  BY DrainerShapes DEF Init, DrainerOK, InHand
<1>3. QED
  BY <1>1, <1>2 DEF Init, TypeOK, Count

\* A fresh job, a replayed one and one counted a failure are jobs.
LEMMA JobTypes ==
  /\ \A p \in Payload : NewJob(p) \in Job
  /\ \A j \in Job : Replayed(j) \in Job
  /\ \A j \in Job, w \in Nat :
       [j EXCEPT !.attempts = Inc(@), !.wait = w, !.err = TRUE] \in Job
  /\ \A j \in Job : [j EXCEPT !.wait = Dec(@)] \in Job
<1>1. \A p \in Payload : NewJob(p) \in Job
  BY DEF NewJob, Job, Count
<1>2. ASSUME NEW j \in Job, NEW w \in Nat
      PROVE  [j EXCEPT !.attempts = Inc(@), !.wait = w, !.err = TRUE] \in Job
  <2>1. Inc(j.attempts) \in Count
    BY Counting DEF Job
  <2> QED BY <2>1 DEF Job
<1>3. ASSUME NEW j \in Job
      PROVE  Replayed(j) \in Job /\ [j EXCEPT !.wait = Dec(@)] \in Job
  <2>1. Replayed(j) \in Job
    <3>1. 0 \in Count
      BY DEF Count
    <3> QED BY <3>1 DEF Job, Replayed
  <2>2. Dec(j.wait) \in Nat
    BY Counting DEF Job
  <2>3. [j EXCEPT !.wait = Dec(@)] \in Job
    BY <2>2 DEF Job
  <2> QED BY <2>1, <2>3
<1> QED BY <1>1, <1>2, <1>3

\* The types survive every step.
LEMMA NextTypes == TypeOK /\ [Next]_vars => TypeOK'
<1> SUFFICES ASSUME TypeOK, [Next]_vars PROVE TypeOK'
  OBVIOUS
<1> USE DEF TypeOK, buckets, process, observed
<1>1. ASSUME NEW c \in Clients, NEW p \in Payload, NEW at \in Stamps,
             Receive(c, p, at)
      PROVE  TypeOK'
  BY <1>1 DEF Receive, Request, DrainerOK, InHand
<1>2. ASSUME NEW c \in Clients, EnqueueDuplicate(c) PROVE TypeOK'
  BY <1>2 DEF EnqueueDuplicate, LiveEntry, Request, NoRequest, DrainerOK, InHand
<1>3. ASSUME NEW c \in Clients, EnqueueFull(c) PROVE TypeOK'
  BY <1>3 DEF EnqueueFull, DrainerOK, InHand
<1>4. ASSUME NEW c \in Clients, EnqueueNew(c) PROVE TypeOK'
  <2> DEFINE p == request[c].payload
             key == <<request[c].at, seq + 1>>
  <2>1. p \in Payload /\ key \in Key /\ seq + 1 \in 0..MaxJobs
    BY <1>4 DEF EnqueueNew, Request, NoRequest, Key
  <2>2. IsBucket(pending', Key, Job)
    <3>1. pending' = Put(pending, key, NewJob(p))
      BY <1>4 DEF EnqueueNew
    <3>2. NewJob(p) \in Job
      BY <2>1, JobTypes
    <3> QED BY <3>1, <3>2, <2>1, PutBucket
  <2>3. IsBucket(dedupe', Payload, Entry)
    <3>1. dedupe' = Put(dedupe, p, [job |-> key, ttl |-> DedupeTTL])
      BY <1>4 DEF EnqueueNew
    <3>2. [job |-> key, ttl |-> DedupeTTL] \in Entry
      BY <2>1 DEF Entry
    <3> QED BY <3>1, <3>2, <2>1, PutBucket
  <2>4. admitted' \in [Payload -> Nat] /\ acked' \subseteq Payload
    BY <1>4, <2>1 DEF EnqueueNew
  <2>5. request' \in [Clients -> Request \cup {NoRequest}] /\ seq' \in 0..MaxJobs
    BY <1>4, <2>1 DEF EnqueueNew
  <2> QED
    BY <1>4, <2>2, <2>3, <2>4, <2>5 DEF EnqueueNew, DrainerOK, InHand
<1>5. CASE FetchDue
  <2>1. PICK k \in Eligible : drainer' = Handling(k, pending[k])
    BY <1>5 DEF FetchDue
  <2>2. k \in Key /\ pending[k] \in Job
    BY <2>1 DEF Eligible, DuePriority, Due, IsBucket
  <2>3. DrainerOK' /\ (InHand => drainer.key \in Key /\ drainer.job \in Job)'
    BY <2>1, <2>2, DrainerShapes DEF DrainerOK, InHand
  <2> QED
    BY <1>5, <2>3 DEF FetchDue
<1>6. CASE NothingDue
  BY <1>6, DrainerShapes DEF NothingDue, DrainerOK, InHand
<1>7. CASE Wake
  BY <1>7, DrainerShapes DEF Wake, DrainerOK, InHand
<1>8. CASE Handler
  <2>1. PICK o \in Outcomes : HandlerReturns(o)
    BY <1>8 DEF Handler, HandleOk, HandleAmbiguous, HandleError,
                HandlePermanent, Outcomes
  <2>2. drainer.key \in Key /\ drainer.job \in Job
    BY <1>8 DEF Handler, HandleOk, HandleAmbiguous, HandleError,
                HandlePermanent, InHand
  <2>3. DrainerOK' /\ (InHand => drainer.key \in Key /\ drainer.job \in Job)'
    BY <2>1, <2>2, DrainerShapes DEF HandlerReturns, DrainerOK, InHand
  <2>4. \A p \in Payload : Commit(p) => stored' \in [Payload -> Nat]
    BY DEF Commit
  <2>5. drainer.job.payload \in Payload
    BY <2>2 DEF Job
  <2>6. stored' \in [Payload -> Nat]
    BY <1>8, <2>4, <2>5 DEF Handler, HandleOk, HandleAmbiguous, HandleError,
                            HandlePermanent
  <2>7. mishaps' \in 0..MaxMishaps
    BY <1>8 DEF Handler, HandleOk, HandleAmbiguous, HandleError,
                HandlePermanent
  <2> QED
    BY <1>8, <2>3, <2>6, <2>7 DEF Handler, HandleOk, HandleAmbiguous, HandleError,
                            HandlePermanent
<1>9. CASE MarkDone
  <2>1. IsBucket(pending', Key, Job)
    BY <1>9, WithoutBucket DEF MarkDone
  <2>2. DrainerOK' /\ ~InHand'
    BY <1>9, DrainerShapes DEF MarkDone, DrainerOK, InHand
  <2> QED
    BY <1>9, <2>1, <2>2 DEF MarkDone, Count
<1>10. CASE MarkDead
  <2> DEFINE job == [drainer.job EXCEPT !.attempts = Inc(@), !.wait = 0,
                                        !.err = TRUE]
  <2>1. drainer.key \in Key /\ job \in Job
    BY <1>10, JobTypes DEF MarkDead, InHand
  <2>2. dead' = Put(dead, drainer.key, job)
    BY <1>10 DEF MarkDead
  <2>3. IsBucket(dead', Key, Job)
    BY <2>1, <2>2, PutBucket
  <2>4. IsBucket(pending', Key, Job) /\ IsBucket(dedupe', Payload, Entry)
    BY <1>10, WithoutBucket DEF MarkDead
  <2>5. DrainerOK' /\ ~InHand'
    BY <1>10, DrainerShapes DEF MarkDead, DrainerOK, InHand
  <2> QED
    BY <1>10, <2>3, <2>4, <2>5 DEF MarkDead, Count
<1>11. CASE RecordFailure
  <2> DEFINE n == Inc(drainer.job.attempts)
             job == [drainer.job EXCEPT !.attempts = n, !.wait = Backoff[n],
                                        !.err = TRUE]
  <2>1. drainer.key \in Key /\ drainer.job \in Job
    BY <1>11 DEF RecordFailure, InHand
  <2>2. n \in 1..CountCap /\ Inc(failures) \in 1..CountCap
    BY <2>1, Counting DEF Job
  <2>3. Backoff[n] \in Nat /\ Backoff[Inc(failures)] \in Nat
    BY <2>2
  <2>4. job \in Job
    BY <2>1, <2>3, JobTypes
  <2>5. IsBucket(pending', Key, Job)
    BY <1>11, <2>1, <2>4, PutBucket DEF RecordFailure
  <2>6. DrainerOK' /\ ~InHand'
    BY <1>11, <2>3, DrainerShapes DEF RecordFailure, DrainerOK, InHand
  <2>7. failures' \in Count
    BY <1>11, <2>2 DEF RecordFailure, Count
  <2> QED
    BY <1>11, <2>5, <2>6, <2>7 DEF RecordFailure
<1>12. CASE CleanupDedupe
  BY <1>12, WithoutBucket DEF CleanupDedupe, DrainerOK, InHand
<1>13. ASSUME NEW ks \in SUBSET DOMAIN dead,
              NEW last \in [{dead[k].payload : k \in ks} -> ks],
              ReplayDead(ks, last)
       PROVE  TypeOK'
  <2>1. \A k \in ks : k \in Key /\ dead[k] \in Job /\ Replayed(dead[k]) \in Job
    BY JobTypes DEF IsBucket
  <2>2. \A p \in DOMAIN last : p \in Payload /\ last[p] \in Key
    BY <2>1 DEF Job
  <2>3. IsBucket(pending', Key, Job)
    BY <1>13, <2>1 DEF ReplayDead, IsBucket
  <2>4. IsBucket(dead', Key, Job)
    BY <1>13, WithoutBucket DEF ReplayDead
  <2>5. IsBucket(dedupe', Payload, Entry)
    BY <1>13, <2>2 DEF ReplayDead, IsBucket, Entry
  <2> QED
    BY <1>13, <2>3, <2>4, <2>5 DEF ReplayDead, DrainerOK, InHand
<1>14. CASE Tick
  <2>1. IsBucket(pending', Key, Job)
    BY <1>14, JobTypes DEF Tick, IsBucket
  <2>2. IsBucket(dedupe', Payload, Entry)
    BY <1>14, Counting DEF Tick, IsBucket, Entry
  <2>3. DrainerOK' /\ (InHand => drainer.key \in Key /\ drainer.job \in Job)'
    BY <1>14, Counting, DrainerShapes DEF Tick, DrainerOK, InHand
  <2> QED
    BY <1>14, <2>1, <2>2, <2>3 DEF Tick
<1>15. CASE Crash
  <2>1. DrainerOK' /\ ~InHand'
    BY <1>15, DrainerShapes DEF Crash, DrainerOK, InHand
  <2>2. mishaps' \in 0..MaxMishaps
    BY <1>15 DEF Crash
  <2> QED
    <3>1. failures' \in Count
      BY <1>15 DEF Crash, Count
    <3>2. running' \in BOOLEAN /\ draining' \in BOOLEAN
      BY <1>15, Zenon DEF Crash
    <3>3. request' \in [Clients -> Request \cup {NoRequest}]
      BY <1>15 DEF Crash
    <3> QED BY <1>15, <2>1, <2>2, <3>1, <3>2, <3>3 DEF Crash
<1>16. CASE Start
  BY <1>16 DEF Start, DrainerOK, InHand
<1>17. CASE DbDown \/ DbBack
  BY <1>17 DEF DbDown, DbBack, DrainerOK, InHand
<1>18. CASE UNCHANGED vars
  BY <1>18 DEF vars, DrainerOK, InHand
<1> QED
  BY <1>1, <1>2, <1>3, <1>4, <1>5, <1>6, <1>7, <1>8, <1>9, <1>10, <1>11, <1>12,
     <1>13, <1>14, <1>15, <1>16, <1>17, <1>18
     DEF Next, Enqueue, Mark, ReplaySome

\* Every reachable state of the outbox is well typed.
THEOREM OutboxTypes == Spec => []TypeOK
BY InitTypes, NextTypes, PTL DEF Spec

(***************************************************************************)
(* The inductive invariant, one conjunct at a time                         *)
(***************************************************************************)

\* The database never forgets a batch.
LEMMA DeliveredGrows == TypeOK /\ [Next]_vars => Delivered \subseteq Delivered'
<1> SUFFICES ASSUME TypeOK, [Next]_vars, NEW p \in Payload, stored[p] > 0
             PROVE  stored'[p] > 0
  BY DEF Delivered
<1>1. \A q : Commit(q) => stored'[p] > 0
  BY DEF Commit, TypeOK
<1>2. CASE stored' = stored
  BY <1>2
<1>3. CASE \E q : Commit(q)
  BY <1>1, <1>3
<1>4. stored' = stored \/ \E q : Commit(q)
  BY DEF Next, vars, observed, Receive, Enqueue, EnqueueDuplicate, EnqueueFull,
         EnqueueNew, FetchDue, NothingDue, Wake, Handler, HandleOk,
         HandleAmbiguous, HandleError, HandlePermanent, Mark, MarkDone, MarkDead,
         RecordFailure, CleanupDedupe, ReplaySome, ReplayDead, Tick, Crash,
         Start, DbDown, DbBack
<1> QED BY <1>2, <1>3, <1>4

\* Steps that leave the pending and dead buckets and the drainer's hand alone.
LEMMA OneHomeSame ==
  ASSUME OneHome, UNCHANGED <<pending, dead, seq, drainer>>
  PROVE  OneHome'
BY DEF OneHome, InHand

\* Only MarkDead and ReplayDead move jobs, and each frees the old key as it takes
\* the new one.
LEMMA OneHomeStep == TypeOK /\ OneHome /\ [Next]_vars => OneHome'
<1> SUFFICES ASSUME TypeOK, OneHome, [Next]_vars PROVE OneHome'
  OBVIOUS
<1> USE DEF buckets, process, observed
<1>1. ASSUME NEW c \in Clients, NEW p \in Payload, NEW at \in Stamps,
             Receive(c, p, at)
      PROVE  OneHome'
  BY <1>1, OneHomeSame DEF Receive
<1>2. ASSUME NEW c \in Clients, EnqueueDuplicate(c) \/ EnqueueFull(c)
      PROVE  OneHome'
  BY <1>2, OneHomeSame DEF EnqueueDuplicate, EnqueueFull
<1>3. ASSUME NEW c \in Clients, EnqueueNew(c) PROVE OneHome'
  <2> DEFINE key == <<request[c].at, seq + 1>>
  <2>1. key[2] = seq + 1 /\ seq \in Nat
    BY DEF TypeOK
  <2>2. key \notin DOMAIN pending /\ key \notin DOMAIN dead
    BY <2>1 DEF OneHome
  <2>3. DOMAIN pending' = DOMAIN pending \cup {key} /\ dead' = dead
        /\ \A k \in DOMAIN pending : pending'[k] = pending[k]
    BY <1>3, <2>2 DEF EnqueueNew, Put
  <2>4. \A k \in DOMAIN pending \cup DOMAIN dead : k[2] \in Nat
    BY DEF TypeOK, IsBucket, Key
  <2>5. seq' = seq + 1 /\ drainer' = drainer
    BY <1>3 DEF EnqueueNew
  <2>6. DOMAIN pending' \cap DOMAIN dead' = {}
    BY <2>2, <2>3 DEF OneHome
  <2>7. \A k \in DOMAIN pending' \cup DOMAIN dead' : k[2] <= seq'
    BY <2>1, <2>3, <2>4, <2>5 DEF OneHome
  <2> QED
    BY <2>3, <2>5, <2>6, <2>7 DEF OneHome, InHand
<1>4. CASE FetchDue
  <2>1. PICK k \in Eligible : drainer' = Handling(k, pending[k])
    BY <1>4 DEF FetchDue
  <2>2. k \in DOMAIN pending /\ pending[k].wait = 0
    BY <2>1 DEF Eligible, DuePriority, Due
  <2> QED
    BY <1>4, <2>1, <2>2, DrainerShapes DEF FetchDue, OneHome, InHand
<1>5. CASE NothingDue \/ Wake
  BY <1>5, DrainerShapes DEF NothingDue, Wake, OneHome, InHand
<1>6. CASE Handler
  <2>1. PICK o : HandlerReturns(o)
    BY <1>6 DEF Handler, HandleOk, HandleAmbiguous, HandleError, HandlePermanent
  <2>2. InHand /\ UNCHANGED <<pending, dead, seq>>
    BY <1>6 DEF Handler, HandleOk, HandleAmbiguous, HandleError,
                HandlePermanent, InHand
  <2>3. drainer'.key = drainer.key /\ drainer'.job = drainer.job
    BY <2>1, DrainerShapes DEF HandlerReturns
  <2> QED
    BY <2>2, <2>3 DEF OneHome, InHand
<1>7. CASE MarkDone
  BY <1>7, DrainerShapes DEF MarkDone, OneHome, InHand, Without
<1>8. CASE MarkDead
  BY <1>8, DrainerShapes DEF MarkDead, OneHome, InHand, Without, Put
<1>9. CASE RecordFailure
  BY <1>9, DrainerShapes DEF RecordFailure, OneHome, InHand, Put
<1>10. CASE CleanupDedupe
  BY <1>10, OneHomeSame DEF CleanupDedupe
<1>11. ASSUME NEW ks \in SUBSET DOMAIN dead,
              NEW last \in [{dead[k].payload : k \in ks} -> ks],
              ReplayDead(ks, last)
       PROVE  OneHome'
  BY <1>11 DEF ReplayDead, OneHome, InHand, Without
<1>12. CASE Tick
  <2>1. DOMAIN pending' = DOMAIN pending /\ UNCHANGED <<dead, seq>>
    BY <1>12 DEF Tick
  <2>2. CASE ~InHand
    BY <1>12, <2>1, <2>2, DrainerShapes DEF Tick, OneHome, InHand
  <2>3. CASE InHand
    \* The job in hand was due when it was read, so its timer has run out.
    <3>1. drainer' = drainer
      BY <1>12, <2>3 DEF Tick, InHand
    <3>2. pending[drainer.key] \in Job /\ pending[drainer.key].wait = 0
      BY <2>3 DEF OneHome, TypeOK, IsBucket
    <3>3. pending'[drainer.key] = pending[drainer.key]
      BY <1>12, <2>3, <3>2 DEF Tick, OneHome, Dec, Job
    <3> QED BY <2>1, <2>3, <3>1, <3>3 DEF OneHome, InHand
  <2> QED BY <2>2, <2>3
<1>13. CASE Crash
  BY <1>13, DrainerShapes DEF Crash, OneHome, InHand
<1>14. CASE Start \/ DbDown \/ DbBack \/ UNCHANGED vars
  BY <1>14, OneHomeSame DEF Start, DbDown, DbBack, vars
<1> QED
  BY <1>1, <1>2, <1>3, <1>4, <1>5, <1>6, <1>7, <1>8, <1>9, <1>10, <1>11, <1>12,
     <1>13, <1>14 DEF Next, Enqueue, Mark, ReplaySome

\* The drainer holds the answer "ok" only after the insert was committed.
LEMMA OkMeansStoredStep ==
  TypeOK /\ OkMeansStored /\ [Next]_vars => OkMeansStored'
<1> SUFFICES ASSUME TypeOK, OkMeansStored, [Next]_vars,
                    (drainer.pc = "returned" /\ drainer.outcome = "ok")'
             PROVE  (drainer.job.payload \in Delivered)'
  BY DEF OkMeansStored
<1> USE DEF buckets, process, observed
<1>1. CASE HandleOk
  <2> DEFINE p == drainer.job.payload
  <2>1. drainer'.job = drainer.job
    BY <1>1, DrainerShapes DEF HandleOk, HandlerReturns
  <2>2. p \in Payload
    BY <1>1 DEF HandleOk, TypeOK, InHand, Job
  <2>3. stored'[p] > 0
    BY <1>1, <2>2 DEF HandleOk, Commit, TypeOK
  <2> QED BY <2>1, <2>2, <2>3 DEF Delivered
<1>2. CASE HandleAmbiguous \/ HandleError \/ HandlePermanent
  BY <1>2, DrainerShapes
     DEF HandleAmbiguous, HandleError, HandlePermanent, HandlerReturns
<1>3. CASE drainer' = drainer
  BY <1>3, DeliveredGrows DEF OkMeansStored
<1>4. CASE drainer'.pc # "returned"
  BY <1>4
<1>5. ASSUME drainer' # drainer, ~Handler PROVE drainer'.pc # "returned"
  <2>1. CASE FetchDue \/ NothingDue \/ Wake
    BY <2>1, DrainerShapes DEF FetchDue, NothingDue, Wake
  <2>2. CASE Mark
    BY <2>2, DrainerShapes DEF Mark, MarkDone, MarkDead, RecordFailure
  <2>3. CASE Tick \/ Crash
    BY <1>5, <2>3, DrainerShapes DEF Tick, Crash
  <2> QED
    BY <1>5, <2>1, <2>2, <2>3
       DEF Next, vars, Receive, Enqueue, EnqueueDuplicate, EnqueueFull,
           EnqueueNew, CleanupDedupe, ReplaySome, ReplayDead, Start, DbDown,
           DbBack
<1> QED BY <1>1, <1>2, <1>3, <1>4, <1>5 DEF Handler

\* A dedupe entry outlives its job only through MarkDone, which needs a commit;
\* MarkDead, the other way out of pending, frees the key in its transaction.
LEMMA DedupeBackedStep == IInv /\ [Next]_vars => DedupeBacked'
<1> SUFFICES ASSUME IInv, [Next]_vars, NEW p \in DOMAIN dedupe'
             PROVE  \/ p \in Delivered'
                    \/ dedupe'[p].job \in DOMAIN pending'
                       /\ pending'[dedupe'[p].job].payload = p
  BY DEF DedupeBacked
<1> USE DEF buckets, process, observed
<1> DEFINE Backed == \/ p \in Delivered
                     \/ dedupe[p].job \in DOMAIN pending
                        /\ pending[dedupe[p].job].payload = p
<1>1. p \in DOMAIN dedupe => Backed
  BY DEF IInv, DedupeBacked
<1>2. Delivered \subseteq Delivered'
  BY DeliveredGrows DEF IInv
<1>3. InHand => /\ drainer.key \in DOMAIN pending
                /\ drainer.job = pending[drainer.key]
  BY DEF IInv, OneHome
<1>4. ASSUME NEW c \in Clients, EnqueueNew(c)
      PROVE  Backed'
  <2> DEFINE q == request[c].payload
             key == <<request[c].at, seq + 1>>
  <2>1. pending' = Put(pending, key, NewJob(q))
        /\ dedupe' = Put(dedupe, q, [job |-> key, ttl |-> DedupeTTL])
    BY <1>4 DEF EnqueueNew
  <2>2. CASE p = q
    BY <2>1, <2>2 DEF Put, NewJob
  <2>3. CASE p # q
    <3>1. p \in DOMAIN dedupe /\ dedupe'[p] = dedupe[p]
      BY <2>1, <2>3 DEF Put
    <3>2. key \notin DOMAIN pending
      <4>1. key[2] = seq + 1 /\ seq \in Nat
        BY DEF IInv, TypeOK
      <4> QED BY <4>1 DEF IInv, OneHome
    <3>3. \A k \in DOMAIN pending :
            k \in DOMAIN pending' /\ pending'[k] = pending[k]
      BY <2>1, <3>2 DEF Put
    <3> QED BY <1>1, <1>2, <3>1, <3>3
  <2> QED BY <2>2, <2>3
<1>5. CASE MarkDone
  <2>1. drainer.job.payload \in Delivered
    BY <1>5 DEF MarkDone, IInv, OkMeansStored
  <2> QED
    BY <1>1, <1>2, <1>3, <1>5, <2>1 DEF MarkDone, Without, InHand
<1>6. CASE MarkDead
  <2>1. p \in DOMAIN dedupe /\ p # drainer.job.payload /\ dedupe'[p] = dedupe[p]
    <3>1. drainer.job \in Job
      BY <1>6 DEF MarkDead, InHand, IInv, TypeOK
    <3> QED
      BY <1>6, <3>1 DEF MarkDead, Without, Job
  <2> QED
    BY <1>1, <1>2, <1>3, <1>6, <2>1 DEF MarkDead, Without, InHand
<1>7. CASE RecordFailure
  <2>1. drainer.job \in Job
    BY <1>7 DEF RecordFailure, InHand, IInv, TypeOK
  <2> QED
    BY <1>1, <1>2, <1>3, <1>7, <2>1 DEF RecordFailure, Put, InHand, Job
<1>8. CASE CleanupDedupe
  BY <1>1, <1>2, <1>8 DEF CleanupDedupe, Without
<1>9. ASSUME NEW ks \in SUBSET DOMAIN dead,
             NEW last \in [{dead[k].payload : k \in ks} -> ks],
             ReplayDead(ks, last)
      PROVE  Backed'
  <2>1. CASE p \in DOMAIN last
    <3>1. dedupe'[p].job = last[p] /\ last[p] \in ks /\ dead[last[p]].payload = p
      BY <1>9, <2>1 DEF ReplayDead
    <3>2. pending'[last[p]] = Replayed(dead[last[p]])
      BY <1>9, <3>1 DEF ReplayDead
    <3>3. dead[last[p]] \in Job
      BY <3>1 DEF IInv, TypeOK, IsBucket
    <3>4. Replayed(dead[last[p]]).payload = p
      BY <3>1, <3>3 DEF Replayed, Job
    <3> QED BY <1>9, <3>1, <3>2, <3>4 DEF ReplayDead
  <2>2. CASE p \notin DOMAIN last
    <3>1. p \in DOMAIN dedupe /\ dedupe'[p] = dedupe[p]
      BY <1>9, <2>2 DEF ReplayDead
    <3>2. \A k \in DOMAIN pending : k \in DOMAIN pending' /\ pending'[k] = pending[k]
      BY <1>9 DEF ReplayDead, IInv, OneHome
    <3> QED BY <1>1, <1>2, <3>1, <3>2
  <2> QED BY <2>1, <2>2
<1>10. CASE Tick
  <2>1. p \in DOMAIN dedupe /\ dedupe'[p].job = dedupe[p].job
    BY <1>10 DEF Tick, IInv, TypeOK, IsBucket, Entry
  <2>2. \A k \in DOMAIN pending :
          k \in DOMAIN pending' /\ pending'[k].payload = pending[k].payload
    BY <1>10 DEF Tick, IInv, TypeOK, IsBucket, Job
  <2> QED BY <1>1, <1>2, <2>1, <2>2
<1>11. CASE UNCHANGED <<pending, dedupe>>
  BY <1>1, <1>2, <1>11
<1>12. \/ \E c \in Clients : EnqueueNew(c)
       \/ Mark \/ CleanupDedupe \/ ReplaySome \/ Tick
       \/ UNCHANGED <<pending, dedupe>>
  BY DEF Next, vars, Receive, Enqueue, EnqueueDuplicate, EnqueueFull, FetchDue,
         NothingDue, Wake, Handler, HandleOk, HandleAmbiguous, HandleError,
         HandlePermanent, Crash, Start, DbDown, DbBack
<1> QED
  BY <1>4, <1>5, <1>6, <1>7, <1>8, <1>9, <1>10, <1>11, <1>12 DEF Mark, ReplaySome

(***************************************************************************)
(* The outbox implements the at-least-once queue                           *)
(***************************************************************************)

\* The job in the drainer's hand is one the outbox holds.
LEMMA InHandHeld == IInv /\ InHand => /\ drainer.key \in DOMAIN pending
                                      /\ pending[drainer.key] = drainer.job
                                      /\ drainer.key \notin DOMAIN dead
                                      /\ drainer.job \in Job
                                      /\ drainer.job.payload \in Held
<1> SUFFICES ASSUME IInv, InHand PROVE drainer.job.payload \in Held
  BY DEF IInv, OneHome, TypeOK
<1>1. drainer.job.payload \in Payload
  BY DEF IInv, TypeOK, Job
<1> QED BY <1>1 DEF IInv, OneHome, Held, HeldJobs

\* Admission: the batch becomes held, everything else stays.
LEMMA EnqueueNewAdmits ==
  ASSUME IInv, NEW c \in Clients, EnqueueNew(c)
  PROVE  AtLeastOnce!Admit(request[c].payload) /\ request[c].payload \in Payload
<1> DEFINE q == request[c].payload
           key == <<request[c].at, seq + 1>>
<1>1. q \in Payload
  BY DEF EnqueueNew, IInv, TypeOK, Request, NoRequest
<1>2. key \notin DOMAIN pending
  <2>1. key[2] = seq + 1 /\ seq \in Nat
    BY DEF IInv, TypeOK
  <2> QED BY <2>1 DEF IInv, OneHome
<1>3. /\ DOMAIN pending' = DOMAIN pending \cup {key}
      /\ pending'[key] = NewJob(q) /\ dead' = dead
      /\ \A k \in DOMAIN pending : pending'[k] = pending[k]
  BY <1>2 DEF EnqueueNew, Put
<1>4. Held' = Held \cup {q}
  <2>1. pending'[key].payload = q
    BY <1>3 DEF NewJob
  <2>2. q \in Held'
    BY <1>1, <1>3, <2>1 DEF Held, HeldJobs
  <2>3. ASSUME NEW r \in Payload, r # q PROVE r \in Held' <=> r \in Held
    <3>1. \A k : (k \in DOMAIN pending' /\ pending'[k].payload = r)
                  <=> (k \in DOMAIN pending /\ pending[k].payload = r)
      BY <1>2, <1>3, <2>1, <2>3
    <3>2. HeldJobs(r)' = HeldJobs(r)
      BY <1>3, <3>1 DEF HeldJobs
    <3> QED BY <3>2 DEF Held
  <2> QED BY <2>2, <2>3, <1>1 DEF Held
<1>5. Delivered' = Delivered /\ acked' \in {acked, acked \cup {q}}
  BY DEF EnqueueNew, Delivered
<1> QED BY <1>1, <1>4, <1>5 DEF AtLeastOnce!Admit

\* A commit delivers a batch the outbox holds (or changes nothing: a copy more).
LEMMA HandlerDelivers ==
  ASSUME IInv, Handler
  PROVE  \/ AtLeastOnce!Deliver(drainer.job.payload)
         \/ UNCHANGED AtLeastOnce!vars
<1> DEFINE p == drainer.job.payload
<1>1. /\ UNCHANGED <<pending, dead, acked>> /\ InHand
      /\ stored' = stored \/ Commit(p)
  BY DEF Handler, HandleOk, HandleAmbiguous, HandleError, HandlePermanent,
         buckets, observed, InHand
<1>2. Held' = Held /\ acked' = acked
  BY <1>1 DEF Held, HeldJobs
<1>3. p \in Held /\ p \in Payload
  BY <1>1, InHandHeld DEF Job
<1>4. CASE Commit(p)
  <2>1. stored'[p] > 0 /\ \A q \in Payload : q # p => stored'[q] = stored[q]
    BY <1>3, <1>4 DEF Commit, IInv, TypeOK
  <2>2. Delivered' = Delivered \cup {p}
    BY <1>3, <2>1 DEF Delivered
  <2> QED BY <1>2, <1>3, <2>2 DEF AtLeastOnce!Deliver
<1>5. CASE stored' = stored
  BY <1>2, <1>5 DEF AtLeastOnce!vars, Delivered
<1> QED BY <1>1, <1>4, <1>5

\* Removing a delivered job either releases its batch or leaves another job of
\* the same batch behind.
LEMMA MarkDoneReleases ==
  ASSUME IInv, MarkDone
  PROVE  \/ AtLeastOnce!Release(drainer.job.payload)
         \/ UNCHANGED AtLeastOnce!vars
<1> DEFINE p == drainer.job.payload
<1>1. InHand /\ p \in Delivered
  BY DEF MarkDone, InHand, IInv, OkMeansStored
<1>2. /\ dead' = dead /\ DOMAIN pending' = DOMAIN pending \ {drainer.key}
      /\ \A k \in DOMAIN pending' : pending'[k] = pending[k]
  BY DEF MarkDone, Without
<1>3. \A q \in Payload : q # p => (q \in Held' <=> q \in Held)
  <2> TAKE q \in Payload
  <2> HAVE q # p
  <2>1. drainer.key \in DOMAIN pending /\ pending[drainer.key].payload = p
    BY <1>1, InHandHeld
  <2>2. HeldJobs(q)' = HeldJobs(q)
    BY <1>2, <2>1 DEF HeldJobs
  <2> QED BY <2>2 DEF Held
<1>4. p \in Held
  BY <1>1, InHandHeld
<1>5. Held' = Held \/ Held' = Held \ {p}
  BY <1>3, <1>4 DEF Held, HeldJobs
<1>6. Delivered' = Delivered /\ acked' = acked
  BY DEF MarkDone, Delivered, observed
<1> QED BY <1>1, <1>5, <1>6 DEF AtLeastOnce!Release, AtLeastOnce!vars

\* Dead-lettering, retrying, replaying and the passing of time move jobs between
\* buckets or rewrite them, and never change which jobs a
\* batch is held as.
LEMMA MovesKeepHeld ==
  ASSUME IInv, MarkDead \/ RecordFailure \/ ReplaySome \/ Tick
  PROVE  /\ \A p \in Payload : HeldJobs(p)' = HeldJobs(p)
         /\ Held' = Held
<1> SUFFICES \A p \in Payload : HeldJobs(p)' = HeldJobs(p)
  BY DEF Held
<1>1. CASE MarkDead
  <2>1. InHand
    BY <1>1 DEF MarkDead, InHand
  <2>2. /\ DOMAIN pending' = DOMAIN pending \ {drainer.key}
        /\ \A k \in DOMAIN pending' : pending'[k] = pending[k]
        /\ DOMAIN dead' = DOMAIN dead \cup {drainer.key}
        /\ \A k \in DOMAIN dead : dead'[k] = dead[k]
        /\ dead'[drainer.key].payload = drainer.job.payload
    BY <1>1, <2>1, InHandHeld DEF MarkDead, Without, Put, Job
  <2> QED BY <2>1, <2>2, InHandHeld DEF HeldJobs
<1>2. CASE RecordFailure
  <2>1. InHand
    BY <1>2 DEF RecordFailure, InHand
  <2>2. /\ DOMAIN pending' = DOMAIN pending /\ dead' = dead
        /\ \A k \in DOMAIN pending : pending'[k].payload = pending[k].payload
    BY <1>2, <2>1, InHandHeld DEF RecordFailure, Put, Job
  <2> QED BY <2>2 DEF HeldJobs
<1>3. CASE ReplaySome
  <2>1. PICK ks \in SUBSET DOMAIN dead :
          \E last \in [{dead[k].payload : k \in ks} -> ks] : ReplayDead(ks, last)
    BY <1>3 DEF ReplaySome
  <2>2. /\ DOMAIN pending' = DOMAIN pending \cup ks
        /\ \A k \in DOMAIN pending : k \notin ks /\ pending'[k] = pending[k]
        /\ DOMAIN dead' = DOMAIN dead \ ks
        /\ \A k \in DOMAIN dead' : dead'[k] = dead[k]
        /\ \A k \in ks : pending'[k].payload = dead[k].payload
    <3>1. \A k \in ks : Replayed(dead[k]).payload = dead[k].payload
      BY DEF IInv, TypeOK, IsBucket, Replayed, Job
    <3> QED BY <2>1, <3>1 DEF ReplayDead, Without, IInv, OneHome
  <2> QED BY <2>2 DEF HeldJobs
<1>4. CASE Tick
  <2>1. /\ DOMAIN pending' = DOMAIN pending /\ dead' = dead
        /\ \A k \in DOMAIN pending : pending'[k].payload = pending[k].payload
    BY <1>4 DEF Tick, IInv, TypeOK, IsBucket, Job
  <2> QED BY <2>1 DEF HeldJobs
<1> QED BY <1>1, <1>2, <1>3, <1>4

\* Every step of the outbox is a step of the abstract queue or stutters there.
LEMMA StepRefines ==
  IInv /\ [Next]_vars => [AtLeastOnce!Next]_(AtLeastOnce!vars)
<1> SUFFICES ASSUME IInv, [Next]_vars
             PROVE  AtLeastOnce!Next \/ UNCHANGED AtLeastOnce!vars
  OBVIOUS
<1> USE DEF buckets, process, observed
<1>1. ASSUME NEW c \in Clients, EnqueueNew(c) PROVE AtLeastOnce!Next
  BY <1>1, EnqueueNewAdmits DEF AtLeastOnce!Next
<1>2. ASSUME NEW c \in Clients, EnqueueDuplicate(c)
      PROVE  AtLeastOnce!Next \/ UNCHANGED AtLeastOnce!vars
  <2> DEFINE q == request[c].payload
  <2>1. q \in Payload /\ q \in DOMAIN dedupe
    BY <1>2 DEF EnqueueDuplicate, LiveEntry, IInv, TypeOK, IsBucket
  <2>2. q \in Held \cup Delivered
    BY <2>1 DEF Held, HeldJobs, IInv, DedupeBacked
  <2>3. Held' = Held /\ Delivered' = Delivered
    BY <1>2 DEF Held, HeldJobs, EnqueueDuplicate, Delivered
  <2>4. acked' = acked \/ acked' = acked \cup {q}
    BY <1>2 DEF EnqueueDuplicate
  <2> QED BY <2>1, <2>2, <2>3, <2>4
             DEF AtLeastOnce!Next, AtLeastOnce!AckAgain, AtLeastOnce!vars
<1>3. CASE Handler
  <2>1. drainer.job.payload \in Payload
    BY <1>3, InHandHeld DEF Handler, HandleOk, HandleAmbiguous, HandleError,
                            HandlePermanent, InHand, Job
  <2> QED BY <1>3, <2>1, HandlerDelivers DEF AtLeastOnce!Next
<1>4. CASE MarkDone
  <2>1. drainer.job.payload \in Payload
    BY <1>4, InHandHeld DEF MarkDone, InHand, Job
  <2> QED BY <1>4, <2>1, MarkDoneReleases DEF AtLeastOnce!Next
<1>5. CASE MarkDead \/ RecordFailure \/ ReplaySome \/ Tick
  <2>1. UNCHANGED <<stored, acked>>
    BY <1>5 DEF MarkDead, RecordFailure, ReplaySome, ReplayDead, Tick
  <2> QED BY <1>5, <2>1, MovesKeepHeld DEF AtLeastOnce!vars, Delivered
<1>6. CASE UNCHANGED <<pending, dead, stored, acked>>
  BY <1>6 DEF Held, HeldJobs, AtLeastOnce!vars, Delivered
<1>7. \/ \E c \in Clients : EnqueueNew(c) \/ EnqueueDuplicate(c)
      \/ Handler \/ MarkDone \/ MarkDead \/ RecordFailure \/ ReplaySome \/ Tick
      \/ UNCHANGED <<pending, dead, stored, acked>>
  BY DEF Next, vars, Receive, Enqueue, EnqueueFull, FetchDue, NothingDue, Wake,
         Mark, CleanupDedupe, Crash, Start, DbDown, DbBack
<1> QED BY <1>1, <1>2, <1>3, <1>4, <1>5, <1>6, <1>7

(***************************************************************************)
(* The theorems                                                            *)
(***************************************************************************)

\* The empty queue satisfies the inductive invariant.
LEMMA InitInv == Init => IInv
<1> SUFFICES ASSUME Init PROVE IInv
  OBVIOUS
<1>1. TypeOK
  BY InitTypes
<1>2. OneHome /\ OkMeansStored
  BY DrainerShapes DEF Init, OneHome, OkMeansStored, InHand
<1>3. DedupeBacked /\ NoLostAck
  BY DEF Init, DedupeBacked, NoLostAck
<1> QED BY <1>1, <1>2, <1>3 DEF IInv

\* Every step keeps the inductive invariant.
LEMMA NextInv == IInv /\ [Next]_vars => IInv'
<1> SUFFICES ASSUME IInv, [Next]_vars PROVE IInv'
  OBVIOUS
<1>1. TypeOK' /\ OneHome' /\ OkMeansStored'
  BY NextTypes, OneHomeStep, OkMeansStoredStep DEF IInv
<1>2. DedupeBacked'
  BY DedupeBackedStep
<1>3. NoLostAck'
  \* Safe is inductive in the abstract queue, and every step refines it.
  <2>1. AtLeastOnce!Next \/ UNCHANGED AtLeastOnce!vars
    BY StepRefines
  <2> QED
    BY <2>1 DEF IInv, NoLostAck, AtLeastOnce!Next, AtLeastOnce!vars,
                AtLeastOnce!Admit, AtLeastOnce!AckAgain, AtLeastOnce!Deliver,
                AtLeastOnce!Release
<1> QED BY <1>1, <1>2, <1>3 DEF IInv

\* Every reachable state satisfies it.
LEMMA Invariance == Spec => []IInv
BY InitInv, NextInv, PTL DEF Spec

\* No acknowledged batch is ever lost, for any clients, batches and limits.
THEOREM AckedIsKept == Spec => []NoLostAck
<1>1. IInv => NoLostAck
  BY DEF IInv
<1> QED BY Invariance, <1>1, PTL

\* A dedupe entry always stands for a batch pending or delivered.
THEOREM DedupeIsBacked == Spec => []DedupeBacked
<1>1. IInv => DedupeBacked
  BY DEF IInv
<1> QED BY Invariance, <1>1, PTL

\* A job is in one bucket at most, and the drainer's copy is never stale.
THEOREM JobHasOneHome == Spec => []OneHome
<1>1. IInv => OneHome
  BY DEF IInv
<1> QED BY Invariance, <1>1, PTL

\* The outbox implements the abstract at-least-once queue.
THEOREM OutboxRefines == Spec => ImplementsAtLeastOnce
<1>1. Init => AtLeastOnce!Init
  BY DEF Held, HeldJobs, Init, AtLeastOnce!Init, Delivered
<1>2. QED
  BY <1>1, StepRefines, Invariance, PTL
     DEF Spec, ImplementsAtLeastOnce, AtLeastOnce!Spec

(***************************************************************************)
(* The byte counter                                                        *)
(***************************************************************************)

\* The encoded record of one job is as many bytes as its encoded size.
LEMMA RecordBytes ==
  ASSUME NEW k, NEW n \in Nat
  PROVE  /\ IsFiniteSet({k} \X (1..n))
         /\ Cardinality({k} \X (1..n)) = n
<1>1. IsFiniteSet({k}) /\ Cardinality({k}) = 1
  BY FS_Singleton
<1>2. IsFiniteSet(1..n) /\ Cardinality(1..n) = n
  <2>1. 1 \in Int /\ n \in Int
    OBVIOUS
  <2>2. /\ IsFiniteSet(1..n)
        /\ Cardinality(1..n) = IF 1 > n THEN 0 ELSE n - 1 + 1
    BY <2>1, FS_Interval
  <2> QED BY <2>2
<1>3. /\ IsFiniteSet({k} \X (1..n))
      /\ Cardinality({k} \X (1..n)) = Cardinality({k}) * Cardinality(1..n)
  BY <1>1, <1>2, FS_Product
<1> QED BY <1>1, <1>2, <1>3

\* Every job has an encoded size.
LEMMA EncodedSizes == \A j \in Job : EncodedSize(j) \in Nat
BY DEF EncodedSize, Job

\* Finitely many jobs have finitely many bytes.
LEMMA BytesFinite ==
  ASSUME NEW b, NEW ks, IsFiniteSet(ks), \A k \in ks : EncodedSize(b[k]) \in Nat
  PROVE  IsFiniteSet(Bytes(b, ks)) /\ SizeOf(b, ks) \in Nat
<1> DEFINE R == {{k} \X (1..EncodedSize(b[k])) : k \in ks}
           f == [k \in ks |-> {k} \X (1..EncodedSize(b[k]))]
<1>1. f \in Surjection(ks, R)
  BY DEF Surjection
<1>2. IsFiniteSet(R)
  BY <1>1, FS_Surjection
<1>3. \A r \in R : IsFiniteSet(r)
  <2> TAKE r \in R
  <2>1. PICK k \in ks : r = {k} \X (1..EncodedSize(b[k]))
    OBVIOUS
  <2>2. EncodedSize(b[k]) \in Nat
    OBVIOUS
  <2> QED BY <2>1, <2>2, RecordBytes
<1>4. IsFiniteSet(UNION R)
  BY <1>2, <1>3, FS_UNION
<1>5. IsFiniteSet(Bytes(b, ks))
  BY <1>4 DEF Bytes
<1> QED BY <1>5, FS_CardinalityType DEF SizeOf

\* The size of a bucket depends on nothing but the encoded sizes of its jobs.
LEMMA SizeDepends ==
  ASSUME NEW b, NEW c, NEW ks,
         \A k \in ks : EncodedSize(b[k]) = EncodedSize(c[k])
  PROVE  SizeOf(b, ks) = SizeOf(c, ks)
BY DEF SizeOf, Bytes

\* Nothing takes no bytes.
LEMMA SizeOfNone == \A b : SizeOf(b, {}) = 0
<1> SUFFICES ASSUME NEW b PROVE SizeOf(b, {}) = 0
  OBVIOUS
<1>1. Bytes(b, {}) = {}
  BY DEF Bytes
<1> QED BY <1>1, FS_EmptySet DEF SizeOf

\* Jobs under different keys take their bytes separately.
LEMMA SizeAdds ==
  ASSUME NEW b, NEW ks, NEW ls, IsFiniteSet(ks), IsFiniteSet(ls),
         ks \cap ls = {},
         \A k \in ks \cup ls : EncodedSize(b[k]) \in Nat
  PROVE  SizeOf(b, ks \cup ls) = SizeOf(b, ks) + SizeOf(b, ls)
<1>1. IsFiniteSet(Bytes(b, ks)) /\ IsFiniteSet(Bytes(b, ls))
  BY BytesFinite
<1>2. Bytes(b, ks \cup ls) = Bytes(b, ks) \cup Bytes(b, ls)
  BY DEF Bytes
<1>3. Bytes(b, ks) \cap Bytes(b, ls) = {}
  <2>1. \A l : \A x \in Bytes(b, l) : x[1] \in l
    BY DEF Bytes
  <2> QED BY <2>1
<1>4. Cardinality(Bytes(b, ks)) \in Nat /\ Cardinality(Bytes(b, ls)) \in Nat
  BY <1>1, FS_CardinalityType
<1>5. Cardinality(Bytes(b, ks) \cup Bytes(b, ls))
        = Cardinality(Bytes(b, ks)) + Cardinality(Bytes(b, ls))
  <2>1. Cardinality(Bytes(b, ks) \cup Bytes(b, ls))
          = Cardinality(Bytes(b, ks)) + Cardinality(Bytes(b, ls))
            - Cardinality(Bytes(b, ks) \cap Bytes(b, ls))
    BY <1>1, FS_Union
  <2>2. Cardinality(Bytes(b, ks) \cap Bytes(b, ls)) = 0
    BY <1>3, FS_EmptySet
  <2> QED BY <1>4, <2>1, <2>2
<1> QED BY <1>2, <1>5 DEF SizeOf

\* One job's share of the size of its bucket.
LEMMA SizeSplits ==
  ASSUME NEW b, NEW ks, NEW k \in ks, IsFiniteSet(ks),
         \A l \in ks : EncodedSize(b[l]) \in Nat
  PROVE  /\ SizeOf(b, ks) = SizeOf(b, ks \ {k}) + EncodedSize(b[k])
         /\ SizeOf(b, ks \ {k}) \in Nat
<1>1. IsFiniteSet(ks \ {k}) /\ IsFiniteSet({k}) /\ (ks \ {k}) \cup {k} = ks
  BY FS_Subset, FS_Singleton
<1>2. SizeOf(b, ks) = SizeOf(b, ks \ {k}) + SizeOf(b, {k})
  BY SMTT(30), <1>1, SizeAdds, (ks \ {k}) \cap {k} = {}
<1>3. Bytes(b, {k}) = {k} \X (1..EncodedSize(b[k]))
  BY DEF Bytes
<1>4. SizeOf(b, {k}) = EncodedSize(b[k])
  BY <1>3, RecordBytes DEF SizeOf
<1> QED BY <1>1, <1>2, <1>4, BytesFinite

\* A bucket of jobs has finitely many keys, and each job its size.
LEMMA BucketSizes ==
  ASSUME NEW b, IsBucket(b, Key, Job)
  PROVE  /\ IsFiniteSet(DOMAIN b)
         /\ \A k \in DOMAIN b : EncodedSize(b[k]) \in Nat
         /\ SizeOf(b, DOMAIN b) \in Nat
<1>1. IsFiniteSet(Key)
  <2>1. 1 \in Int /\ MaxStamp \in Int /\ MaxJobs \in Int
    OBVIOUS
  <2>2. IsFiniteSet(1..MaxStamp) /\ IsFiniteSet(1..MaxJobs)
    BY <2>1, FS_Interval
  <2> QED BY <2>2, FS_Product DEF Key, Stamps
<1>2. IsFiniteSet(DOMAIN b)
  BY <1>1, FS_Subset DEF IsBucket
<1>3. \A k \in DOMAIN b : EncodedSize(b[k]) \in Nat
  BY EncodedSizes DEF IsBucket
<1> QED BY <1>2, <1>3, BytesFinite

\* The transactions change the counter by what they change the bucket: the clamp
\* at zero of addPendingBytes never cuts anything off.
LEMMA BytesAccountedStep ==
  IInv /\ BytesAccounted /\ [Next]_vars => BytesAccounted'
<1> SUFFICES ASSUME IInv, BytesAccounted, [Next]_vars PROVE BytesAccounted'
  OBVIOUS
<1> USE DEF buckets, process, observed
<1> DEFINE P == DOMAIN pending
<1>1. IsBucket(pending, Key, Job) /\ IsBucket(dead, Key, Job)
  BY DEF IInv, TypeOK
<1>2. bytes \in Nat /\ bytes = SizeOf(pending, P)
  BY <1>1, BucketSizes DEF BytesAccounted
<1>3. /\ IsFiniteSet(P) /\ \A k \in P : EncodedSize(pending[k]) \in Nat
      /\ IsFiniteSet(DOMAIN dead)
  BY <1>1, BucketSizes
<1>4. IsBucket(pending', Key, Job)
  BY NextTypes DEF IInv, TypeOK
<1>5. /\ IsFiniteSet(DOMAIN pending')
      /\ \A k \in DOMAIN pending' : EncodedSize(pending'[k]) \in Nat
  BY <1>4, BucketSizes
<1>6. ASSUME NEW c \in Clients, EnqueueNew(c) PROVE BytesAccounted'
  <2> DEFINE q == request[c].payload
             key == <<request[c].at, seq + 1>>
  <2>1. key \notin P
    <3>1. key[2] = seq + 1 /\ seq \in Nat
      BY DEF IInv, TypeOK
    <3> QED BY <3>1 DEF IInv, OneHome
  <2>2. /\ DOMAIN pending' = P \cup {key} /\ pending'[key] = NewJob(q)
        /\ \A k \in P : pending'[k] = pending[k]
    BY <1>6, <2>1 DEF EnqueueNew, Put
  <2>3. DOMAIN pending' \ {key} = P
    BY <2>1, <2>2
  <2>4. SizeOf(pending', DOMAIN pending') = SizeOf(pending', P) + EncodedSize(NewJob(q))
        /\ EncodedSize(NewJob(q)) \in Nat
    <3>1. key \in DOMAIN pending'
      BY <2>2
    <3> HIDE DEF key
    <3>2. SizeOf(pending', DOMAIN pending')
            = SizeOf(pending', DOMAIN pending' \ {key}) + EncodedSize(pending'[key])
      BY <1>5, <3>1, SizeSplits
    <3> QED BY <1>5, <2>2, <2>3, <3>1, <3>2
  <2>5. SizeOf(pending', P) = SizeOf(pending, P)
    BY <2>2, SizeDepends
  <2>6. bytes' = AddBytes(EncodedSize(NewJob(q)))
    BY <1>6 DEF EnqueueNew
  <2> QED BY <1>2, <2>4, <2>5, <2>6 DEF BytesAccounted, AddBytes
<1>7. ASSUME InHand, bytes' = AddBytes(-StoredSize(drainer.key)),
             pending' = Without(pending, {drainer.key})
      PROVE  BytesAccounted'
  <2> DEFINE k == drainer.key
  <2>1. k \in P
    BY <1>7 DEF IInv, OneHome
  <2>2. DOMAIN pending' = P \ {k} /\ \A l \in P \ {k} : pending'[l] = pending[l]
    BY <1>7 DEF Without
  <2>3. SizeOf(pending', P \ {k}) = SizeOf(pending, P \ {k})
    BY <2>2, SizeDepends
  <2>4. /\ SizeOf(pending, P) = SizeOf(pending, P \ {k}) + EncodedSize(pending[k])
        /\ SizeOf(pending, P \ {k}) \in Nat
    BY <1>3, <2>1, SizeSplits
  <2>5. StoredSize(k) = EncodedSize(pending[k]) /\ EncodedSize(pending[k]) \in Nat
    BY <1>3, <2>1 DEF StoredSize
  <2>6. bytes' = SizeOf(pending, P \ {k})
    BY <1>2, <1>7, <2>4, <2>5 DEF AddBytes
  <2> QED BY <2>2, <2>3, <2>6 DEF BytesAccounted
<1>8. CASE RecordFailure
  <2> DEFINE k == drainer.key
             n == Inc(drainer.job.attempts)
             job == [drainer.job EXCEPT !.attempts = n, !.wait = Backoff[n],
                                        !.err = TRUE]
  <2>1. k \in P
    BY <1>8 DEF RecordFailure, InHand, IInv, OneHome
  <2>2. /\ DOMAIN pending' = P /\ pending'[k] = job
        /\ \A l \in P \ {k} : pending'[l] = pending[l]
    BY <1>8, <2>1 DEF RecordFailure, Put
  <2>3. SizeOf(pending', P \ {k}) = SizeOf(pending, P \ {k})
    BY <2>2, SizeDepends
  <2>4. /\ SizeOf(pending, P) = SizeOf(pending, P \ {k}) + EncodedSize(pending[k])
        /\ SizeOf(pending, P \ {k}) \in Nat
    BY <1>3, <2>1, SizeSplits
  <2>5. /\ SizeOf(pending', P) = SizeOf(pending', P \ {k}) + EncodedSize(job)
        /\ EncodedSize(job) \in Nat
    <3>1. k \in DOMAIN pending'
      BY <2>1, <2>2
    <3> HIDE DEF job, k
    <3>2. SizeOf(pending', DOMAIN pending')
            = SizeOf(pending', DOMAIN pending' \ {k}) + EncodedSize(pending'[k])
      BY <1>5, <3>1, SizeSplits
    <3> QED BY <1>5, <2>2, <3>1, <3>2
  <2>6. bytes' = AddBytes(EncodedSize(job) - EncodedSize(pending[k]))
    BY <1>8, <2>1 DEF RecordFailure, StoredSize
  <2>7. EncodedSize(pending[k]) \in Nat
    BY <1>3, <2>1
  <2>8. bytes' = SizeOf(pending, P \ {k}) + EncodedSize(job)
    <3> HIDE DEF job
    <3> QED BY <1>2, <2>4, <2>5, <2>6, <2>7 DEF AddBytes
  <2> QED BY <2>2, <2>3, <2>5, <2>8 DEF BytesAccounted
<1>9. ASSUME NEW ks \in SUBSET DOMAIN dead,
             NEW last \in [{dead[k].payload : k \in ks} -> ks],
             ReplayDead(ks, last)
      PROVE  BytesAccounted'
  <2> DEFINE back == [k \in ks |-> Replayed(dead[k])]
  <2>1. P \cap ks = {}
    BY DEF IInv, OneHome
  <2>2. /\ DOMAIN pending' = P \cup ks
        /\ \A k \in P : pending'[k] = pending[k]
        /\ \A k \in ks : pending'[k] = back[k]
    BY <1>9, <2>1 DEF ReplayDead
  <2>3. IsFiniteSet(ks)
    BY <1>3, FS_Subset
  <2>4. SizeOf(pending', P \cup ks) = SizeOf(pending', P) + SizeOf(pending', ks)
    BY <1>3, <1>5, <2>1, <2>2, <2>3, SizeAdds
  <2>5. SizeOf(pending', P) = SizeOf(pending, P)
    BY <2>2, SizeDepends
  <2>6. SizeOf(pending', ks) = SizeOf(back, ks)
    <3> HIDE DEF back
    <3> QED BY <2>2, SizeDepends
  <2>7. SizeOf(pending', ks) \in Nat
    BY <1>5, <2>2, <2>3, BytesFinite
  <2>8. bytes' = AddBytes(SizeOf(back, ks))
    BY <1>9 DEF ReplayDead
  <2> HIDE DEF back
  <2> QED
    BY <1>2, <2>2, <2>4, <2>5, <2>6, <2>7, <2>8 DEF BytesAccounted, AddBytes
<1>10. CASE Tick
  <2>1. DOMAIN pending' = P /\ bytes' = bytes
    BY <1>10 DEF Tick
  <2>2. \A k \in P : EncodedSize(pending'[k]) = EncodedSize(pending[k])
    BY <1>1, <1>10 DEF Tick, EncodedSize, IsBucket, Job
  <2>3. SizeOf(pending', P) = SizeOf(pending, P)
    BY <2>2, SizeDepends
  <2> QED BY <1>2, <2>1, <2>3 DEF BytesAccounted
<1>11. CASE UNCHANGED <<pending, bytes>>
  BY <1>2, <1>11 DEF BytesAccounted
<1>12. CASE MarkDone \/ MarkDead
  BY <1>7, <1>12 DEF MarkDone, MarkDead, InHand
<1>13. \/ \E c \in Clients : EnqueueNew(c)
       \/ Mark \/ ReplaySome \/ Tick
       \/ UNCHANGED <<pending, bytes>>
  BY DEF Next, vars, Receive, Enqueue, EnqueueDuplicate, EnqueueFull, FetchDue,
         NothingDue, Wake, Handler, HandleOk, HandleAmbiguous, HandleError,
         HandlePermanent, CleanupDedupe, Crash, Start, DbDown, DbBack
<1> QED
  BY <1>6, <1>8, <1>9, <1>10, <1>11, <1>12, <1>13 DEF Mark, ReplaySome

\* Admission control reads the true size of what is pending, for any sizes.
THEOREM BytesAreAccounted == Spec => []BytesAccounted
<1>1. Init => BytesAccounted
  <2> SUFFICES ASSUME Init PROVE BytesAccounted
    OBVIOUS
  <2>1. DOMAIN pending = {} /\ bytes = 0
    BY DEF Init
  <2> QED BY <2>1, SizeOfNone DEF BytesAccounted
<1> QED BY <1>1, Invariance, BytesAccountedStep, PTL DEF Spec

(***************************************************************************)
(* The copies in the database                                              *)
(***************************************************************************)

\* What follows counts jobs, whatever the limits.
HIDE OutboxAssumption

\* The job whose insert the drainer knows to have committed.
Done == IF drainer.pc = "returned" /\ drainer.outcome = "ok"
          THEN {drainer.key} ELSE {}

\* Every job admitted accounts for one copy, the one it will still make or the
\* one it has made; a mishap gives a job that made one the right to another.
CopiesCounted ==
  \A p \in Payload :
    stored[p] + Cardinality(HeldJobs(p) \ Done) <= admitted[p] + mishaps

\* Traffic rows are inserted ON CONFLICT DO NOTHING.
StoredOnce == \A p \in Payload : KindOf[p] \in Idempotent => stored[p] <= 1

\* The outbox holds finitely many jobs.
LEMMA HeldFinite ==
  ASSUME TypeOK, NEW p \in Payload
  PROVE  IsFiniteSet(HeldJobs(p)) /\ \A D : /\ IsFiniteSet(HeldJobs(p) \ D)
                                            /\ Cardinality(HeldJobs(p) \ D) \in Nat
<1>1. IsFiniteSet(DOMAIN pending \cup DOMAIN dead)
  BY BucketSizes, FS_Union DEF TypeOK
<1>2. HeldJobs(p) \in SUBSET (DOMAIN pending \cup DOMAIN dead)
  BY DEF HeldJobs
<1>3. IsFiniteSet(HeldJobs(p))
  BY <1>1, <1>2, FS_Subset
<1>4. \A D : IsFiniteSet(HeldJobs(p) \ D)
  BY <1>3, FS_Difference
<1> QED BY <1>3, <1>4, FS_CardinalityType

\* A job the drainer has in hand is done with as soon as its insert commits.
LEMMA HandlerCounts ==
  ASSUME IInv, CopiesCounted, Handler
  PROVE  CopiesCounted'
<1> SUFFICES ASSUME NEW p \in Payload
             PROVE  stored'[p] + Cardinality(HeldJobs(p)' \ Done')
                      <= admitted'[p] + mishaps'
  BY DEF CopiesCounted
<1> DEFINE q == drainer.job.payload
<1>1. drainer.pc = "handling" /\ InHand
  BY DEF Handler, HandleOk, HandleAmbiguous, HandleError, HandlePermanent, InHand
<1>2. HeldJobs(p)' = HeldJobs(p) /\ admitted' = admitted
  BY DEF Handler, HandleOk, HandleAmbiguous, HandleError, HandlePermanent,
         buckets, observed, HeldJobs
<1>3. Done = {}
  BY <1>1 DEF Done
<1>4. q \in Payload /\ drainer.key \in HeldJobs(q)
  BY <1>1, InHandHeld DEF HeldJobs, Job
<1>5. p # q => drainer.key \notin HeldJobs(p)
  BY <1>1, InHandHeld DEF HeldJobs
<1>6. /\ stored[p] \in Nat /\ admitted[p] \in Nat /\ mishaps \in Nat
      /\ stored[p] + Cardinality(HeldJobs(p)) <= admitted[p] + mishaps
  BY <1>3 DEF CopiesCounted, IInv, TypeOK
<1>7. IsFiniteSet(HeldJobs(p)) /\ Cardinality(HeldJobs(p)) \in Nat
  BY HeldFinite, FS_CardinalityType DEF IInv
<1>8. Commit(q) => IF p = q THEN stored'[p] <= stored[p] + 1 /\ stored'[p] \in Nat
                            ELSE stored'[p] = stored[p]
  <2> SUFFICES ASSUME Commit(q) PROVE IF p = q THEN stored'[p] <= stored[p] + 1 /\ stored'[p] \in Nat
                            ELSE stored'[p] = stored[p]
    OBVIOUS
  <2>1. stored \in [Payload -> Nat]
    BY DEF IInv, TypeOK
  <2> HIDE DEF q
  <2> QED BY <1>4, <2>1 DEF Commit
<1>9. CASE HandleOk
  <2>1. Done' = {drainer.key}
    BY <1>9, DrainerShapes DEF HandleOk, HandlerReturns, Done
  <2>2. Commit(q) /\ mishaps' = mishaps
    BY <1>9 DEF HandleOk
  <2>3. Cardinality(HeldJobs(p) \ {drainer.key})
          = IF drainer.key \in HeldJobs(p) THEN Cardinality(HeldJobs(p)) - 1
                                           ELSE Cardinality(HeldJobs(p))
    BY <1>7, FS_RemoveElement
  <2>4. HeldJobs(p)' \ Done' = HeldJobs(p) \ {drainer.key}
    BY <1>2, <2>1
  <2> HIDE DEF q
  <2>5. CASE p = q
    <3>1. Cardinality(HeldJobs(p)' \ Done') = Cardinality(HeldJobs(p)) - 1
      BY <1>4, <2>3, <2>4, <2>5
    <3>2. stored'[p] <= stored[p] + 1 /\ stored'[p] \in Nat
      BY <1>8, <2>2, <2>5
    <3> QED BY <1>2, <1>6, <1>7, <2>2, <3>1, <3>2
  <2>6. CASE p # q
    <3>1. Cardinality(HeldJobs(p)' \ Done') = Cardinality(HeldJobs(p))
      BY <1>5, <2>3, <2>4, <2>6
    <3> QED BY <1>2, <1>6, <1>8, <2>2, <2>6, <3>1
  <2> QED BY <2>5, <2>6
<1>10. CASE HandleAmbiguous
  <2>1. Done' = {}
    BY <1>10, DrainerShapes DEF HandleAmbiguous, HandlerReturns, Done
  <2>2. Commit(q) /\ mishaps' = mishaps + 1
    BY <1>10 DEF HandleAmbiguous
  <2>3. HeldJobs(p)' \ Done' = HeldJobs(p)
    BY <1>2, <2>1
  <2>4. Cardinality(HeldJobs(p)' \ Done') = Cardinality(HeldJobs(p))
    BY <2>3
  <2> HIDE DEF q
  <2>5. stored'[p] <= stored[p] + 1 /\ stored'[p] \in Nat
    BY <1>6, <1>8, <2>2
  <2> QED BY <1>2, <1>6, <1>7, <2>2, <2>4, <2>5
<1>11. CASE HandleError \/ HandlePermanent
  <2>1. Done' = {}
    BY <1>11, DrainerShapes DEF HandleError, HandlePermanent, HandlerReturns, Done
  <2>2. stored' = stored /\ mishaps' = mishaps
    BY <1>11 DEF HandleError, HandlePermanent, observed
  <2> QED BY <1>2, <1>6, <2>1, <2>2
<1> QED BY <1>9, <1>10, <1>11 DEF Handler

\* Admitting a job counts it, a commit counts the copy instead, and a restart that
\* forgets a commit is a mishap.
LEMMA CopiesCountedStep ==
  IInv /\ CopiesCounted /\ [Next]_vars => CopiesCounted'
<1> SUFFICES ASSUME IInv, CopiesCounted, [Next]_vars PROVE CopiesCounted'
  OBVIOUS
<1> USE DEF buckets, process, observed
<1>1. \A p \in Payload :
        /\ stored[p] \in Nat /\ admitted[p] \in Nat /\ mishaps \in Nat
        /\ stored[p] + Cardinality(HeldJobs(p) \ Done) <= admitted[p] + mishaps
        /\ \A D : /\ IsFiniteSet(HeldJobs(p) \ D)
                  /\ Cardinality(HeldJobs(p) \ D) \in Nat
  <2> TAKE p \in Payload
  <2>1. stored[p] \in Nat /\ admitted[p] \in Nat /\ mishaps \in Nat
    BY DEF IInv, TypeOK
  <2>2. \A D : /\ IsFiniteSet(HeldJobs(p) \ D)
               /\ Cardinality(HeldJobs(p) \ D) \in Nat
    BY HeldFinite DEF IInv
  <2> QED BY <2>1, <2>2 DEF CopiesCounted
<1>2. ASSUME NEW c \in Clients, EnqueueNew(c) PROVE CopiesCounted'
  <2> DEFINE q == request[c].payload
             key == <<request[c].at, seq + 1>>
  <2>1. key \notin DOMAIN pending
    <3>1. key[2] = seq + 1 /\ seq \in Nat
      BY DEF IInv, TypeOK
    <3> QED BY <3>1 DEF IInv, OneHome
  <2>2. /\ DOMAIN pending' = DOMAIN pending \cup {key}
        /\ pending'[key].payload = q /\ dead' = dead
        /\ \A k \in DOMAIN pending : pending'[k] = pending[k]
    BY <1>2, <2>1 DEF EnqueueNew, Put, NewJob
  <2>3. /\ q \in Payload /\ UNCHANGED <<drainer, stored, mishaps>>
        /\ admitted' = [admitted EXCEPT ![q] = @ + 1]
    BY <1>2 DEF EnqueueNew, IInv, TypeOK, Request, NoRequest
  <2>4. Done' = Done
    BY <2>3 DEF Done
  <2> SUFFICES ASSUME NEW p \in Payload
               PROVE  stored'[p] + Cardinality(HeldJobs(p)' \ Done')
                        <= admitted'[p] + mishaps'
    BY DEF CopiesCounted
  <2>5. CASE p # q
    <3>1. HeldJobs(p)' = HeldJobs(p)
      BY <2>1, <2>2, <2>5 DEF HeldJobs
    <3>2. admitted'[p] = admitted[p]
      BY <2>3, <2>5 DEF IInv, TypeOK
    <3> QED BY <1>1, <2>3, <2>4, <3>1, <3>2
  <2>6. CASE p = q
    <3>1. HeldJobs(p)' = HeldJobs(p) \cup {key}
      BY <2>1, <2>2, <2>6 DEF HeldJobs
    <3>2. admitted'[p] = admitted[p] + 1
      BY <2>3, <2>6 DEF IInv, TypeOK
    <3>3. HeldJobs(p)' \ Done' = (HeldJobs(p) \ Done)
          \/ HeldJobs(p)' \ Done' = (HeldJobs(p) \ Done) \cup {key}
      BY <2>4, <3>1
    <3>4. Cardinality((HeldJobs(p) \ Done) \cup {key})
            = IF key \in HeldJobs(p) \ Done
                THEN Cardinality(HeldJobs(p) \ Done)
                ELSE Cardinality(HeldJobs(p) \ Done) + 1
      BY <1>1, FS_AddElement
    <3> DEFINE n == Cardinality(HeldJobs(p) \ Done)
               m == Cardinality(HeldJobs(p)' \ Done')
    <3>5. n \in Nat /\ m \in {n, n + 1}
      <4> HIDE DEF key
      <4> QED BY <1>1, <3>3, <3>4
    <3>6. stored[p] + n <= admitted[p] + mishaps
      BY <1>1
    <3>7. stored[p] \in Nat /\ admitted[p] \in Nat /\ mishaps \in Nat
      BY <1>1
    <3>8. stored'[p] = stored[p] /\ mishaps' = mishaps
      BY <2>3
    <3>9. stored'[p] + m <= admitted'[p] + mishaps'
      <4> HIDE DEF n, m
      <4> QED BY <3>2, <3>5, <3>6, <3>7, <3>8
    <3> QED BY <3>9
  <2> QED BY <2>5, <2>6
<1>3. CASE Handler
  BY <1>3, HandlerCounts
<1>4. CASE MarkDone
  <2>1. InHand /\ Done = {drainer.key}
    BY <1>4 DEF MarkDone, InHand, Done
  <2>2. Done' = {}
    BY <1>4, DrainerShapes DEF MarkDone, Done
  <2>3. \A p : HeldJobs(p)' = HeldJobs(p) \ Done
    BY <1>4, <2>1, InHandHeld DEF MarkDone, Without, HeldJobs
  <2>4. UNCHANGED <<stored, admitted, mishaps>>
    BY <1>4 DEF MarkDone
  <2>5. \A p : HeldJobs(p)' \ Done' = HeldJobs(p) \ Done
    BY <2>2, <2>3
  <2> QED BY <2>4, <2>5 DEF CopiesCounted
<1>5. CASE MarkDead \/ RecordFailure \/ ReplaySome \/ Tick
  <2>1. UNCHANGED <<stored, admitted, mishaps>>
    BY <1>5 DEF MarkDead, RecordFailure, ReplaySome, ReplayDead, Tick
  <2>2. Done' = Done
    <3>1. CASE MarkDead \/ RecordFailure
      BY <3>1, DrainerShapes DEF MarkDead, RecordFailure, Done
    <3>2. CASE ReplaySome
      BY <3>2 DEF ReplaySome, ReplayDead, Done
    <3>3. CASE Tick
      BY <3>3, DrainerShapes DEF Tick, Done
    <3> QED BY <1>5, <3>1, <3>2, <3>3
  <2>3. \A p \in Payload : HeldJobs(p)' = HeldJobs(p)
    BY <1>5, MovesKeepHeld
  <2> QED BY <2>1, <2>2, <2>3 DEF CopiesCounted
<1>6. CASE Crash
  <2>1. Done' = {} /\ UNCHANGED <<stored, admitted>> /\ mishaps' = mishaps + 1
    BY <1>6, DrainerShapes DEF Crash, Done
  <2>2. \A p : HeldJobs(p)' = HeldJobs(p)
    BY <1>6 DEF Crash, HeldJobs
  <2> SUFFICES ASSUME NEW p \in Payload
               PROVE  stored'[p] + Cardinality(HeldJobs(p)' \ Done')
                        <= admitted'[p] + mishaps'
    BY DEF CopiesCounted
  <2>3. HeldJobs(p)' \ Done' = HeldJobs(p)
    BY <2>1, <2>2
  <2>4. Cardinality(HeldJobs(p)) <= Cardinality(HeldJobs(p) \ Done) + 1
        /\ Cardinality(HeldJobs(p)) \in Nat
    <3>1. IsFiniteSet(HeldJobs(p))
      BY HeldFinite DEF IInv
    <3>2. Cardinality(HeldJobs(p)) \in Nat
      BY <3>1, FS_CardinalityType
    <3>3. CASE Done = {}
      <4>1. HeldJobs(p) \ Done = HeldJobs(p)
        BY <3>3
      <4>2. Cardinality(HeldJobs(p) \ Done) = Cardinality(HeldJobs(p))
        BY <4>1
      <4> QED BY <3>2, <4>2
    <3>4. CASE Done = {drainer.key}
      <4>1. Cardinality(HeldJobs(p) \ {drainer.key})
              = IF drainer.key \in HeldJobs(p) THEN Cardinality(HeldJobs(p)) - 1
                                               ELSE Cardinality(HeldJobs(p))
        BY <3>1, FS_RemoveElement
      <4> QED BY <3>2, <3>4, <4>1
    <3> QED BY <3>3, <3>4 DEF Done
  <2>5. Cardinality(HeldJobs(p)' \ Done') = Cardinality(HeldJobs(p))
    BY <2>3
  <2>6. /\ stored[p] \in Nat /\ admitted[p] \in Nat /\ mishaps \in Nat
        /\ stored[p] + Cardinality(HeldJobs(p) \ Done) <= admitted[p] + mishaps
        /\ Cardinality(HeldJobs(p) \ Done) \in Nat
    BY <1>1
  <2> QED BY <2>1, <2>4, <2>5, <2>6
<1>7. CASE FetchDue \/ NothingDue \/ Wake
  <2>1. Done = {} /\ Done' = {}
    BY <1>7, DrainerShapes DEF FetchDue, NothingDue, Wake, Done
  <2>2. UNCHANGED <<pending, dead, stored, admitted, mishaps>>
    BY <1>7 DEF FetchDue, NothingDue, Wake
  <2> QED BY <2>1, <2>2 DEF CopiesCounted, HeldJobs
<1>8. CASE UNCHANGED <<pending, dead, drainer, stored, admitted, mishaps>>
  BY <1>8 DEF CopiesCounted, HeldJobs, Done
<1>9. \/ \E c \in Clients : EnqueueNew(c)
      \/ Handler \/ Mark \/ ReplaySome \/ Tick \/ Crash
      \/ FetchDue \/ NothingDue \/ Wake
      \/ UNCHANGED <<pending, dead, drainer, stored, admitted, mishaps>>
  BY DEF Next, vars, Receive, Enqueue, EnqueueDuplicate, EnqueueFull,
         CleanupDedupe, Start, DbDown, DbBack
<1> QED
  BY <1>2, <1>3, <1>4, <1>5, <1>6, <1>7, <1>8, <1>9 DEF Mark

\* A commit of a traffic batch leaves one copy, however often it happens.
LEMMA StoredOnceStep == TypeOK /\ StoredOnce /\ [Next]_vars => StoredOnce'
<1> SUFFICES ASSUME TypeOK, StoredOnce, [Next]_vars,
                    NEW p \in Payload, KindOf[p] \in Idempotent
             PROVE  stored'[p] <= 1
  BY DEF StoredOnce
<1>1. stored[p] <= 1
  BY DEF StoredOnce
<1>2. \A q : Commit(q) => stored'[p] = stored[p] \/ stored'[p] = 1
  BY DEF Commit, TypeOK
<1>3. stored' = stored \/ \E q : Commit(q)
  BY DEF Next, vars, observed, Receive, Enqueue, EnqueueDuplicate, EnqueueFull,
         EnqueueNew, FetchDue, NothingDue, Wake, Handler, HandleOk,
         HandleAmbiguous, HandleError, HandlePermanent, Mark, MarkDone, MarkDead,
         RecordFailure, CleanupDedupe, ReplaySome, ReplayDead, Tick, Crash,
         Start, DbDown, DbBack
<1> QED BY <1>1, <1>2, <1>3

\* Copies beyond one per admitted job are the mishaps', for any number of them,
\* and a traffic batch never has a second copy.
THEOREM CopiesAreAccounted == Spec => []CopiesAccounted
<1>1. Init => CopiesCounted /\ StoredOnce
  <2> SUFFICES ASSUME Init PROVE CopiesCounted /\ StoredOnce
    OBVIOUS
  <2>1. \A p : HeldJobs(p) \ Done = {}
    BY DEF Init, HeldJobs
  <2>2. \A p \in Payload : stored[p] = 0 /\ admitted[p] = 0 /\ mishaps = 0
    BY DEF Init
  <2>3. \A p : Cardinality(HeldJobs(p) \ Done) = 0
    BY <2>1, FS_EmptySet
  <2> QED BY <2>2, <2>3 DEF CopiesCounted, StoredOnce
<1>2. IInv => TypeOK
  BY DEF IInv
<1>3. IInv /\ CopiesCounted /\ StoredOnce => CopiesAccounted
  <2> SUFFICES ASSUME IInv, CopiesCounted, StoredOnce, NEW p \in Payload
               PROVE  stored[p] <= admitted[p] + mishaps
    BY DEF CopiesAccounted, StoredOnce
  <2>1. Cardinality(HeldJobs(p) \ Done) \in Nat
    BY HeldFinite DEF IInv
  <2>2. stored[p] \in Nat /\ admitted[p] \in Nat /\ mishaps \in Nat
    BY DEF IInv, TypeOK
  <2>3. stored[p] + Cardinality(HeldJobs(p) \ Done) <= admitted[p] + mishaps
    BY DEF CopiesCounted
  <2> QED BY <2>1, <2>2, <2>3
<1> QED
  BY <1>1, <1>2, <1>3, Invariance, CopiesCountedStep, StoredOnceStep, PTL DEF Spec

(***************************************************************************)
(* Dead letters                                                            *)
(***************************************************************************)

\* What MarkDead relies on: nothing is in the drainer's hand while the process is
\* down, the answer "permanent" speaks of this binary, and with a limit every
\* pending job has an attempt left.
IdleWhenDown == ~running => drainer = Idle
PermanentMeansUnknown ==
  drainer.pc = "returned" /\ drainer.outcome = "permanent"
    => KindOf[drainer.job.payload] \notin known
RetriesLeft ==
  MaxAttempts > 0 => \A k \in DOMAIN pending : pending[k].attempts < MaxAttempts

Verdicts == IdleWhenDown /\ PermanentMeansUnknown /\ RetriesLeft

\* The binary changes only while the process is down.
LEMMA VerdictsStep == IInv /\ Verdicts /\ [Next]_vars => Verdicts'
<1> SUFFICES ASSUME IInv, Verdicts, [Next]_vars PROVE Verdicts'
  OBVIOUS
<1> USE DEF buckets, process, observed
<1>1. IdleWhenDown'
  <2>1. CASE Crash
    BY <2>1 DEF Crash, IdleWhenDown
  <2>2. CASE Start
    BY <2>2 DEF Start, IdleWhenDown
  <2>3. CASE Tick
    BY <2>3, DrainerShapes DEF Tick, Verdicts, IdleWhenDown
  <2>4. CASE running' = running /\ (running \/ drainer' = drainer)
    BY <2>4 DEF Verdicts, IdleWhenDown
  <2>5. CASE FetchDue \/ NothingDue \/ Wake \/ Handler \/ Mark
    <3>1. running' = running /\ running
      BY <2>5 DEF FetchDue, NothingDue, Wake, Handler, HandleOk, HandleAmbiguous,
                  HandleError, HandlePermanent, Mark, MarkDone, MarkDead,
                  RecordFailure
    <3> QED BY <2>4, <3>1
  <2> QED
    BY <2>1, <2>2, <2>3, <2>4, <2>5
       DEF Next, vars, Receive, Enqueue, EnqueueDuplicate, EnqueueFull,
           EnqueueNew, CleanupDedupe, ReplaySome, ReplayDead, DbDown, DbBack
<1>2. PermanentMeansUnknown'
  <2>1. CASE HandlePermanent
    BY <2>1, DrainerShapes DEF HandlePermanent, HandlerReturns, PermanentMeansUnknown
  <2>2. CASE HandleOk \/ HandleAmbiguous \/ HandleError
    BY <2>2, DrainerShapes
       DEF HandleOk, HandleAmbiguous, HandleError, HandlerReturns,
           PermanentMeansUnknown
  <2>3. CASE drainer' = drainer /\ known' = known
    BY <2>3 DEF Verdicts, PermanentMeansUnknown
  <2>4. CASE Start
    BY <2>4, DrainerShapes DEF Start, Verdicts, IdleWhenDown, PermanentMeansUnknown
  <2>5. CASE FetchDue \/ NothingDue \/ Wake
    BY <2>5, DrainerShapes DEF FetchDue, NothingDue, Wake, PermanentMeansUnknown
  <2>6. CASE MarkDone \/ MarkDead \/ RecordFailure \/ Crash
    BY <2>6, DrainerShapes
       DEF MarkDone, MarkDead, RecordFailure, Crash, PermanentMeansUnknown
  <2>7. CASE Tick
    BY <2>7, DrainerShapes DEF Tick, Verdicts, PermanentMeansUnknown
  <2> QED
    BY <2>1, <2>2, <2>3, <2>4, <2>5, <2>6, <2>7
       DEF Next, vars, Receive, Enqueue, EnqueueDuplicate, EnqueueFull,
           EnqueueNew, Handler, Mark, CleanupDedupe, ReplaySome, ReplayDead,
           DbDown, DbBack
<1>3. RetriesLeft'
  <2> SUFFICES ASSUME MaxAttempts > 0, NEW k \in DOMAIN pending'
               PROVE  pending'[k].attempts < MaxAttempts
    BY DEF RetriesLeft
  <2>1. \A l \in DOMAIN pending : pending[l].attempts < MaxAttempts
    BY DEF Verdicts, RetriesLeft
  <2>2. ASSUME NEW c \in Clients, EnqueueNew(c)
        PROVE  pending'[k].attempts < MaxAttempts
    BY <2>1, <2>2 DEF EnqueueNew, Put, NewJob
  <2>3. CASE MarkDone \/ MarkDead
    BY <2>1, <2>3 DEF MarkDone, MarkDead, Without
  <2>4. CASE RecordFailure
    <3>1. InHand
      BY <2>4 DEF RecordFailure, InHand
    <3>2. drainer.job \in Job /\ Inc(drainer.job.attempts) \in Nat
      <4>1. drainer.job \in Job
        BY <3>1, InHandHeld
      <4>2. drainer.job.attempts \in Count
        BY <4>1 DEF Job
      <4> QED BY <4>1, <4>2 DEF Inc, Count
    <3>3. ~Exhausted(Inc(drainer.job.attempts))
      BY <2>4 DEF RecordFailure
    <3>4. k = drainer.key => pending'[k].attempts = Inc(drainer.job.attempts)
      BY <2>4, <3>2 DEF RecordFailure, Put, Job
    <3>5. k # drainer.key => k \in DOMAIN pending /\ pending'[k] = pending[k]
      BY <2>4 DEF RecordFailure, Put
    <3> QED BY <2>1, <3>2, <3>3, <3>4, <3>5, OutboxAssumption DEF Exhausted
  <2>5. ASSUME NEW ks \in SUBSET DOMAIN dead,
               NEW last \in [{dead[l].payload : l \in ks} -> ks],
               ReplayDead(ks, last)
        PROVE  pending'[k].attempts < MaxAttempts
    <3>1. \A l \in ks : Replayed(dead[l]).attempts = 0
      BY DEF IInv, TypeOK, IsBucket, Replayed, Job
    <3> QED BY <2>1, <2>5, <3>1 DEF ReplayDead
  <2>6. CASE Tick
    <3>1. k \in DOMAIN pending /\ pending'[k].attempts = pending[k].attempts
      BY <2>6 DEF Tick, IInv, TypeOK, IsBucket, Job
    <3> QED BY <2>1, <3>1
  <2>7. CASE pending' = pending
    BY <2>1, <2>7
  <2>8. \/ \E c \in Clients : EnqueueNew(c)
        \/ Mark \/ ReplaySome \/ Tick \/ pending' = pending
    BY DEF Next, vars, Receive, Enqueue, EnqueueDuplicate, EnqueueFull, FetchDue,
           NothingDue, Wake, Handler, HandleOk, HandleAmbiguous, HandleError,
           HandlePermanent, CleanupDedupe, Crash, Start, DbDown, DbBack
  <2> QED BY <2>2, <2>3, <2>4, <2>5, <2>6, <2>7, <2>8 DEF Mark, ReplaySome
<1> QED BY <1>1, <1>2, <1>3 DEF Verdicts

\* A job that joins the dead letters is one this binary cannot handle, or one that
\* has just used its last attempt.
LEMMA DeadLetterJustified ==
  ASSUME IInv, Verdicts, [Next]_vars, NEW k \in DOMAIN dead' \ DOMAIN dead
  PROVE  \/ KindOf[dead'[k].payload] \notin known
         \/ MaxAttempts > 0 /\ dead'[k].attempts = MaxAttempts
<1>1. MarkDead
  <2>1. dead' # dead
    OBVIOUS
  <2>2. ASSUME ReplaySome PROVE DOMAIN dead' \subseteq DOMAIN dead
    <3>1. PICK ks : dead' = Without(dead, ks)
      BY <2>2 DEF ReplaySome, ReplayDead
    <3> QED BY <3>1 DEF Without
  <2> QED
    BY <2>1, <2>2
       DEF Next, vars, buckets, process, observed, Receive, Enqueue,
           EnqueueDuplicate, EnqueueFull, EnqueueNew, FetchDue, NothingDue, Wake,
           Handler, HandleOk, HandleAmbiguous, HandleError, HandlePermanent, Mark,
           MarkDone, RecordFailure, CleanupDedupe, Tick, Crash, Start, DbDown,
           DbBack
<1>2. InHand /\ drainer.pc = "returned"
  BY <1>1 DEF MarkDead, InHand
<1>3. drainer.job \in Job /\ drainer.job = pending[drainer.key]
      /\ drainer.key \in DOMAIN pending
  BY <1>2, InHandHeld
<1>4. PICK job : /\ job = [drainer.job EXCEPT !.attempts = Inc(@), !.wait = 0,
                                             !.err = TRUE]
                 /\ dead' = Put(dead, drainer.key, job)
                 /\ \/ drainer.outcome = "permanent"
                    \/ drainer.outcome = "transient" /\ Exhausted(job.attempts)
  BY <1>1 DEF MarkDead
<1>5. job.payload = drainer.job.payload /\ job.attempts = Inc(drainer.job.attempts)
  BY <1>3, <1>4 DEF Job
<1>6. k = drainer.key /\ dead'[k] = job
  BY <1>4 DEF Put
<1>7. CASE drainer.outcome = "permanent"
  BY <1>2, <1>5, <1>6, <1>7 DEF Verdicts, PermanentMeansUnknown
<1>8. CASE Exhausted(job.attempts)
  <2>1. MaxAttempts > 0 /\ job.attempts >= MaxAttempts
    BY <1>8 DEF Exhausted
  <2>2. drainer.job.attempts < MaxAttempts /\ drainer.job.attempts \in Nat
    BY <1>3, <2>1 DEF Verdicts, RetriesLeft, Job, Count
  <2>3. Inc(drainer.job.attempts) <= MaxAttempts
        /\ Inc(drainer.job.attempts) \in Nat
    BY <2>2, OutboxAssumption DEF Inc
  <2> QED BY <1>5, <1>6, <2>1, <2>3, OutboxAssumption
<1> QED BY <1>4, <1>7, <1>8

\* A job is dead-lettered only for an unknown kind or a used-up limit; without a
\* limit no outage dead-letters anything, for any number of attempts.
THEOREM DeadLettersAreJustified == Spec => DeadLettersJustified
<1>1. Init => Verdicts
  BY DrainerShapes
     DEF Init, Verdicts, IdleWhenDown, PermanentMeansUnknown, RetriesLeft
<1>2. IInv /\ Verdicts /\ [Next]_vars =>
        [\A k \in DOMAIN dead' \ DOMAIN dead :
           \/ KindOf[dead'[k].payload] \notin known
           \/ MaxAttempts > 0 /\ dead'[k].attempts = MaxAttempts]_vars
  BY DeadLetterJustified
<1> QED
  BY <1>1, <1>2, Invariance, VerdictsStep, PTL DEF Spec, DeadLettersJustified
=============================================================================
