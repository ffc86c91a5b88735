----------------------------- MODULE SmsOutbox -----------------------------
(***************************************************************************)
(* The SMS reply queue of gofn/sms.go: rows of the table sms_outbox, the   *)
(* poll that reads a batch and then, in a second request, claims it, and   *)
(* the report that settles the rows one PATCH at a time.                   *)
(*                                                                         *)
(* The gateway at the TV station is external (gofn/sms.go and the plan in  *)
(* docs/INBOUND_SMS_WHATSAPP_PLAN.md say how it calls the service): it     *)
(* polls, sends each message it was given through the modem, reports what  *)
(* became of them, and polls again.  Agents are the poll cycles that may   *)
(* overlap: a second gateway, or a poll timer that does not wait.          *)
(***************************************************************************)
EXTENDS Integers, FiniteSets

CONSTANTS
  Msg,        \* replies that presenters queue
  Agents,     \* poll cycles that run concurrently
  Limit,      \* rows one poll returns at most
  MaxTime,    \* bound: distinct created_at seconds
  MaxMishaps  \* bound: failed requests, lost answers and gateway restarts

ASSUME SmsAssumption ==
  /\ Limit \in Nat \ {0}
  /\ MaxTime \in Nat
  /\ MaxMishaps \in Nat

VARIABLES
  status,     \* sms_outbox.status; "none" before the row exists
  created,    \* sms_outbox.created_at, in seconds
  now,        \* the second the service's clock shows
  agent,      \* per cycle: step, rows in hand, rows whose send succeeded
  delivered,  \* how often the modem sent each reply
  failedClaims,
  mishaps     \* all mishaps, failed claims included

vars == <<status, created, now, agent, delivered, failedClaims, mishaps>>

\* A cycle at one of its steps: the rows it was given, those it sent, and
\* those the step has still to deal with.
Holding(at, batch, ok, left) ==
  [at |-> at, batch |-> batch, ok |-> ok, left |-> left]
Idle == Holding("idle", {}, {}, {})

Init ==
  /\ status = [m \in Msg |-> "none"]
  /\ created = [m \in Msg |-> 0]
  /\ now = 0
  /\ agent = [a \in Agents |-> Idle]
  /\ delivered = [m \in Msg |-> 0]
  /\ failedClaims = 0
  /\ mishaps = 0

Mishap == mishaps < MaxMishaps /\ mishaps' = mishaps + 1

----------------------------------------------------------------------------
\* POST /enqueueSmsReply inserts one pending row.
Enqueue(m) ==
  /\ status[m] = "none"
  /\ status' = [status EXCEPT ![m] = "pending"]
  /\ created' = [created EXCEPT ![m] = now]
  /\ UNCHANGED <<now, agent, delivered, failedClaims, mishaps>>

Pending == {m \in Msg : status[m] = "pending"}

\* order=created_at.asc, limit=n; rows of one second come in any order.
Oldest(batch) ==
  /\ batch \subseteq Pending
  /\ IsFiniteSet(batch) /\ Cardinality(batch) <= Limit
  /\ Cardinality(batch) = Limit \/ batch = Pending
  /\ \A m \in batch, n \in Pending \ batch : created[m] <= created[n]

\* GET /smsOutboxPoll, first request to the database: read the batch.
PollRead(a) ==
  /\ agent[a].at = "idle"
  /\ \E batch \in SUBSET Pending :
       /\ batch # {}
       /\ Oldest(batch)
       /\ agent' = [agent EXCEPT ![a] = Holding("claiming", batch, {}, batch)]
  /\ UNCHANGED <<status, created, now, delivered, failedClaims, mishaps>>

\* Mutants: the claim's filter is the id list alone, or the status alone, or
\* the comma-joined pair that the gateway matches with no row.
ClaimAnyStatus(ms) == [m \in Msg |-> IF m \in ms THEN "sending" ELSE status[m]]
ClaimAllPending(ms) ==
  [m \in Msg |-> IF m \in Pending THEN "sending" ELSE status[m]]
ClaimNoRow(ms) == status

\* PATCH status=eq.pending,id=in.(...): rows some other poll claimed, or that
\* were reported meanwhile, are not touched.
ClaimRows(ms) ==
  [m \in Msg |-> IF m \in ms \cap Pending THEN "sending" ELSE status[m]]

\* Second request: claim the batch, then answer with the rows read before.
Claim(a) ==
  /\ agent[a].at = "claiming"
  /\ status' = ClaimRows(agent[a].batch)
  /\ agent' = [agent EXCEPT ![a].at = "sending"]
  /\ UNCHANGED <<created, now, delivered, failedClaims, mishaps>>

\* Its error is dropped, and the same rows are returned.
ClaimFails(a) ==
  /\ agent[a].at = "claiming"
  /\ Mishap
  /\ failedClaims' = failedClaims + 1
  /\ agent' = [agent EXCEPT ![a].at = "sending"]
  /\ UNCHANGED <<status, created, now, delivered>>

\* The gateway hands one reply to the modem.
Send(a, m) ==
  /\ agent[a].at = "sending"
  /\ m \in agent[a].left
  /\ \/ /\ delivered' = [delivered EXCEPT ![m] = @ + 1]
        /\ agent' = [agent EXCEPT ![a] =
                       Holding("sending", @.batch, @.ok \cup {m}, @.left \ {m})]
     \/ /\ agent' = [agent EXCEPT ![a].left = @ \ {m}]
        /\ UNCHANGED delivered
  /\ UNCHANGED <<status, created, now, failedClaims, mishaps>>

\* The gateway posts its results once it tried every row.
Report(a) ==
  /\ agent[a].at = "sending"
  /\ agent[a].left = {}
  /\ agent' = [agent EXCEPT ![a] = Holding("reporting", @.batch, @.ok, @.batch)]
  /\ UNCHANGED <<status, created, now, delivered, failedClaims, mishaps>>

\* Mutant: every reported row is marked sent.
ResultAlwaysSent(a, m) == "sent"
Result(a, m) == IF m \in agent[a].ok THEN "sent" ELSE "failed"

\* Mutant: a reported failure is not written.
ReportRowSuccessOnly(a, m) ==
  /\ agent[a].at = "reporting"
  /\ m \in agent[a].left
  /\ status' = [status EXCEPT ![m] = IF m \in agent[a].ok THEN "sent" ELSE @]
  /\ agent' = [agent EXCEPT ![a].left = @ \ {m}]
  /\ UNCHANGED <<created, now, delivered, failedClaims, mishaps>>

\* POST /smsOutboxReport patches the rows one by one, by id alone ...
ReportRow(a, m) ==
  /\ agent[a].at = "reporting"
  /\ m \in agent[a].left
  /\ status' = [status EXCEPT ![m] = Result(a, m)]
  /\ agent' = [agent EXCEPT ![a].left = @ \ {m}]
  /\ UNCHANGED <<created, now, delivered, failedClaims, mishaps>>

\* ... logs a row whose patch fails, and goes on ...
ReportRowFails(a, m) ==
  /\ agent[a].at = "reporting"
  /\ m \in agent[a].left
  /\ Mishap
  /\ agent' = [agent EXCEPT ![a].left = @ \ {m}]
  /\ UNCHANGED <<status, created, now, delivered, failedClaims>>

\* Mutant: the results of one report are carried into the next cycle.
ReportDoneKeepsResults(a) ==
  /\ agent[a].at = "reporting"
  /\ agent[a].left = {}
  /\ agent' = [agent EXCEPT ![a].at = "idle"]
  /\ UNCHANGED <<status, created, now, delivered, failedClaims, mishaps>>

\* ... and answers 200 in either case.
ReportDone(a) ==
  /\ agent[a].at = "reporting"
  /\ agent[a].left = {}
  /\ agent' = [agent EXCEPT ![a] = Idle]
  /\ UNCHANGED <<status, created, now, delivered, failedClaims, mishaps>>

\* An answer or a report is lost, or the gateway restarts, and it polls anew.
\* A poll whose client has gone is cancelled before its claim.
Abandon(a) ==
  /\ agent[a].at # "idle"
  /\ Mishap
  /\ agent' = [agent EXCEPT ![a] = Idle]
  /\ UNCHANGED <<status, created, now, delivered, failedClaims>>

Tick ==
  /\ now < MaxTime
  /\ now' = now + 1
  /\ UNCHANGED <<status, created, agent, delivered, failedClaims, mishaps>>

Cycle(a) ==
  \/ PollRead(a) \/ Claim(a) \/ ClaimFails(a)
  \/ \E m \in Msg : Send(a, m)
  \/ Report(a)
  \/ \E m \in Msg : ReportRow(a, m) \/ ReportRowFails(a, m)
  \/ ReportDone(a)

Next ==
  \/ \E m \in Msg : Enqueue(m)
  \/ \E a \in Agents : Cycle(a) \/ Abandon(a)
  \/ Tick

Spec == Init /\ [][Next]_vars

\* Every gateway keeps polling, sending and reporting.
FairSpec == Spec /\ \A a \in Agents : WF_vars(Cycle(a))

----------------------------------------------------------------------------
(* Properties *)

Statuses == {"none", "pending", "sending", "sent", "failed"}
Settled == {"sent", "failed"}

\* Every variable has its type; a cycle at rest holds nothing.
TypeOK ==
  /\ status \in [Msg -> Statuses]
  /\ created \in [Msg -> 0..MaxTime]
  /\ now \in 0..MaxTime
  /\ agent \in [Agents -> [at : {"idle", "claiming", "sending", "reporting"},
                           batch : SUBSET Msg, ok : SUBSET Msg,
                           left : SUBSET Msg]]
  /\ \A a \in Agents : /\ agent[a].ok \subseteq agent[a].batch
                       /\ agent[a].left \subseteq agent[a].batch
                       /\ agent[a].at = "idle" => agent[a] = Idle
  /\ delivered \in [Msg -> Nat]
  /\ mishaps \in 0..MaxMishaps
  /\ failedClaims \in 0..mishaps

\* A reply shown as sent really went out, even when several cycles had it in
\* hand and reported it in any order.
SentMeansDelivered ==
  \A m \in Msg : status[m] = "sent" => delivered[m] > 0

\* A reply that was reported is never queued or claimed again, although a poll
\* may have read it as pending long before and claims it only now.
SettledStays ==
  [][\A m \in Msg : status[m] \in Settled => status'[m] \in Settled]_vars

\* With one poll cycle at a time, each copy a listener receives beyond the
\* first is the doing of one claim whose error the poll dropped.
CopiesNeedFailedClaims ==
  \A m \in Msg : delivered[m] <= 1 + failedClaims

InHand == UNION {agent[a].batch : a \in Agents}

\* A row left in "sending" that nobody holds (nothing ever moves it back to
\* pending) was given up by a mishap, which strands no more than one batch,
\* however poll cycles overlap.
StrandedByMishaps ==
  Cardinality({m \in Msg : status[m] = "sending"} \ InHand) <= Limit * mishaps

\* With one poll cycle at a time the queue implements ReplyQueue: batches are handed
\* out one after the other, a reply goes out once for each time it is handed out, and
\* its verdict is final, "sent" or "failed", however polls, claims, reports and the
\* gateway fail in between.
ToTry == {m \in Msg : \E a \in Agents : agent[a].at = "sending" /\ m \in agent[a].left}
ReplyQueue == INSTANCE ReplyQueue
                WITH Reply <- Msg, shown <- status, hand <- ToTry,
                     copies <- delivered, slips <- failedClaims
ImplementsReplyQueue == ReplyQueue!Spec

\* A queued reply is settled in the end, whatever its place in the queue; the
\* one other way out is to be left in "sending" after a mishap.
EveryReplySettled ==
  \A m \in Msg :
    status[m] = "pending"
      ~> \/ status[m] \in Settled
         \/ status[m] = "sending" /\ mishaps > 0

\* "Claim the batch as 'sending' so another poll doesn't double-send."
NoDoubleSend == \A m \in Msg : delivered[m] <= 1
=============================================================================
