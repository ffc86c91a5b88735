--------------------------- MODULE SmsOutboxProofs ---------------------------
(***************************************************************************)
(* What holds of the SMS reply queue for any number of replies, of poll    *)
(* cycles that overlap, and of mishaps; and, for one cycle at a time, that *)
(* it implements ReplyQueue.                                               *)
(***************************************************************************)
EXTENDS SmsOutbox, FiniteSetTheorems, TLAPS

\* The results a cycle will report are true: every reply it counts as sent
\* went through the modem.  This carries SentMeansDelivered through the steps
\* between Send and ReportRow.
ResultsTrue == \A a \in Agents : \A m \in agent[a].ok : delivered[m] > 0

\* The inductive invariant.
Inv == TypeOK /\ SentMeansDelivered /\ ResultsTrue

\* A mishap keeps the counter of mishaps within its bound.
LEMMA MishapBounded ==
  ASSUME TypeOK, Mishap
  PROVE  mishaps' \in 0..MaxMishaps /\ mishaps' = mishaps + 1
  BY SmsAssumption DEF TypeOK, Mishap

\* The first state has every type, and no reply is in any hand.
LEMMA InitInv == Init => Inv
  BY SmsAssumption DEF Init, Inv, TypeOK, SentMeansDelivered, ResultsTrue,
                       Idle, Holding, Statuses

\* No step of a cycle, of a presenter or of the clock breaks the invariant:
\* only ReportRow writes "sent", and what it writes is a true result.
LEMMA NextInv == Inv /\ [Next]_vars => Inv'
<1> SUFFICES ASSUME Inv, [Next]_vars PROVE Inv'
    OBVIOUS
<1> USE DEF Inv, TypeOK, SentMeansDelivered, ResultsTrue
<1>1. ASSUME NEW m \in Msg, Enqueue(m) PROVE Inv'
    BY <1>1 DEF Enqueue, Statuses
<1>2. ASSUME NEW a \in Agents, PollRead(a) PROVE Inv'
    BY <1>2 DEF PollRead, Pending, Holding
<1>3. ASSUME NEW a \in Agents, Claim(a) PROVE Inv'
    BY <1>3 DEF Claim, ClaimRows, Pending, Statuses
<1>4. ASSUME NEW a \in Agents, ClaimFails(a) PROVE Inv'
  <2>1. mishaps' \in 0..MaxMishaps /\ mishaps' = mishaps + 1
      BY <1>4, MishapBounded DEF ClaimFails
  <2> QED BY <1>4, <2>1 DEF ClaimFails
<1>5. ASSUME NEW a \in Agents, NEW m \in Msg, Send(a, m) PROVE Inv'
  <2>1. CASE agent' = [agent EXCEPT ![a].left = @ \ {m}] /\ UNCHANGED delivered
      BY <1>5, <2>1 DEF Send
  <2>2. CASE /\ delivered' = [delivered EXCEPT ![m] = @ + 1]
             /\ agent' = [agent EXCEPT ![a] =
                            Holding("sending", @.batch, @.ok \cup {m}, @.left \ {m})]
    <3>1. m \in agent[a].batch
        BY <1>5 DEF Send
    <3>2. /\ \A n \in Msg : delivered'[n] >= delivered[n]
          /\ delivered'[m] > 0
        BY <2>2
    <3>3. SentMeansDelivered'
        BY <1>5, <3>2 DEF Send
    <3>4. ResultsTrue'
        BY <2>2, <3>2 DEF Holding
    <3>5. TypeOK'
        BY <1>5, <2>2, <3>1 DEF Send, Holding
    <3> QED BY <3>3, <3>4, <3>5
  <2> QED BY <1>5, <2>1, <2>2 DEF Send
<1>6. ASSUME NEW a \in Agents, Report(a) PROVE Inv'
    BY <1>6 DEF Report, Holding
<1>7. ASSUME NEW a \in Agents, NEW m \in Msg, ReportRow(a, m) PROVE Inv'
    BY <1>7 DEF ReportRow, Result, Statuses
<1>8. ASSUME NEW a \in Agents, NEW m \in Msg, ReportRowFails(a, m) PROVE Inv'
  <2>1. mishaps' \in 0..MaxMishaps /\ mishaps' = mishaps + 1
      BY <1>8, MishapBounded DEF ReportRowFails
  <2> QED BY <1>8, <2>1 DEF ReportRowFails
<1>9. ASSUME NEW a \in Agents, ReportDone(a) PROVE Inv'
    BY <1>9 DEF ReportDone, Idle, Holding
<1>10. ASSUME NEW a \in Agents, Abandon(a) PROVE Inv'
  <2>1. mishaps' \in 0..MaxMishaps /\ mishaps' = mishaps + 1
      BY <1>10, MishapBounded DEF Abandon
  <2> QED BY <1>10, <2>1 DEF Abandon, Idle, Holding
<1>11. CASE Tick
    BY <1>11, SmsAssumption DEF Tick
<1>12. CASE UNCHANGED vars
    BY <1>12 DEF vars
<1> QED BY <1>1, <1>2, <1>3, <1>4, <1>5, <1>6, <1>7, <1>8, <1>9, <1>10, <1>11,
           <1>12 DEF Next, Cycle

\* Only an enqueue, a claim and a report write a status, and the first two
\* write rows that are not settled.
LEMMA SettledStep ==
  ASSUME TypeOK, [Next]_vars, NEW m \in Msg, status[m] \in Settled
  PROVE  status'[m] \in Settled
<1> USE DEF TypeOK, Settled
<1>1. ASSUME NEW n \in Msg, Enqueue(n) PROVE status'[m] \in Settled
    BY <1>1 DEF Enqueue
<1>2. ASSUME NEW a \in Agents, Claim(a) PROVE status'[m] \in Settled
    BY <1>2 DEF Claim, ClaimRows, Pending
<1>3. ASSUME NEW a \in Agents, NEW n \in Msg, ReportRow(a, n)
      PROVE  status'[m] \in Settled
    BY <1>3 DEF ReportRow, Result
<1>4. ASSUME UNCHANGED status PROVE status'[m] \in Settled
    BY <1>4
<1> QED BY <1>1, <1>2, <1>3, <1>4
        DEF Next, Cycle, PollRead, ClaimFails, Send, Report, ReportRowFails,
            ReportDone, Abandon, Tick, vars

\* Every reachable state satisfies the inductive invariant.
LEMMA Invariance == Spec => []Inv
<1> QED BY InitInv, NextInv, PTL DEF Spec

\* The state of the queue keeps its types.
THEOREM SmsTypes == Spec => []TypeOK
<1>1. Inv => TypeOK
    BY DEF Inv
<1> QED BY <1>1, Invariance, PTL

\* A reply shown as sent went out, however many cycles overlapped.
THEOREM SentIsTrue == Spec => []SentMeansDelivered
<1>1. Inv => SentMeansDelivered
    BY DEF Inv
<1> QED BY <1>1, Invariance, PTL

\* A settled reply stays settled, however stale the poll that claims it.
THEOREM SettledIsFinal == Spec => SettledStays
<1>1. TypeOK /\ [Next]_vars
        => [\A m \in Msg : status[m] \in Settled => status'[m] \in Settled]_vars
    BY SettledStep
<1> QED BY <1>1, SmsTypes, PTL DEF Spec, SettledStays

\* The rows in "sending" that no step of the cycle that holds them will settle.
Lost ==
  {m \in Msg : /\ status[m] = "sending"
               /\ \A a \in Agents : m \in agent[a].batch =>
                    agent[a].at = "reporting" /\ m \notin agent[a].left}
LostBounded == IsFiniteSet(Lost) /\ Cardinality(Lost) <= Limit * mishaps
BatchesBounded ==
  \A a \in Agents : /\ IsFiniteSet(agent[a].batch)
                    /\ Cardinality(agent[a].batch) <= Limit

\* A mishap loses at most one batch, and nothing else loses a row.
LEMMA LostStep ==
  ASSUME Inv, LostBounded, BatchesBounded, [Next]_vars
  PROVE  LostBounded' /\ BatchesBounded'
<1> USE DEF Inv, TypeOK
<1>1. mishaps \in Nat /\ Limit \in Nat \ {0}
  BY SmsAssumption
<1>2. BatchesBounded'
  <2>1. ASSUME NEW a \in Agents, PollRead(a) PROVE BatchesBounded'
    BY <2>1 DEF PollRead, Oldest, Holding, BatchesBounded
  <2>2. ASSUME NEW a \in Agents, ReportDone(a) \/ Abandon(a)
        PROVE  BatchesBounded'
    <3>1. agent'[a].batch = {} /\ \A b \in Agents \ {a} : agent'[b] = agent[b]
      BY <2>2 DEF ReportDone, Abandon, Idle, Holding
    <3>2. IsFiniteSet({}) /\ Cardinality({}) = 0
      BY FS_EmptySet
    <3>3. IsFiniteSet(agent'[a].batch) /\ Cardinality(agent'[a].batch) <= Limit
      BY <1>1, <3>1, <3>2
    <3> QED BY <3>1, <3>3 DEF BatchesBounded
  <2>3. ASSUME NEW a \in Agents,
               \/ Claim(a) \/ ClaimFails(a) \/ Report(a)
               \/ \E m \in Msg : Send(a, m) \/ ReportRow(a, m) \/ ReportRowFails(a, m)
        PROVE  BatchesBounded'
    <3>1. \A b \in Agents : agent'[b].batch = agent[b].batch
      BY <2>3 DEF Claim, ClaimFails, Report, Send, ReportRow, ReportRowFails, Holding
    <3> QED BY <3>1 DEF BatchesBounded
  <2>4. CASE Tick \/ UNCHANGED vars \/ \E m \in Msg : Enqueue(m)
    BY <2>4 DEF Tick, vars, Enqueue, BatchesBounded
  <2> QED BY <2>1, <2>2, <2>3, <2>4 DEF Next, Cycle
<1>3. ASSUME Lost' \subseteq Lost, mishaps' = mishaps PROVE LostBounded'
  <2>1. IsFiniteSet(Lost') /\ Cardinality(Lost') <= Cardinality(Lost)
        /\ Cardinality(Lost') \in Nat /\ Cardinality(Lost) \in Nat
    BY <1>3, FS_Subset, FS_CardinalityType DEF LostBounded
  <2> QED BY <1>1, <1>3, <2>1 DEF LostBounded
<1>4. ASSUME NEW S, IsFiniteSet(S), Cardinality(S) <= Limit,
             Lost' \subseteq Lost \cup S, mishaps' = mishaps + 1
      PROVE  LostBounded'
  <2>1. /\ IsFiniteSet(Lost \cup S)
        /\ Cardinality(Lost \cup S)
             = Cardinality(Lost) + Cardinality(S) - Cardinality(Lost \cap S)
        /\ IsFiniteSet(Lost \cap S)
    BY <1>4, FS_Union, FS_Intersection DEF LostBounded
  <2>2. IsFiniteSet(Lost') /\ Cardinality(Lost') <= Cardinality(Lost \cup S)
    BY <1>4, <2>1, FS_Subset
  <2>3. /\ Cardinality(Lost) \in Nat /\ Cardinality(S) \in Nat
        /\ Cardinality(Lost \cap S) \in Nat /\ Cardinality(Lost') \in Nat
    BY <1>4, <2>1, <2>2, FS_CardinalityType DEF LostBounded
  <2>4. Cardinality(Lost') <= Cardinality(Lost) + Limit
    BY <1>1, <1>4, <2>1, <2>2, <2>3
  <2>5. Cardinality(Lost) <= Limit * mishaps
    BY DEF LostBounded
  <2>6. Limit * mishaps + Limit = Limit * (mishaps + 1) /\ Limit * mishaps \in Nat
    BY <1>1
  <2> QED BY <1>1, <1>4, <2>2, <2>3, <2>4, <2>5, <2>6 DEF LostBounded
<1>5. ASSUME NEW m \in Msg, Enqueue(m) PROVE LostBounded'
  BY <1>3, <1>5 DEF Enqueue, Lost
<1>6. ASSUME NEW a \in Agents, PollRead(a) PROVE LostBounded'
  <2>1. PICK batch \in SUBSET Pending :
          agent' = [agent EXCEPT ![a] = Holding("claiming", batch, {}, batch)]
    BY <1>6 DEF PollRead
  <2>2. agent[a].batch = {}
    BY <1>6 DEF PollRead, Idle, Holding
  <2>3. Lost' \subseteq Lost
    BY <1>6, <2>1, <2>2 DEF PollRead, Lost, Pending, Holding
  <2> QED BY <1>3, <1>6, <2>3 DEF PollRead
<1>7. ASSUME NEW a \in Agents, Claim(a) PROVE LostBounded'
  BY <1>3, <1>7 DEF Claim, Lost, ClaimRows
<1>8. ASSUME NEW a \in Agents, ClaimFails(a) PROVE LostBounded'
  <2>1. mishaps' = mishaps + 1 /\ Lost' \subseteq Lost
    BY <1>8 DEF ClaimFails, Mishap, Lost
  <2> QED BY <1>1, <1>4, <2>1, FS_EmptySet
<1>9. ASSUME NEW a \in Agents, NEW m \in Msg, Send(a, m) PROVE LostBounded'
  <2>1. agent'[a].at = "sending" /\ agent'[a].batch = agent[a].batch
        /\ agent[a].at = "sending" /\ UNCHANGED <<status, mishaps>>
    BY <1>9 DEF Send, Holding
  <2>2. \A b \in Agents \ {a} : agent'[b] = agent[b]
    BY <1>9 DEF Send
  <2>3. Lost' \subseteq Lost
    BY <2>1, <2>2 DEF Lost
  <2> QED BY <1>3, <2>1, <2>3
<1>10. ASSUME NEW a \in Agents, Report(a) PROVE LostBounded'
  <2>1. agent'[a].left = agent[a].batch /\ agent'[a].batch = agent[a].batch
        /\ UNCHANGED <<status, mishaps>>
    BY <1>10 DEF Report, Holding
  <2>2. agent[a].at = "sending" /\ \A b \in Agents \ {a} : agent'[b] = agent[b]
    BY <1>10 DEF Report
  <2>3. Lost' \subseteq Lost
    BY <2>1, <2>2 DEF Lost
  <2> QED BY <1>3, <2>1, <2>3
<1>11. ASSUME NEW a \in Agents, NEW m \in Msg, ReportRow(a, m)
       PROVE  LostBounded'
  <2>1. Lost' \subseteq Lost
    BY <1>11 DEF ReportRow, Result, Lost
  <2> QED BY <1>3, <1>11, <2>1 DEF ReportRow
<1>12. ASSUME NEW a \in Agents, NEW m \in Msg, ReportRowFails(a, m)
       PROVE  LostBounded'
  <2>1. mishaps' = mishaps + 1 /\ Lost' \subseteq Lost \cup {m}
    BY <1>12 DEF ReportRowFails, Mishap, Lost
  <2>2. IsFiniteSet({m}) /\ Cardinality({m}) = 1
    BY FS_Singleton
  <2> QED BY <1>1, <1>4, <2>1, <2>2
<1>13. ASSUME NEW a \in Agents, ReportDone(a) PROVE LostBounded'
  <2>1. Lost' \subseteq Lost
    BY <1>13 DEF ReportDone, Lost, Idle, Holding
  <2> QED BY <1>3, <1>13, <2>1 DEF ReportDone
<1>14. ASSUME NEW a \in Agents, Abandon(a) PROVE LostBounded'
  <2>1. mishaps' = mishaps + 1 /\ Lost' \subseteq Lost \cup agent[a].batch
    BY <1>14 DEF Abandon, Mishap, Lost
  <2> QED BY <1>4, <2>1 DEF BatchesBounded
<1>15. CASE Tick \/ UNCHANGED vars
  <2>1. Lost' \subseteq Lost /\ mishaps' = mishaps
    BY <1>15 DEF Tick, vars, Lost
  <2> QED BY <1>2, <1>3, <2>1
<1> QED BY <1>2, <1>5, <1>6, <1>7, <1>8, <1>9, <1>10, <1>11, <1>12, <1>13, <1>14,
           <1>15 DEF Next, Cycle

\* The rows left in "sending" for ever are at most one batch per mishap, for any
\* batch size, any number of replies and of poll cycles that overlap.
THEOREM StrandedAreMishaps == Spec => []StrandedByMishaps
<1>1. Init => LostBounded /\ BatchesBounded
  <2> SUFFICES ASSUME Init PROVE LostBounded /\ BatchesBounded
    OBVIOUS
  <2>1. Lost = {}
    BY DEF Init, Lost
  <2>2. \A a \in Agents : agent[a].batch = {}
    BY DEF Init, Idle, Holding
  <2>3. Limit \in Nat /\ mishaps = 0
    BY SmsAssumption DEF Init
  <2> QED BY <2>1, <2>2, <2>3, FS_EmptySet DEF LostBounded, BatchesBounded
<1>2. Inv /\ LostBounded /\ BatchesBounded /\ [Next]_vars
        => (LostBounded /\ BatchesBounded)'
  BY LostStep
<1>3. Inv /\ LostBounded => StrandedByMishaps
  <2> SUFFICES ASSUME Inv, LostBounded PROVE StrandedByMishaps
    OBVIOUS
  <2> DEFINE Stranded == {m \in Msg : status[m] = "sending"} \ InHand
  <2>1. Stranded \subseteq Lost
    BY DEF InHand, Lost
  <2>2. Cardinality(Stranded) <= Cardinality(Lost) /\ Cardinality(Stranded) \in Nat
        /\ Cardinality(Lost) \in Nat
    BY <2>1, FS_Subset, FS_CardinalityType DEF LostBounded
  <2>3. Limit * mishaps \in Nat
    BY SmsAssumption DEF Inv, TypeOK
  <2> QED BY <2>2, <2>3 DEF LostBounded, StrandedByMishaps
<1> QED BY <1>1, <1>2, <1>3, Invariance, PTL DEF Spec

(***************************************************************************)
(* One poll cycle at a time                                                *)
(***************************************************************************)

\* The gateway as it is deployed: no two cycles overlap.
OneCycle == \A a, b \in Agents : a = b

\* Until it is claimed a row can be read once more, and until it is sent a row in
\* hand goes out once more; only a failed claim leaves a row open to both.
Unclaimed(m) == IF status[m] \in {"none", "pending"} THEN 1 ELSE 0
ToSend(m) ==
  IF \E a \in Agents : agent[a].at = "sending" /\ m \in agent[a].left
    THEN 1 ELSE 0
CopiesCounted ==
  \A m \in Msg : delivered[m] + Unclaimed(m) + ToSend(m) <= 1 + failedClaims

\* What a cycle read is still pending when it claims it.
ReadIsPending ==
  \A a \in Agents : agent[a].at = "claiming" =>
    /\ agent[a].left = agent[a].batch
    /\ \A m \in agent[a].batch : status[m] = "pending"

\* No step of the one cycle gives a row a copy that is not counted.
LEMMA CopiesStep ==
  ASSUME OneCycle, Inv, CopiesCounted, ReadIsPending, [Next]_vars
  PROVE  CopiesCounted' /\ ReadIsPending'
<1> USE DEF Inv, TypeOK
<1> DEFINE Share(m) == delivered[m] + Unclaimed(m) + ToSend(m)
<1>0. /\ \A m \in Msg : Share(m) <= 1 + failedClaims
      /\ failedClaims \in Nat
      /\ \A m \in Msg : /\ Unclaimed(m) \in {0, 1} /\ ToSend(m) \in {0, 1}
                        /\ Unclaimed(m)' \in {0, 1} /\ ToSend(m)' \in {0, 1}
                        /\ delivered[m] \in Nat
  BY DEF CopiesCounted, Unclaimed, ToSend
<1>1. ASSUME NEW m \in Msg, Enqueue(m) PROVE CopiesCounted' /\ ReadIsPending'
  <2>1. \A n \in Msg : Unclaimed(n)' = Unclaimed(n) /\ ToSend(n)' = ToSend(n)
    BY <1>1 DEF Enqueue, Unclaimed, ToSend
  <2>2. UNCHANGED <<delivered, failedClaims, agent>>
    BY <1>1 DEF Enqueue
  <2>3. CopiesCounted'
    BY <2>1, <2>2 DEF CopiesCounted
  <2> QED BY <1>1, <2>3 DEF Enqueue, ReadIsPending
<1>2. ASSUME NEW a \in Agents, PollRead(a)
      PROVE  CopiesCounted' /\ ReadIsPending'
  <2>1. \A n \in Msg : Unclaimed(n)' = Unclaimed(n) /\ ToSend(n)' <= ToSend(n)
    BY <1>2 DEF PollRead, Holding, Unclaimed, ToSend
  <2>2. UNCHANGED <<delivered, failedClaims, status>>
    BY <1>2 DEF PollRead
  <2>3. CopiesCounted'
    BY <1>0, <2>1, <2>2 DEF CopiesCounted
  <2>4. ReadIsPending'
    BY <1>2 DEF PollRead, Oldest, Pending, Holding, ReadIsPending
  <2> QED BY <2>3, <2>4
<1>3. ASSUME NEW a \in Agents, Claim(a) PROVE CopiesCounted' /\ ReadIsPending'
  <2>1. ASSUME NEW n \in Msg, n \in agent[a].batch
        PROVE  Unclaimed(n) = 1 /\ ToSend(n) = 0 /\ Unclaimed(n)' = 0
    BY <1>3, <2>1 DEF Claim, OneCycle, ClaimRows, Pending, ReadIsPending,
                      Unclaimed, ToSend
  <2>2. ASSUME NEW n \in Msg, n \notin agent[a].batch
        PROVE  Unclaimed(n)' = Unclaimed(n) /\ ToSend(n)' = 0
    BY <1>3, <2>2 DEF Claim, OneCycle, ClaimRows, Unclaimed, ToSend
  <2>3. UNCHANGED <<delivered, failedClaims>>
    BY <1>3 DEF Claim
  <2>4. CopiesCounted'
    BY <1>0, <2>1, <2>2, <2>3 DEF CopiesCounted
  <2>5. ReadIsPending'
    BY <1>3 DEF Claim, OneCycle, ReadIsPending
  <2> QED BY <2>4, <2>5
<1>4. ASSUME NEW a \in Agents, ClaimFails(a)
      PROVE  CopiesCounted' /\ ReadIsPending'
  <2>1. \A n \in Msg : Unclaimed(n)' = Unclaimed(n) /\ ToSend(n) = 0
    BY <1>4 DEF ClaimFails, OneCycle, Unclaimed, ToSend
  <2>2. delivered' = delivered /\ failedClaims' = failedClaims + 1
    BY <1>4 DEF ClaimFails
  <2>3. CopiesCounted'
    BY <1>0, <2>1, <2>2 DEF CopiesCounted
  <2>4. ReadIsPending'
    BY <1>4 DEF ClaimFails, OneCycle, ReadIsPending
  <2> QED BY <2>3, <2>4
<1>5. ASSUME NEW a \in Agents, NEW m \in Msg, Send(a, m)
      PROVE  CopiesCounted' /\ ReadIsPending'
  <2>1. UNCHANGED <<status, failedClaims>>
    BY <1>5 DEF Send
  <2>2. \A n \in Msg : Unclaimed(n)' = Unclaimed(n)
    BY <2>1 DEF Unclaimed
  <2>3. ToSend(m) = 1 /\ ToSend(m)' = 0
    BY <1>5 DEF Send, Holding, OneCycle, ToSend
  <2>4. \A n \in Msg \ {m} : ToSend(n)' = ToSend(n) /\ delivered'[n] = delivered[n]
    BY <1>5 DEF Send, Holding, OneCycle, ToSend
  <2>5. delivered'[m] \in {delivered[m], delivered[m] + 1}
    BY <1>5 DEF Send
  <2>6. CopiesCounted'
    <3> SUFFICES ASSUME NEW n \in Msg
                 PROVE  delivered'[n] + Unclaimed(n)' + ToSend(n)' <= 1 + failedClaims'
      BY DEF CopiesCounted
    <3>1. CASE n = m
      BY <1>0, <2>1, <2>2, <2>3, <2>5, <3>1
    <3>2. CASE n # m
      BY <1>0, <2>1, <2>2, <2>4, <3>2
    <3> QED BY <3>1, <3>2
  <2>7. ReadIsPending'
    BY <1>5 DEF Send, Holding, OneCycle, ReadIsPending
  <2> QED BY <2>6, <2>7
<1>6. ASSUME NEW a \in Agents, NEW m \in Msg, ReportRow(a, m)
      PROVE  CopiesCounted' /\ ReadIsPending'
  <2>1. \A n \in Msg : Unclaimed(n)' <= Unclaimed(n) /\ ToSend(n)' = 0
    BY <1>6 DEF ReportRow, Result, OneCycle, Unclaimed, ToSend
  <2>2. UNCHANGED <<delivered, failedClaims>>
    BY <1>6 DEF ReportRow
  <2>3. CopiesCounted'
    BY <1>0, <2>1, <2>2 DEF CopiesCounted
  <2>4. ReadIsPending'
    BY <1>6 DEF ReportRow, OneCycle, ReadIsPending
  <2> QED BY <2>3, <2>4
<1>7. ASSUME NEW a \in Agents,
             \/ Report(a) \/ ReportDone(a) \/ Abandon(a)
             \/ \E m \in Msg : ReportRowFails(a, m)
      PROVE  CopiesCounted' /\ ReadIsPending'
  <2>1. UNCHANGED <<status, delivered, failedClaims>>
        /\ agent'[a].at \in {"idle", "reporting"}
    BY <1>7 DEF Report, ReportDone, Abandon, ReportRowFails, Holding, Idle
  <2>2. \A n \in Msg : Unclaimed(n)' = Unclaimed(n) /\ ToSend(n)' = 0
    BY <2>1 DEF OneCycle, Unclaimed, ToSend
  <2>3. CopiesCounted'
    BY <1>0, <2>1, <2>2 DEF CopiesCounted
  <2>4. ReadIsPending'
    BY <2>1 DEF OneCycle, ReadIsPending
  <2> QED BY <2>3, <2>4
<1>8. CASE Tick \/ UNCHANGED vars
  BY <1>8 DEF Tick, vars, CopiesCounted, Unclaimed, ToSend, ReadIsPending
<1> QED BY <1>1, <1>2, <1>3, <1>4, <1>5, <1>6, <1>7, <1>8 DEF Next, Cycle

\* With one poll cycle at a time, a listener receives one copy of a reply and at
\* most one more per claim that failed, whatever else goes wrong.
THEOREM CopiesAreClaims ==
  ASSUME OneCycle PROVE Spec => []CopiesNeedFailedClaims
<1>1. Init => CopiesCounted /\ ReadIsPending
  BY DEF Init, CopiesCounted, ReadIsPending, Unclaimed, ToSend, Idle, Holding
<1>2. Inv /\ CopiesCounted /\ ReadIsPending /\ [Next]_vars
        => (CopiesCounted /\ ReadIsPending)'
  BY CopiesStep
<1>3. Inv /\ CopiesCounted => CopiesNeedFailedClaims
  <2> SUFFICES ASSUME Inv, CopiesCounted, NEW m \in Msg
               PROVE  delivered[m] <= 1 + failedClaims
    BY DEF CopiesNeedFailedClaims
  <2>1. delivered[m] \in Nat /\ Unclaimed(m) \in {0, 1} /\ ToSend(m) \in {0, 1}
        /\ failedClaims \in Nat
    BY DEF Inv, TypeOK, Unclaimed, ToSend
  <2> QED BY <2>1 DEF CopiesCounted
<1> QED BY <1>1, <1>2, <1>3, Invariance, PTL DEF Spec

(***************************************************************************)
(* The abstract queue                                                      *)
(***************************************************************************)

\* A reply that may still be settled: marked, or pending since a claim failed.
Open(m) == status[m] = "sending" \/ (status[m] = "pending" /\ failedClaims > 0)

\* What a cycle has in hand after the claim is not settled until the cycle reports
\* it; a cycle never claims nothing.
HandOpen ==
  \A a \in Agents :
    /\ agent[a].at = "claiming" => agent[a].batch # {}
    /\ agent[a].at = "sending" => \A m \in agent[a].batch : Open(m)
    /\ agent[a].at = "reporting" => \A m \in agent[a].left : Open(m)

\* No step of the one cycle settles what it has still to report.
LEMMA HandOpenStep ==
  ASSUME OneCycle, Inv, ReadIsPending, HandOpen, [Next]_vars
  PROVE  HandOpen'
<1> USE DEF Inv, TypeOK
<1>0. failedClaims \in Nat
  OBVIOUS
<1>1. ASSUME NEW m \in Msg, Enqueue(m) PROVE HandOpen'
  <2>1. agent' = agent /\ failedClaims' = failedClaims
    BY <1>1 DEF Enqueue
  <2>2. \A n \in Msg : Open(n) => Open(n)'
    BY <1>1 DEF Enqueue, Open
  <2>3. \A a \in Agents : agent[a].batch \in SUBSET Msg /\ agent[a].left \in SUBSET Msg
    OBVIOUS
  <2> QED BY <2>1, <2>2, <2>3 DEF HandOpen
<1>2. ASSUME NEW a \in Agents, PollRead(a) PROVE HandOpen'
  BY <1>2 DEF PollRead, Holding, OneCycle, HandOpen
<1>3. ASSUME NEW a \in Agents, Claim(a) PROVE HandOpen'
  BY <1>3 DEF Claim, ClaimRows, Pending, OneCycle, ReadIsPending, HandOpen, Open
<1>4. ASSUME NEW a \in Agents, ClaimFails(a) PROVE HandOpen'
  <2>1. failedClaims' > 0 /\ status' = status
    BY <1>0, <1>4 DEF ClaimFails
  <2> QED BY <1>4, <2>1 DEF ClaimFails, OneCycle, ReadIsPending, HandOpen, Open
<1>5. ASSUME NEW a \in Agents, NEW m \in Msg, Send(a, m) PROVE HandOpen'
  BY <1>5 DEF Send, Holding, OneCycle, HandOpen, Open
<1>6. ASSUME NEW a \in Agents, Report(a) PROVE HandOpen'
  BY <1>6 DEF Report, Holding, OneCycle, HandOpen, Open
<1>7. ASSUME NEW a \in Agents, NEW m \in Msg, ReportRow(a, m) PROVE HandOpen'
  <2>1. agent'[a].at = "reporting" /\ agent'[a].left = agent[a].left \ {m}
    BY <1>7 DEF ReportRow
  <2>2. \A n \in Msg \ {m} : status'[n] = status[n]
    BY <1>7 DEF ReportRow
  <2>3. agent[a].at = "reporting" /\ failedClaims' = failedClaims
    BY <1>7 DEF ReportRow
  <2> QED BY <2>1, <2>2, <2>3 DEF OneCycle, HandOpen, Open
<1>8. ASSUME NEW a \in Agents, NEW m \in Msg, ReportRowFails(a, m) PROVE HandOpen'
  BY <1>8 DEF ReportRowFails, OneCycle, HandOpen, Open
<1>9. ASSUME NEW a \in Agents, ReportDone(a) \/ Abandon(a) PROVE HandOpen'
  BY <1>9 DEF ReportDone, Abandon, Idle, Holding, OneCycle, HandOpen
<1>10. CASE Tick \/ UNCHANGED vars
  BY <1>10 DEF Tick, vars, HandOpen, Open
<1> QED BY <1>1, <1>2, <1>3, <1>4, <1>5, <1>6, <1>7, <1>8, <1>9, <1>10 DEF Next, Cycle

\* Every step of the one cycle is one of the abstract queue, or none.
LEMMA ReplyStep ==
  ASSUME OneCycle, Inv, ReadIsPending, HandOpen, [Next]_vars
  PROVE  [ReplyQueue!Next]_(ReplyQueue!vars)
<1> SUFFICES ReplyQueue!Next \/ UNCHANGED ReplyQueue!vars
  OBVIOUS
<1> USE DEF Inv, TypeOK
<1>1. ASSUME NEW m \in Msg, Enqueue(m) PROVE ReplyQueue!Next
  <2>1. ReplyQueue!Queue(m)
    BY <1>1 DEF Enqueue, ToTry, ReplyQueue!Queue
  <2> QED BY <2>1 DEF ReplyQueue!Next
<1>2. ASSUME NEW a \in Agents, PollRead(a) \/ ReportDone(a) \/ Report(a)
      PROVE  UNCHANGED ReplyQueue!vars
  <2>1. ToTry = {} /\ ToTry' = {}
    BY <1>2 DEF PollRead, ReportDone, Report, Idle, Holding, OneCycle, ToTry
  <2>2. UNCHANGED <<status, delivered, failedClaims>>
    BY <1>2 DEF PollRead, ReportDone, Report
  <2> QED BY <2>1, <2>2 DEF ReplyQueue!vars
<1>3. ASSUME NEW a \in Agents, Claim(a) \/ ClaimFails(a) PROVE ReplyQueue!Next
  <2> DEFINE ms == agent[a].batch
  <2>1. /\ ms \in SUBSET Msg /\ ms # {} /\ agent[a].left = ms
        /\ \A m \in ms : status[m] = "pending"
    BY <1>3 DEF Claim, ClaimFails, ReadIsPending, HandOpen
  <2>2. ToTry = {}
    BY <1>3 DEF Claim, ClaimFails, OneCycle, ToTry
  <2>3. agent'[a].at = "sending" /\ agent'[a].left = ms
    BY <1>3, <2>1 DEF Claim, ClaimFails
  <2>4. ToTry' = ms
    BY <2>1, <2>3 DEF OneCycle, ToTry
  <2>5. delivered' = delivered
    BY <1>3 DEF Claim, ClaimFails
  <2>6. ReplyQueue!HandOut(ms)
    BY <2>1, <2>2, <2>4, <2>5 DEF ReplyQueue!HandOut
  <2>7. CASE Claim(a)
    <3>1. status' = [m \in Msg |-> IF m \in ms THEN "sending" ELSE status[m]]
      BY <2>1, <2>7 DEF Claim, ClaimRows, Pending
    <3>2. ReplyQueue!Take(ms)
      BY <2>6, <2>7, <3>1 DEF Claim, ReplyQueue!Take
    <3> QED BY <2>1, <3>2 DEF ReplyQueue!Next
  <2>8. CASE ClaimFails(a)
    <3>1. ReplyQueue!TakeUnmarked(ms)
      BY <2>6, <2>8 DEF ClaimFails, ReplyQueue!TakeUnmarked
    <3> QED BY <2>1, <3>1 DEF ReplyQueue!Next
  <2> QED BY <1>3, <2>7, <2>8
<1>4. ASSUME NEW a \in Agents, NEW m \in Msg, Send(a, m) PROVE ReplyQueue!Next
  <2>1. agent[a].at = "sending" /\ m \in agent[a].left /\ agent[a].left \in SUBSET Msg
    BY <1>4 DEF Send
  <2>2. agent'[a].at = "sending" /\ agent'[a].left = agent[a].left \ {m}
    BY <1>4 DEF Send, Holding
  <2>3. ToTry = agent[a].left /\ ToTry' = agent[a].left \ {m}
    BY <2>1, <2>2 DEF OneCycle, ToTry
  <2>4. delivered' \in {delivered, [delivered EXCEPT ![m] = @ + 1]}
    BY <1>4 DEF Send
  <2>5. UNCHANGED <<status, failedClaims>>
    BY <1>4 DEF Send
  <2>6. ReplyQueue!Try(m)
    BY <2>1, <2>3, <2>4, <2>5 DEF ReplyQueue!Try
  <2> QED BY <2>6 DEF ReplyQueue!Next
<1>5. ASSUME NEW a \in Agents, NEW m \in Msg, ReportRow(a, m) PROVE ReplyQueue!Next
  <2>1. ToTry = {} /\ ToTry' = {}
    BY <1>5 DEF ReportRow, OneCycle, ToTry
  <2>2. Open(m)
    BY <1>5 DEF ReportRow, HandOpen
  <2>3. Result(a, m) \in {"sent", "failed"} /\ (Result(a, m) = "sent" => delivered[m] > 0)
    BY DEF Result, ResultsTrue
  <2>4. status' = [status EXCEPT ![m] = Result(a, m)] /\ UNCHANGED <<delivered, failedClaims>>
    BY <1>5 DEF ReportRow
  <2>5. ReplyQueue!Settle(m, Result(a, m))
    BY <2>1, <2>2, <2>3, <2>4 DEF Open, ReplyQueue!Settle
  <2> QED BY <2>3, <2>5 DEF ReplyQueue!Next
<1>6. ASSUME NEW a \in Agents, NEW m \in Msg, ReportRowFails(a, m)
      PROVE  UNCHANGED ReplyQueue!vars
  <2>1. ToTry = {} /\ ToTry' = {}
    BY <1>6 DEF ReportRowFails, OneCycle, ToTry
  <2> QED BY <1>6, <2>1 DEF ReportRowFails, ReplyQueue!vars
<1>7. ASSUME NEW a \in Agents, Abandon(a) PROVE ReplyQueue!Next
  <2>1. ToTry' = {}
    BY <1>7 DEF Abandon, Idle, Holding, OneCycle, ToTry
  <2> QED BY <1>7, <2>1 DEF Abandon, ReplyQueue!GiveUp, ReplyQueue!Next
<1>8. CASE Tick \/ UNCHANGED vars
  BY <1>8 DEF Tick, vars, ToTry, ReplyQueue!vars
<1> QED BY <1>1, <1>2, <1>3, <1>4, <1>5, <1>6, <1>7, <1>8 DEF Next, Cycle

\* With one poll cycle at a time the queue implements the abstract one: batches are
\* handed out one after the other, a reply goes out once for each time it is handed
\* out, and gets one verdict at most, which is final and, if "sent", true (the poll
\* and report handlers of sms.go, for any batch size, replies and failures).
THEOREM RepliesRefine ==
  ASSUME OneCycle PROVE Spec => ImplementsReplyQueue
<1>1. Init => CopiesCounted /\ ReadIsPending
  BY DEF Init, CopiesCounted, ReadIsPending, Unclaimed, ToSend, Idle, Holding
<1>2. Inv /\ CopiesCounted /\ ReadIsPending /\ [Next]_vars
        => (CopiesCounted /\ ReadIsPending)'
  BY CopiesStep
<1>3. Init => HandOpen
  BY DEF Init, HandOpen, Idle, Holding
<1>4. Inv /\ ReadIsPending /\ HandOpen /\ [Next]_vars => HandOpen'
  BY HandOpenStep
<1>5. Init => ReplyQueue!Init
  BY DEF Init, ToTry, Idle, Holding, ReplyQueue!Init
<1>6. Inv /\ ReadIsPending /\ HandOpen /\ [Next]_vars => [ReplyQueue!Next]_(ReplyQueue!vars)
  BY ReplyStep
<1> QED BY <1>1, <1>2, <1>3, <1>4, <1>5, <1>6, Invariance, PTL
        DEF Spec, ImplementsReplyQueue, ReplyQueue!Spec
=============================================================================
