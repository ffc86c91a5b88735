-------------------------- MODULE NotificationProofs --------------------------
(***************************************************************************)
(* What holds of the notification log for any number of sends, broadcasts  *)
(* and faults.                                                             *)
(***************************************************************************)
EXTENDS NotificationLog, TLAPS

\* Where a send is tells whether its fan-out was made: the link between the
\* statuses that Finish writes and the pushes that went out.
StepTellsPushed ==
  \A s \in Sends :
    /\ task[s] = "finishing" => s \in pushed
    /\ task[s] \in {"none", "insert", "fetch", "fanout", "failing"}
         => s \notin pushed

\* The inductive invariant.
Inv ==
  /\ TypeOK
  /\ OneBroadcast
  /\ SentMeansPushed
  /\ FinalStatusTrue
  /\ StepTellsPushed

\* A fault stays within the bound.
LEMMA FaultBounded ==
  ASSUME TypeOK, Fault
  PROVE  faults' \in 0..MaxFaults /\ faults' = faults + 1
  BY NotificationAssumption DEF TypeOK, Fault

\* Nothing has happened in the first state.
LEMMA InitInv == Init => Inv
  BY NotificationAssumption
     DEF Init, Inv, TypeOK, OneBroadcast, SentMeansPushed, FinalStatusTrue,
         StepTellsPushed, Live, Free

\* The types survive every step.
LEMMA NextTypes == TypeOK /\ [Next]_vars => TypeOK'
<1> SUFFICES ASSUME TypeOK, [Next]_vars PROVE TypeOK'
    OBVIOUS
<1> USE DEF TypeOK, Live
<1>1. ASSUME NEW s \in Sends, Request(s) PROVE TypeOK'
    BY <1>1 DEF Request, GoTo
<1>2. ASSUME NEW s \in Sends, Insert(s) PROVE TypeOK'
    BY <1>2 DEF Insert, GoTo
<1>3. ASSUME NEW s \in Sends, InsertFails(s) PROVE TypeOK'
    BY <1>3, FaultBounded DEF InsertFails, GoTo
<1>4. ASSUME NEW s \in Sends, Fetch(s) PROVE TypeOK'
    BY <1>4 DEF Fetch, GoTo
<1>5. ASSUME NEW s \in Sends, FanOut(s) PROVE TypeOK'
    BY <1>5 DEF FanOut, GoTo
<1>6. ASSUME NEW s \in Sends, Finish(s) PROVE TypeOK'
    BY <1>6 DEF Finish, Outcome, Unlock, GoTo
<1>7. ASSUME NEW s \in Sends, FinishFails(s) PROVE TypeOK'
    BY <1>7, FaultBounded DEF FinishFails, Unlock, GoTo
<1>8. CASE Cleanup
    BY <1>8 DEF Cleanup
<1>9. CASE CleanupFails
  <2>1. faults' \in 0..MaxFaults /\ failedPatches' \in 0..faults'
      BY <1>9, FaultBounded DEF CleanupFails
  <2>2. cleanup' \in BOOLEAN
      BY <1>9 DEF CleanupFails
  <2> QED BY <1>9, <2>1, <2>2 DEF CleanupFails
<1>10. ASSUME NEW ss \in SUBSET Sends, Delete(ss) PROVE TypeOK'
    BY <1>10 DEF Delete
<1>11. CASE Restart
    BY <1>11, FaultBounded DEF Restart
<1>12. CASE UNCHANGED vars
    BY <1>12 DEF vars
<1> QED BY <1>1, <1>2, <1>3, <1>4, <1>5, <1>6, <1>7, <1>8, <1>9, <1>10, <1>11,
           <1>12 DEF Next, Progress

\* The lock and the broadcasts in progress change together.
LEMMA OneBroadcastStep ==
  ASSUME TypeOK, OneBroadcast, [Next]_vars
  PROVE  OneBroadcast'
<1> USE NotificationAssumption DEF TypeOK, OneBroadcast, Live
<1>1. ASSUME NEW s \in Sends, Request(s) PROVE OneBroadcast'
    BY <1>1 DEF Request, GoTo, At
<1>2. ASSUME NEW s \in Sends, task[s] \in Live, UNCHANGED lock,
             NEW step \in Live, GoTo(s, step)
      PROVE  OneBroadcast'
    BY <1>2 DEF GoTo
<1>3. ASSUME NEW s \in Sends, Finish(s) \/ FinishFails(s) PROVE OneBroadcast'
    BY <1>3 DEF Finish, FinishFails, Unlock, GoTo
<1>4. CASE Restart
    BY <1>4 DEF Restart
<1>5. CASE UNCHANGED <<task, lock>>
    BY <1>5
<1>6. ASSUME NEW s \in Sends, Insert(s) \/ InsertFails(s) \/ Fetch(s) \/ FanOut(s)
      PROVE  OneBroadcast'
    BY <1>2, <1>6 DEF Insert, InsertFails, Fetch, FanOut, At
<1>7. ASSUME NEW ss \in SUBSET Sends, Delete(ss) PROVE OneBroadcast'
    BY <1>5, <1>7 DEF Delete
<1>8. CASE Cleanup \/ CleanupFails \/ UNCHANGED vars
    BY <1>5, <1>8 DEF Cleanup, CleanupFails, vars
<1> QED BY <1>1, <1>3, <1>4, <1>6, <1>7, <1>8 DEF Next, Progress

\* A send is pushed exactly where FanOut says so, or where a restart cut it off.
LEMMA StepTellsPushedStep ==
  ASSUME TypeOK, StepTellsPushed, [Next]_vars
  PROVE  StepTellsPushed'
<1> USE DEF TypeOK, StepTellsPushed, Live
<1>1. ASSUME NEW s \in Sends,
             Request(s) \/ Insert(s) \/ InsertFails(s) \/ Fetch(s)
      PROVE  StepTellsPushed'
    BY <1>1 DEF Request, Insert, InsertFails, Fetch, GoTo, At
<1>2. ASSUME NEW s \in Sends, FanOut(s) PROVE StepTellsPushed'
    BY <1>2 DEF FanOut, GoTo, At
<1>3. ASSUME NEW s \in Sends, Finish(s) \/ FinishFails(s) PROVE StepTellsPushed'
    BY <1>3 DEF Finish, FinishFails, GoTo
<1>4. CASE Restart
    BY <1>4 DEF Restart
<1>5. CASE UNCHANGED <<task, pushed>>
    BY <1>5
<1>6. ASSUME NEW ss \in SUBSET Sends, Delete(ss) PROVE StepTellsPushed'
    BY <1>5, <1>6 DEF Delete
<1>7. CASE Cleanup \/ CleanupFails \/ UNCHANGED vars
    BY <1>5, <1>7 DEF Cleanup, CleanupFails, vars
<1> QED BY <1>1, <1>2, <1>3, <1>4, <1>6, <1>7 DEF Next, Progress

\* What a row shows agrees with what was pushed.
LEMMA StatusStep ==
  ASSUME Inv, [Next]_vars
  PROVE  SentMeansPushed' /\ FinalStatusTrue'
<1> USE DEF Inv, TypeOK, SentMeansPushed, FinalStatusTrue, StepTellsPushed, Live
<1>1. ASSUME NEW s \in Sends, Request(s) PROVE SentMeansPushed' /\ FinalStatusTrue'
    BY <1>1 DEF Request, GoTo, At
<1>2. ASSUME NEW s \in Sends, Insert(s) PROVE SentMeansPushed' /\ FinalStatusTrue'
    BY <1>2 DEF Insert, GoTo, At
<1>3. ASSUME NEW s \in Sends, InsertFails(s) \/ Fetch(s) \/ FanOut(s)
      PROVE  SentMeansPushed' /\ FinalStatusTrue'
    BY <1>3 DEF InsertFails, Fetch, FanOut, GoTo, At
<1>4. ASSUME NEW s \in Sends, Finish(s) PROVE SentMeansPushed' /\ FinalStatusTrue'
    BY <1>4 DEF Finish, Outcome, GoTo
<1>5. ASSUME NEW s \in Sends, FinishFails(s)
      PROVE  SentMeansPushed' /\ FinalStatusTrue'
  <2>1. failedPatches' # 0
      BY <1>5 DEF FinishFails
  <2> QED BY <1>5, <2>1 DEF FinishFails
<1>6. CASE Cleanup
    BY <1>6 DEF Cleanup
<1>7. CASE CleanupFails
  <2>1. failedPatches' # 0
      BY <1>7 DEF CleanupFails
  <2> QED BY <1>7, <2>1 DEF CleanupFails
<1>8. ASSUME NEW ss \in SUBSET Sends, Delete(ss)
      PROVE  SentMeansPushed' /\ FinalStatusTrue'
    BY <1>8 DEF Delete
<1>9. CASE Restart
    BY <1>9 DEF Restart
<1>10. CASE UNCHANGED vars
    BY <1>10 DEF vars
<1> QED BY <1>1, <1>2, <1>3, <1>4, <1>5, <1>6, <1>7, <1>8, <1>9, <1>10
        DEF Next, Progress

\* Every reachable state satisfies the inductive invariant.
LEMMA Invariance == Spec => []Inv
<1>1. Inv /\ [Next]_vars => Inv'
    BY NextTypes, OneBroadcastStep, StepTellsPushedStep, StatusStep DEF Inv
<1> QED BY InitInv, <1>1, PTL DEF Spec

\* The state of the log keeps its types.
THEOREM NotificationTypes == Spec => []TypeOK
<1>1. Inv => TypeOK
    BY DEF Inv
<1> QED BY <1>1, Invariance, PTL

\* At most one broadcast is in progress, and it is the one that holds the lock,
\* across restarts.
THEOREM BroadcastsExclude == Spec => []OneBroadcast
<1>1. Inv => OneBroadcast
    BY DEF Inv
<1> QED BY <1>1, Invariance, PTL

\* A row never claims a push that was not made.
THEOREM SentIsPushed == Spec => []SentMeansPushed
<1>1. Inv => SentMeansPushed
    BY DEF Inv
<1> QED BY <1>1, Invariance, PTL

\* A send that ended shows its own outcome, whatever the cleanup wrote before.
THEOREM FinalStatusIsTrue == Spec => []FinalStatusTrue
<1>1. Inv => FinalStatusTrue
    BY DEF Inv
<1> QED BY <1>1, Invariance, PTL
=============================================================================
