-------------------------- MODULE NotificationLog --------------------------
(***************************************************************************)
(* The push-notification log of gofn/notifications.go.  A send writes a    *)
(* "sending" row, fetches the device tokens, fans out to FCM, and patches  *)
(* its row.  Broadcasts run in the background, one at a time; individual   *)
(* sends run in their request.  Five seconds after it starts, the process  *)
(* marks rows left in "sending" as failed.  Operators delete rows at any   *)
(* time, and the process may be restarted at any step.                     *)
(***************************************************************************)
EXTENDS Integers, FiniteSets

CONSTANTS
  Sends,       \* sends ever requested, each with its own random id
  Broadcasts,  \* those to every device
  MaxFaults    \* bound: failed requests and restarts

Free == "free"

ASSUME NotificationAssumption ==
  /\ Broadcasts \subseteq Sends
  /\ Free \notin Sends
  /\ MaxFaults \in Nat

VARIABLES
  log,           \* notifications.status by id
  task,          \* the step of runNotificationSend each send is at
  pushed,        \* sends whose fan-out was made
  lock,          \* the broadcast that holds broadcastMu
  cleanup,       \* the stale cleanup of this process is still to run
  failedPatches, \* final patches and cleanups that failed
  faults

vars == <<log, task, pushed, lock, cleanup, failedPatches, faults>>

Live == {"insert", "fetch", "fanout", "failing", "finishing"}

Init ==
  /\ log = [s \in Sends |-> "none"]
  /\ task = [s \in Sends |-> "none"]
  /\ pushed = {}
  /\ lock = Free
  /\ cleanup = TRUE
  /\ failedPatches = 0
  /\ faults = 0

Fault == faults < MaxFaults /\ faults' = faults + 1
At(s, step) == task[s] = step
GoTo(s, step) == task' = [task EXCEPT ![s] = step]

----------------------------------------------------------------------------
\* Mutants: a broadcast does not wait for the one in progress; every send takes
\* the lock of the broadcasts.
RequestUnlocked(s) ==
  /\ At(s, "none")
  /\ lock' = IF s \in Broadcasts THEN s ELSE lock
  /\ GoTo(s, "insert")
  /\ UNCHANGED <<log, pushed, cleanup, failedPatches, faults>>

RequestLocksAll(s) ==
  /\ At(s, "none")
  /\ lock = Free
  /\ lock' = s
  /\ GoTo(s, "insert")
  /\ UNCHANGED <<log, pushed, cleanup, failedPatches, faults>>

\* POST /sendNotification: TryLock, or 409 and nothing happens.
Request(s) ==
  /\ At(s, "none")
  /\ s \in Broadcasts => lock = Free
  /\ lock' = IF s \in Broadcasts THEN s ELSE lock
  /\ GoTo(s, "insert")
  /\ UNCHANGED <<log, pushed, cleanup, failedPatches, faults>>

Insert(s) ==
  /\ At(s, "insert")
  /\ log' = [log EXCEPT ![s] = "sending"]
  /\ GoTo(s, "fetch")
  /\ UNCHANGED <<pushed, lock, cleanup, failedPatches, faults>>

\* A failed insert is logged; the send goes on without a row.
InsertFails(s) ==
  /\ At(s, "insert")
  /\ Fault
  /\ GoTo(s, "fetch")
  /\ UNCHANGED <<log, pushed, lock, cleanup, failedPatches>>

\* No device, or the tokens could not be read: nothing is pushed.
Fetch(s) ==
  /\ At(s, "fetch")
  /\ \E next \in {"fanout", "failing"} : GoTo(s, next)
  /\ UNCHANGED <<log, pushed, lock, cleanup, failedPatches, faults>>

\* sendFCMMany returns when every worker has; how many succeeded is only counted.
FanOut(s) ==
  /\ At(s, "fanout")
  /\ pushed' = pushed \cup {s}
  /\ GoTo(s, "finishing")
  /\ UNCHANGED <<log, lock, cleanup, failedPatches, faults>>

Unlock(s) == lock' = IF lock = s THEN Free ELSE lock

\* Mutants: the final status of a send without devices, and of one whose row
\* the cleanup has meanwhile marked.
OutcomeSent(s) == "sent"
OutcomeKeepsFailed(s) ==
  IF task[s] = "failing" \/ log[s] = "failed" THEN "failed" ELSE "sent"
Outcome(s) == IF task[s] = "failing" THEN "failed" ELSE "sent"

\* finish patches the row by id: a deleted or missing row stays so.
Finish(s) ==
  /\ task[s] \in {"failing", "finishing"}
  /\ log' = [log EXCEPT ![s] = IF @ \in {"none", "deleted"} THEN @ ELSE Outcome(s)]
  /\ Unlock(s)
  /\ GoTo(s, "done")
  /\ UNCHANGED <<pushed, cleanup, failedPatches, faults>>

\* Its error (the context of the whole send may be over) is only logged.
FinishFails(s) ==
  /\ task[s] \in {"failing", "finishing"}
  /\ Fault
  /\ failedPatches' = failedPatches + 1
  /\ Unlock(s)
  /\ GoTo(s, "done")
  /\ UNCHANGED <<log, pushed, cleanup>>

----------------------------------------------------------------------------
\* Mutant: the cleanup looks for a status no row has.
CleanupNothing ==
  /\ cleanup
  /\ cleanup' = FALSE
  /\ UNCHANGED <<log, task, pushed, lock, failedPatches, faults>>

\* One PATCH status=eq.sending per process start, rows of live sends included.
Cleanup ==
  /\ cleanup
  /\ cleanup' = FALSE
  /\ log' = [s \in Sends |-> IF log[s] = "sending" THEN "failed" ELSE log[s]]
  /\ UNCHANGED <<task, pushed, lock, failedPatches, faults>>

CleanupFails ==
  /\ cleanup
  /\ Fault
  /\ cleanup' = FALSE
  /\ failedPatches' = failedPatches + 1
  /\ UNCHANGED <<log, task, pushed, lock>>

\* deleteNotification, deleteNotifications and clearSentNotifications.
Delete(ss) ==
  /\ ss # {}
  /\ \A s \in ss : log[s] \notin {"none", "deleted"}
  /\ log' = [s \in Sends |-> IF s \in ss THEN "deleted" ELSE log[s]]
  /\ UNCHANGED <<task, pushed, lock, cleanup, failedPatches, faults>>

\* The process is replaced: sends in progress are gone, wherever they were.  A
\* fan-out that was under way reached some devices or none.
Restart ==
  /\ Fault
  /\ task' = [s \in Sends |-> IF task[s] \in Live THEN "lost" ELSE task[s]]
  /\ pushed' \in {pushed, pushed \cup {s \in Sends : task[s] = "fanout"}}
  /\ lock' = Free
  /\ cleanup' = TRUE
  /\ UNCHANGED <<log, failedPatches>>

----------------------------------------------------------------------------
Progress(s) ==
  \/ Insert(s) \/ InsertFails(s) \/ Fetch(s) \/ FanOut(s)
  \/ Finish(s) \/ FinishFails(s)

Next ==
  \/ \E s \in Sends : Request(s) \/ Progress(s)
  \/ Cleanup \/ CleanupFails
  \/ \E ss \in SUBSET Sends : Delete(ss)
  \/ Restart

Spec == Init /\ [][Next]_vars

\* Every client call of a send has a time limit, and the timer of the cleanup
\* fires.
FairSpec ==
  /\ Spec
  /\ \A s \in Sends : WF_vars(Progress(s))
  /\ WF_vars(Cleanup \/ CleanupFails)

----------------------------------------------------------------------------
(* Properties *)

\* Every variable has its type; only a broadcast holds the lock.
TypeOK ==
  /\ log \in [Sends -> {"none", "sending", "sent", "failed", "deleted"}]
  /\ task \in [Sends -> {"none", "done", "lost"} \cup Live]
  /\ pushed \subseteq Sends
  /\ lock \in Broadcasts \cup {Free}
  /\ cleanup \in BOOLEAN
  /\ faults \in 0..MaxFaults
  /\ failedPatches \in 0..faults

\* Broadcasts never overlap, and the lock is not left behind by one that ended
\* or was lost in a restart: the broadcasts in progress are those that hold it.
OneBroadcast == {s \in Broadcasts : task[s] \in Live} = {lock} \ {Free}

\* A row shows "sent" only after the fan-out.
SentMeansPushed == \A s \in Sends : log[s] = "sent" => s \in pushed

\* A send that ran to its end shows what became of it, although the cleanup may
\* have marked its row while it was in progress.
FinalStatusTrue ==
  \A s \in Sends :
    task[s] = "done" /\ failedPatches = 0 /\ log[s] \in {"sending", "failed"}
      => s \notin pushed

\* No row stays in "sending" for ever, through restarts at any step: only a
\* final patch or a cleanup that failed can leave it there.
NoRowStuck ==
  \A s \in Sends : log[s] = "sending" ~> log[s] # "sending" \/ failedPatches > 0
=============================================================================
