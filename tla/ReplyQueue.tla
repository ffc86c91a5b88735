---------------------------- MODULE ReplyQueue ----------------------------
(***************************************************************************)
(* What the SMS reply queue (gofn/sms.go) promises while one gateway polls *)
(* it: replies are handed out in batches, one after the other; each goes   *)
(* out at most once for each time it is handed out, and gets at most one   *)
(* verdict, which is final.  It is handed out again only if it was handed  *)
(* out without being marked.  Nothing is said of order, and a reply may be *)
(* given up.                                                               *)
(***************************************************************************)
EXTENDS Naturals

CONSTANT Reply

VARIABLES
  shown,   \* what the presenter sees of each reply
  hand,    \* replies handed out that are still to be sent
  copies,  \* how often each was sent
  slips    \* batches handed out unmarked

vars == <<shown, hand, copies, slips>>

Init ==
  /\ shown = [m \in Reply |-> "none"]
  /\ hand = {}
  /\ copies = [m \in Reply |-> 0]
  /\ slips = 0

Queue(m) ==
  /\ shown[m] = "none"
  /\ shown' = [shown EXCEPT ![m] = "pending"]
  /\ UNCHANGED <<hand, copies, slips>>

HandOut(ms) ==
  /\ hand = {}
  /\ ms # {} /\ \A m \in ms : shown[m] = "pending"
  /\ hand' = ms
  /\ UNCHANGED copies

Take(ms) ==
  /\ HandOut(ms)
  /\ shown' = [m \in Reply |-> IF m \in ms THEN "sending" ELSE shown[m]]
  /\ UNCHANGED slips

TakeUnmarked(ms) ==
  /\ HandOut(ms)
  /\ slips' = slips + 1
  /\ UNCHANGED shown

\* The modem sends a reply, or tries in vain.
Try(m) ==
  /\ m \in hand
  /\ hand' = hand \ {m}
  /\ copies' \in {copies, [copies EXCEPT ![m] = @ + 1]}
  /\ UNCHANGED <<shown, slips>>

\* Only a reply that was marked when it was handed out, or slipped, is settled, and
\* only once; "sent" is said of what was sent.
Settle(m, verdict) ==
  /\ m \notin hand
  /\ shown[m] = "sending" \/ (shown[m] = "pending" /\ slips > 0)
  /\ verdict = "sent" => copies[m] > 0
  /\ shown' = [shown EXCEPT ![m] = verdict]
  /\ UNCHANGED <<hand, copies, slips>>

GiveUp == hand' = {} /\ UNCHANGED <<shown, copies, slips>>

Next ==
  \/ \E m \in Reply :
       Queue(m) \/ Try(m) \/ \E verdict \in {"sent", "failed"} : Settle(m, verdict)
  \/ \E ms \in SUBSET Reply : Take(ms) \/ TakeUnmarked(ms)
  \/ GiveUp

Spec == Init /\ [][Next]_vars
=============================================================================
