---------------------------- MODULE AtLeastOnce ----------------------------
(***************************************************************************)
(* What the edge outbox promises its clients (README.md, "Edge outbox"):   *)
(* a batch that was acknowledged is held until it has been delivered at    *)
(* least once.  It says nothing of order, of the number of copies, or of   *)
(* when.                                                                   *)
(***************************************************************************)
CONSTANT Payload

VARIABLES
  held,       \* batches the queue answers for
  delivered,  \* batches the database has
  acked       \* batches some client believes accepted

vars == <<held, delivered, acked>>

Init == held = {} /\ delivered = {} /\ acked = {}

\* A batch is taken in; the acknowledgement reaches the client or is lost.
Admit(p) ==
  /\ held' = held \cup {p}
  /\ acked' \in {acked, acked \cup {p}}
  /\ UNCHANGED delivered

\* The same batch again, while it is held or after it was delivered.
AckAgain(p) ==
  /\ p \in held \cup delivered
  /\ acked' = acked \cup {p}
  /\ UNCHANGED <<held, delivered>>

Deliver(p) ==
  /\ p \in held
  /\ delivered' = delivered \cup {p}
  /\ UNCHANGED <<held, acked>>

\* The queue forgets a batch only when the database has it.
Release(p) ==
  /\ p \in delivered
  /\ held' = held \ {p}
  /\ UNCHANGED <<delivered, acked>>

Next == \E p \in Payload : Admit(p) \/ AckAgain(p) \/ Deliver(p) \/ Release(p)

Spec == Init /\ [][Next]_vars

\* No acknowledged batch is lost.
Safe == acked \subseteq held \cup delivered
=============================================================================
