------------------------------ MODULE MCOutbox ------------------------------
(* Outbox on small instances: a traffic batch and an analytics batch. *)
EXTENDS Outbox, TLC
B == INSTANCE Backoff

CONSTANTS video, analytics, c1, c2

MCPayload == {video, analytics}
MCKindOf == video :> "video.ingest" @@ analytics :> "analytics.rows"
MCBytes == video :> 3 @@ analytics :> 2
MCBackoff == [n \in 1..CountCap |-> B!BackoffDelay(1, 2, n)]
NoneRejected == {}
VideoRejected == {video}
=============================================================================
