----------------------------- MODULE MCContent -----------------------------
(***************************************************************************)
(* The editorial side, part by part: editing the catalog, the jobs that    *)
(* derive tables and search indices, and the pure algorithms.  The parts   *)
(* share no state, so a behaviour is about one of them.                    *)
(***************************************************************************)
EXTENDS OnDemand, BunnyVideos, RadioSync, EpgSync, Indexer, Algorithms

MCSlug == [s \in Shows |-> "slug"]
MCMirrored == {<<"m", 1>>}
MCIndices == <<"tv_shows", "joomla">>
MCContentId == [p \in Programs |-> IF p \in TvPrograms THEN "" ELSE p]
MCBases == <<<<"us2", "eu1">>, <<"mesh">>>>

VARIABLE part

vars == <<onDemandVars, bunnyVars, radioVars, epgVars, viewerVars, indexVars, algorithmVars, part>>

Init ==
  /\ part \in {"catalog", "videos", "radio", "epg", "viewers", "index", "algorithms"}
  /\ OnDemandInit
  /\ BunnyInit
  /\ RadioInit /\ (part # "radio" => job = "history")
  /\ EpgInit /\ (part # "epg" => lineup = {})
  /\ ViewerInit
  /\ IndexInit /\ (part # "index" => source = [i \in ToSet(Indices) |-> {}])
  /\ IF part = "algorithms" THEN AlgorithmInit ELSE NoTask

\* Bound: webhooks come of one video, the other is of interest for its collection.
OneIsTranscoded == event["y"] = {}

lineupVars == <<lineup, lineupEdits, metadata, radioRows, mirror, epgSpent, tangled, torn>>

Next ==
  /\ UNCHANGED part
  /\ \/ /\ part = "catalog" /\ OnDemandNext
        /\ UNCHANGED <<bunnyVars, radioVars, epgVars, viewerVars, indexVars, algorithmVars>>
     \/ /\ part = "videos" /\ BunnyNext /\ OneIsTranscoded'
        /\ UNCHANGED <<onDemandVars, radioVars, epgVars, viewerVars, indexVars, algorithmVars>>
     \/ /\ part = "radio" /\ RadioNext
        /\ UNCHANGED <<onDemandVars, bunnyVars, epgVars, viewerVars, indexVars, algorithmVars>>
     \/ /\ part = "epg" /\ EpgNext
        /\ UNCHANGED <<onDemandVars, bunnyVars, radioVars, viewerVars, indexVars, algorithmVars>>
     \/ /\ part = "viewers" /\ ViewerNext
        /\ UNCHANGED <<onDemandVars, bunnyVars, radioVars, lineupVars, indexVars, algorithmVars>>
     \/ /\ part = "index" /\ IndexNext
        /\ UNCHANGED <<onDemandVars, bunnyVars, radioVars, epgVars, viewerVars, algorithmVars>>
     \/ /\ part = "algorithms" /\ AlgorithmNext
        /\ UNCHANGED <<onDemandVars, bunnyVars, radioVars, epgVars, viewerVars, indexVars>>

\* The scheduler's runEvery and the indexer's ticker start the jobs again and
\* again; deadlines end every request that a run makes, so no run stays in a step.
Fairness ==
  /\ WF_radioVars(part = "radio" /\ PullFromAzura("scheduler"))
  /\ WF_radioVars(part = "radio" /\ RadioStep("scheduler"))
  /\ WF_epgVars(part = "epg" /\ StartMirror("scheduler"))
  /\ \A a \in EpgActors : WF_epgVars(part = "epg" /\ MirrorStep(a))
  /\ \A j \in ViewerJobs : WF_viewerVars(part = "viewers" /\ ViewerStep(j))
  /\ WF_indexVars(part = "index" /\ StartFull)
  /\ WF_indexVars(part = "index" /\ IndexStep)

Spec == Init /\ [][Next]_vars /\ Fairness

----------------------------------------------------------------------------

\* Every variable of every part has its type.
ContentTypeOK ==
  OnDemandTypeOK /\ BunnyTypeOK /\ RadioTypeOK /\ EpgTypeOK /\ IndexTypeOK

\* The catalog's counts say what it holds, episodes do not wait for videos that are
\* done, and a show has one collection, but for the overlaps and failures that
\* CountsTrue, ReadyUnlessMissed and OneCollection name.
CatalogTrue == CountsTrue /\ ReadyUnlessMissed /\ OneCollection

\* The jobs' tables are honest: a song that was pulled is stored, a mirrored table
\* is whole or empty and the two agree, an index holds what it was loaded with, a
\* paged read is complete, and no day has views it never had, but for the mishaps
\* each part names.
SyncHonest == SongsKept /\ MirrorsHonest /\ ViewersCounted /\ PagedReadComplete /\ IndexTrue

\* Once edits, requests and failures stop, every derived table and index comes to
\* say what its source says.
MirrorsCatchUp ==
  <>[](/\ part = "radio" => RadioSettled
       /\ part = "epg" => EpgSettled
       /\ part = "viewers" => ViewersSettled
       /\ part = "index" => IndexSettled)
=============================================================================
