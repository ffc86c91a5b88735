----------------------------- MODULE BunnyVideos ----------------------------
(***************************************************************************)
(* Episodes whose video Bunny Stream transcodes (bunny.go and the Bunny    *)
(* path of handleCreateSfxEpisode).  A request that creates an episode     *)
(* asks Bunny how far the video is, finds or makes the show's collection,  *)
(* and writes the row seconds later; Bunny's webhooks clear the row's      *)
(* "processing" flag, if they find the row: by the video's guid, which a   *)
(* row made of a URL does not carry, or by that URL, which only some try.  *)
(* All episodes are of one show.                                           *)
(***************************************************************************)
EXTENDS Naturals, FiniteSets

CONSTANTS
  Creators,        \* requests, each with a video of its own
  MaxBunnyFaults   \* bound: requests to Bunny or to the database that fail

ASSUME BunnyAssumption == IsFiniteSet(Creators) /\ MaxBunnyFaults \in Nat

VARIABLES
  video,        \* what Bunny says of each video
  event,        \* webhooks of each video that Bunny has yet to deliver
  hook,         \* those whose handler has fetched the video
  creator,      \* the step of each request, the flag and guid it will write, its collection
  episode,      \* the row: none, processing, or ready
  collections,  \* how many collections Bunny has under the show's title
  linked,       \* the collection in the show's row, 0 for none
  assigned,     \* the collection of each video
  missed,       \* videos whose last webhook met no row, or whose patch failed
  clashed,      \* collections were listed by two requests at a time, or in vain
  bunnyFaults

bunnyVars == <<video, event, hook, creator, episode, collections, linked, assigned,
               missed, clashed, bunnyFaults>>
bunnyWorld == <<video, event, hook, missed>>
showVars == <<collections, linked, assigned, clashed>>

BunnyInit ==
  /\ video = [c \in Creators |-> "transcoding"]
  /\ event = [c \in Creators |-> {}]
  /\ hook = {}
  /\ creator = [c \in Creators |-> [pc |-> "new", processing |-> FALSE, named |-> FALSE,
                                    guid |-> 0]]
  /\ episode = [c \in Creators |-> "none"]
  /\ collections = 0 /\ linked = 0
  /\ assigned = [c \in Creators |-> 0]
  /\ missed = {} /\ clashed = FALSE
  /\ bunnyFaults = 0

BunnyFault == bunnyFaults < MaxBunnyFaults /\ bunnyFaults' = bunnyFaults + 1
NoBunnyFault == UNCHANGED bunnyFaults
AtStep(c, pc) == creator[c].pc = pc
GoToStep(c, pc) == creator' = [creator EXCEPT ![c].pc = pc]

----------------------------------------------------------------------------
(* Creating an episode *)

Begun(c, named) ==
  creator' = [creator EXCEPT ![c].pc = "show", ![c].named = named,
                             ![c].processing = video[c] = "transcoding"]

\* fetchBunnyVideo, whose guid goes into the row.
FetchVideo(c) ==
  /\ AtStep(c, "new")
  /\ Begun(c, TRUE)
  /\ NoBunnyFault
  /\ UNCHANGED <<bunnyWorld, showVars, episode>>

\* A caller that passes the URL and the flag has asked Bunny itself; the row has
\* the guid only if it was passed as bunnyGuid too.
TakeUrl(c, named) ==
  /\ AtStep(c, "new")
  /\ Begun(c, named)
  /\ NoBunnyFault
  /\ UNCHANGED <<bunnyWorld, showVars, episode>>

\* The request is answered with an error, and nothing was written.
FetchVideoFails(c) ==
  /\ AtStep(c, "new")
  /\ BunnyFault
  /\ GoToStep(c, "failed")
  /\ UNCHANGED <<bunnyWorld, showVars, episode>>

\* Only a video whose guid is known is put into the collection.
Assigning(c) == IF creator[c].named THEN "assign" ELSE "insert"

\* Without the show's title there is no collection to look for.
ReadShow(c) ==
  /\ AtStep(c, "show")
  /\ \/ /\ creator' = [creator EXCEPT ![c].pc = IF linked = 0 THEN "list" ELSE Assigning(c),
                                      ![c].guid = linked]
        /\ NoBunnyFault
     \/ GoToStep(c, "insert") /\ BunnyFault
  /\ UNCHANGED <<bunnyWorld, showVars, episode>>

OthersCreate(c) == \E d \in Creators \ {c} : creator[d].pc = "create"

\* The first of the collections with the title; if there is none, or they cannot
\* be listed, one is made.
ListCollections(c) ==
  /\ AtStep(c, "list")
  /\ \/ /\ creator' = [creator EXCEPT ![c].pc = IF collections = 0 THEN "create" ELSE "link",
                                      ![c].guid = IF collections = 0 THEN 0 ELSE 1]
        /\ clashed' = (clashed \/ OthersCreate(c))
        /\ NoBunnyFault
     \/ /\ GoToStep(c, "create")
        /\ clashed' = TRUE
        /\ BunnyFault
  /\ UNCHANGED <<bunnyWorld, episode, collections, linked, assigned>>

\* A failure is not fatal, and Bunny may have made the collection all the same.
CreateCollection(c) ==
  /\ AtStep(c, "create")
  /\ \/ /\ collections' = collections + 1
        /\ creator' = [creator EXCEPT ![c].pc = "link", ![c].guid = collections + 1]
        /\ NoBunnyFault
     \/ /\ collections' \in {collections, collections + 1}
        /\ GoToStep(c, "insert")
        /\ BunnyFault
  /\ UNCHANGED <<bunnyWorld, episode, linked, assigned, clashed>>

LinkShow(c) ==
  /\ AtStep(c, "link")
  /\ \/ linked' = creator[c].guid /\ NoBunnyFault
     \/ linked' = linked /\ BunnyFault
  /\ GoToStep(c, Assigning(c))
  /\ UNCHANGED <<bunnyWorld, episode, collections, assigned, clashed>>

AssignVideo(c) ==
  /\ AtStep(c, "assign")
  /\ \/ assigned' = [assigned EXCEPT ![c] = creator[c].guid] /\ NoBunnyFault
     \/ assigned' = assigned /\ BunnyFault
  /\ GoToStep(c, "insert")
  /\ UNCHANGED <<bunnyWorld, episode, collections, linked, clashed>>

\* A failing insert is answered 500, and the row may be there all the same.
InsertBunnyEpisode(c) ==
  /\ AtStep(c, "insert")
  /\ LET written == [episode EXCEPT ![c] =
                       IF creator[c].processing THEN "processing" ELSE "ready"]
     IN  \/ episode' = written /\ GoToStep(c, "done") /\ NoBunnyFault
         \/ episode' \in {episode, written} /\ GoToStep(c, "failed") /\ BunnyFault
  /\ UNCHANGED <<bunnyWorld, showVars>>

----------------------------------------------------------------------------
(* Bunny *)

\* A first resolution is playable, then the video is finished; or it fails.  Each
\* has its webhook (3 and 4 are the same to the handler).
Transcode(c, new) ==
  /\ video[c] = "transcoding"
  /\ video' = [video EXCEPT ![c] = IF new = "resolution" THEN @ ELSE new]
  /\ event' = [event EXCEPT ![c] = @ \cup {new}]
  /\ NoBunnyFault
  /\ UNCHANGED <<hook, missed, creator, episode, showVars>>

\* The handler of 3 and 4 fetches the video; when that fails Bunny sends again.
HookFetch(c, e) ==
  /\ e \in event[c] /\ e # "failed"
  /\ <<c, e>> \notin hook
  /\ hook' = hook \cup {<<c, e>>}
  /\ NoBunnyFault
  /\ UNCHANGED <<video, event, missed, creator, episode, showVars>>

HookDone(c, e, lost) ==
  /\ hook' = hook \ {<<c, e>>}
  /\ event' = [event EXCEPT ![c] = @ \ {e}]
  /\ missed' = IF lost THEN missed \cup {c} ELSE missed

\* 3 and 4: by guid, or else by URL; no row is no error, nor is a failed patch.
HookPatch(c, e) ==
  /\ <<c, e>> \in hook
  /\ \/ /\ episode' = [episode EXCEPT ![c] = IF @ = "none" THEN @ ELSE "ready"]
        /\ HookDone(c, e, e # "resolution" /\ episode[c] = "none" /\ ~AtStep(c, "new"))
        /\ NoBunnyFault
     \/ /\ episode' = episode
        /\ HookDone(c, e, TRUE)
        /\ BunnyFault
  /\ UNCHANGED <<video, creator, showVars>>

\* 5: nothing is fetched, and only a row that carries the guid is found.
HookFailed(c) ==
  /\ "failed" \in event[c]
  /\ \/ /\ episode' = [episode EXCEPT ![c] = IF @ = "none" \/ ~creator[c].named THEN @ ELSE "ready"]
        /\ HookDone(c, "failed", episode[c] = "none" /\ ~AtStep(c, "new"))
        /\ NoBunnyFault
     \/ /\ episode' = episode
        /\ HookDone(c, "failed", TRUE)
        /\ BunnyFault
  /\ UNCHANGED <<video, creator, showVars>>

BunnyNext ==
  \E c \in Creators :
    \/ FetchVideo(c) \/ FetchVideoFails(c) \/ HookFailed(c)
    \/ \E named \in BOOLEAN : TakeUrl(c, named)
    \/ ReadShow(c) \/ ListCollections(c)
    \/ CreateCollection(c) \/ LinkShow(c) \/ AssignVideo(c) \/ InsertBunnyEpisode(c)
    \/ \E e \in {"resolution", "finished", "failed"} :
         Transcode(c, e) \/ HookFetch(c, e) \/ HookPatch(c, e)

BunnySpec == BunnyInit /\ [][BunnyNext]_bunnyVars

----------------------------------------------------------------------------
(* Properties *)

\* Every variable has its type.
BunnyTypeOK ==
  /\ video \in [Creators -> {"transcoding", "finished", "failed"}]
  /\ event \in [Creators -> SUBSET {"resolution", "finished", "failed"}]
  /\ \A h \in hook : h[2] \in event[h[1]]
  /\ collections \in 0..Cardinality(Creators) /\ linked \in 0..collections
  /\ creator \in [Creators -> [pc : {"new", "show", "list", "create", "link", "assign", "insert",
                                     "done", "failed"},
                               processing : BOOLEAN, named : BOOLEAN, guid : 0..collections]]
  /\ episode \in [Creators -> {"none", "processing", "ready"}]
  /\ assigned \in [Creators -> 0..collections]
  /\ missed \subseteq Creators /\ clashed \in BOOLEAN /\ bunnyFaults \in 0..MaxBunnyFaults

\* Once Bunny is done with a video and its webhooks are delivered, its episode is
\* not shown as processing, unless the last webhook came between the request's
\* look at the video and the insert of the row, or its patch failed, or the video
\* failed and the row was made of a URL alone: then it is for ever, for the webhook
\* is answered with success (handleBunnyWebhook, handleCreateSfxEpisode).
ReadyUnlessMissed ==
  \A c \in Creators :
    video[c] # "transcoding" /\ event[c] = {} /\ episode[c] = "processing" =>
      c \in missed \/ (video[c] = "failed" /\ ~creator[c].named)

\* A show has one collection and its videos are in it, if their guids were known,
\* unless two requests that listed the collections overlap, or one of these
\* requests failed (bunnyCreateCollection).
OneCollection ==
  clashed \/ bunnyFaults > 0 \/
    /\ collections <= 1
    /\ \A c \in Creators : creator[c].pc = "done" =>
         linked # 0 /\ (creator[c].named => assigned[c] = linked)
=============================================================================
