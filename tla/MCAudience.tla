----------------------------- MODULE MCAudience -----------------------------
(***************************************************************************)
(* What listeners, viewers and editors do to the mesh's own state, part by *)
(* part: the answer caches, the viewer tracker, the address cache, inbound *)
(* texts, chat messages and users.  The parts share no state, so a         *)
(* behaviour is about one of them.                                         *)
(***************************************************************************)
EXTENDS Caches, ViewerStats, GeoCache, Inbound, ChatMessages, UserStores

MCSender == [t \in Texts |-> "listener"]
MCEmailOf == [u \in Uids |-> "mail"]
MCPosts == {[by |-> "ann", mentions |-> {"bob", "ann"}, quiet |-> FALSE],
            [by |-> "bob", mentions |-> {}, quiet |-> FALSE],
            [by |-> "nobody", mentions |-> {"cat"}, quiet |-> FALSE],
            [by |-> "ann", mentions |-> {}, quiet |-> TRUE]}

VARIABLE part

vars == <<cacheVars, viewerVars, geoVars, inboundVars, chatVars, userVars, part>>

\* Bound: both texts are pushed, or one of them twice.
TwoPushes == Cardinality({p \in Pushes : push[p].pc # "unsent"}) <= 2

\* The parts that a behaviour is not about rest in one initial state.  The two
\* rooms are alike, so "next" need not be the first on air.
Init ==
  /\ part \in {"caches", "viewers", "geo", "inbound", "chat", "users"}
  /\ CacheInit /\ (part # "caches" => cache = "ads")
  /\ ViewerInit
  /\ GeoInit
  /\ InboundInit /\ onAir # "next" /\ (part # "inbound" => route = "plain" /\ onAir = "none")
  /\ ChatInit /\ (part # "chat" => \A u \in Users : participants[u] = 0)
  /\ UserInit

Next ==
  /\ UNCHANGED part
  /\ \/ /\ part = "caches" /\ CacheNext
        /\ UNCHANGED <<viewerVars, geoVars, inboundVars, chatVars, userVars>>
     \/ /\ part = "viewers" /\ ViewerNext
        /\ UNCHANGED <<cacheVars, geoVars, inboundVars, chatVars, userVars>>
     \/ /\ part = "geo" /\ GeoNext
        /\ UNCHANGED <<cacheVars, viewerVars, inboundVars, chatVars, userVars>>
     \/ /\ part = "inbound" /\ InboundNext /\ TwoPushes'
        /\ UNCHANGED <<cacheVars, viewerVars, geoVars, chatVars, userVars>>
     \/ /\ part = "chat" /\ ChatNext
        /\ UNCHANGED <<cacheVars, viewerVars, geoVars, inboundVars, userVars>>
     \/ /\ part = "users" /\ UserNext
        /\ UNCHANGED <<cacheVars, viewerVars, geoVars, inboundVars, chatVars>>

Spec == Init /\ [][Next]_vars

----------------------------------------------------------------------------

\* Every variable of every part has its type.
AudienceTypeOK ==
  CacheTypeOK /\ ViewerTypeOK /\ GeoTypeOK /\ InboundTypeOK /\ ChatTypeOK /\ UserTypeOK

\* The live counts and the history show what was heard of, and the address cache
\* changes its mind about an address only while two lookups of it overlap.
ViewersTrue == WindowExact /\ OneSnapshotPerMinute /\ AddressesSettle

\* Listeners' texts and users' messages reach the room, its participants and its
\* admins once, but for the mishaps that InboundTrue, JoinedOnce and ToldOnce name.
ChatsTrue == InboundTrue /\ JoinedOnce /\ ToldOnce
=============================================================================
