------------------------------ MODULE GeoCache ------------------------------
(* The address cache of geoip.go: looked up under the read lock, asked of   *)
(* ip-api.com without one, stored under the write lock.  Every new viewer   *)
(* starts a lookup, reports wait for theirs, and a backfill goes through    *)
(* the addresses that were not there when it began.                         *)
EXTENDS Naturals, FiniteSets

CONSTANTS
  Addresses,
  Lookups,       \* goroutines that look up; one of them is
  Backfill,      \* the backfill
  MaxGeoFaults   \* bound: answers of the service that are no success

ASSUME GeoAssumption ==
  /\ Backfill \in Lookups /\ MaxGeoFaults \in Nat
  /\ "none" \notin Addresses

VARIABLES
  known,      \* what the cache says of an address: nothing, what the service said,
              \* or the guess made without it (Uganda)
  lookup,     \* the address each lookup asks for, if any
  backlog,    \* addresses that the backfill has still to look up
  told,       \* addresses that the service has said something of
  clashed,    \* addresses that two lookups asked for at a time
  geoFaults

geoVars == <<known, lookup, backlog, told, clashed, geoFaults>>

GeoInit ==
  /\ known = [a \in Addresses |-> "nothing"]
  /\ lookup = [l \in Lookups |-> "none"]
  /\ backlog = {}
  /\ told = {} /\ clashed = {}
  /\ geoFaults = 0

\* A hit answers at once.  Local addresses never get here.
LookUp(l, a) ==
  /\ lookup[l] = "none"
  /\ l = Backfill => a \in backlog
  /\ backlog' = IF l = Backfill THEN backlog \ {a} ELSE backlog
  /\ lookup' = [lookup EXCEPT ![l] = IF known[a] = "nothing" THEN a ELSE "none"]
  /\ clashed' = IF known[a] = "nothing" /\ \E k \in Lookups : lookup[k] = a
                THEN clashed \cup {a} ELSE clashed
  /\ UNCHANGED <<known, told, geoFaults>>

\* No request, no success within three seconds: a guess is stored, for good.
StoreAnswer(l) ==
  /\ lookup[l] # "none"
  /\ \/ /\ known' = [known EXCEPT ![lookup[l]] = "told"]
        /\ told' = told \cup {lookup[l]}
        /\ UNCHANGED geoFaults
     \/ /\ known' = [known EXCEPT ![lookup[l]] = "guess"]
        /\ geoFaults < MaxGeoFaults /\ geoFaults' = geoFaults + 1
        /\ UNCHANGED told
  /\ lookup' = [lookup EXCEPT ![l] = "none"]
  /\ UNCHANGED <<backlog, clashed>>

\* The addresses of the caller that the cache does not have.
StartBackfill(asked) ==
  /\ lookup[Backfill] = "none" /\ backlog = {}
  /\ backlog' = {a \in asked : known[a] = "nothing"}
  /\ UNCHANGED <<known, lookup, told, clashed, geoFaults>>

GeoNext ==
  \/ \E l \in Lookups : StoreAnswer(l) \/ \E a \in Addresses : LookUp(l, a)
  \/ \E asked \in SUBSET Addresses : StartBackfill(asked)

GeoSpec == GeoInit /\ [][GeoNext]_geoVars

----------------------------------------------------------------------------
(* Properties *)

\* Every variable has its type.
GeoTypeOK ==
  /\ known \in [Addresses -> {"nothing", "told", "guess"}]
  /\ lookup \in [Lookups -> Addresses \cup {"none"}]
  /\ backlog \subseteq Addresses /\ told \subseteq Addresses /\ clashed \subseteq Addresses
  /\ geoFaults \in 0..MaxGeoFaults

\* Two lookups of an address overlap when neither was answered before the other
\* began, and only then can a lookup be under way for an address that is known, and a
\* failing one put its guess, which is never asked about again, in the place of what
\* the service said.  There are no more guesses than failed lookups (Lookup).
AddressesSettle ==
  /\ \A a \in Addresses :
       LET asking == {l \in Lookups : lookup[l] = a}
       IN  \/ Cardinality(asking) > 1
           \/ known[a] # "nothing" /\ asking # {}
           \/ a \in told /\ known[a] = "guess"
           => a \in clashed
  /\ Cardinality({a \in Addresses : known[a] = "guess"}) <= geoFaults
=============================================================================
