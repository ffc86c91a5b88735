------------------------------ MODULE TsdbConn ------------------------------
(***************************************************************************)
(* The lazy connection to TimescaleDB of gofn/tsdb.go.  Whoever needs the  *)
(* database calls conn, which dials under the connection's mutex if there  *)
(* is no pool yet.  Health probes call status, which never waits for the   *)
(* mutex but holds it while it pings.                                      *)
(***************************************************************************)
EXTENDS Integers

CONSTANTS
  Callers,   \* requests and jobs that need the database
  Probes,    \* health probes
  MaxFaults  \* bound: outages, timeouts, lost answers, restarts

Free == "free"

ASSUME TsdbAssumption ==
  /\ Free \notin Callers \cup Probes
  /\ Callers \cap Probes = {}
  /\ MaxFaults \in Nat

VARIABLES
  dbUp,       \* the database is reachable
  connected,  \* t.db is not nil
  mu,         \* holder of t.mu
  at,         \* how far each caller is in conn
  probe,      \* what each probe is doing, or was told
  faults

connVars == <<dbUp, connected, mu, at, probe, faults>>

ConnInit ==
  /\ dbUp \in BOOLEAN
  /\ connected = FALSE
  /\ mu = Free
  /\ at = [c \in Callers |-> "away"]
  /\ probe = [p \in Probes |-> "none"]
  /\ faults = 0

Fault == faults < MaxFaults /\ faults' = faults + 1
FaultIf(down) == IF down THEN faults' = faults ELSE Fault

\* With a pool, conn locks and unlocks in one step and asks nobody.
ConnReuse(c) ==
  /\ at[c] = "waiting"
  /\ mu = Free
  /\ connected
  /\ at' = [at EXCEPT ![c] = "has"]
  /\ UNCHANGED <<dbUp, connected, mu, probe, faults>>

ConnDial(c) ==
  /\ at[c] = "waiting"
  /\ mu = Free
  /\ ~connected
  /\ mu' = c
  /\ at' = [at EXCEPT ![c] = "dialing"]
  /\ UNCHANGED <<dbUp, connected, probe, faults>>

ConnDialed(c) ==
  /\ at[c] = "dialing"
  /\ dbUp
  /\ connected' = TRUE
  /\ mu' = Free
  /\ at' = [at EXCEPT ![c] = "has"]
  /\ UNCHANGED <<dbUp, probe, faults>>

\* Mutant: the early return of a failed ping leaves the mutex locked.
ConnDialFailsLocked(c) ==
  /\ at[c] = "dialing"
  /\ FaultIf(~dbUp)
  /\ at' = [at EXCEPT ![c] = "refused"]
  /\ UNCHANGED <<dbUp, connected, mu, probe>>

\* The ping fails, or its ten seconds or the caller's own context are over.
ConnDialFails(c) ==
  /\ at[c] = "dialing"
  /\ FaultIf(~dbUp)
  /\ mu' = Free
  /\ at' = [at EXCEPT ![c] = "refused"]
  /\ UNCHANGED <<dbUp, connected, probe>>

\* status: TryLock, and an answer at once unless there is a pool to ping.
ProbeStart(p) ==
  /\ probe[p] # "pinging"
  /\ LET pings == mu = Free /\ connected
         told == IF mu # Free THEN "busy" ELSE "absent"
     IN  /\ mu' = IF pings THEN p ELSE mu
         /\ probe' = [probe EXCEPT ![p] = IF pings THEN "pinging" ELSE told]
  /\ UNCHANGED <<dbUp, connected, at, faults>>

\* The ping answers within two seconds or fails.
ProbeEnd(p) ==
  /\ probe[p] = "pinging"
  /\ mu' = Free
  /\ \/ dbUp /\ faults' = faults /\ probe' = [probe EXCEPT ![p] = "up"]
     \/ FaultIf(~dbUp) /\ probe' = [probe EXCEPT ![p] = "down"]
  /\ UNCHANGED <<dbUp, connected, at>>

DbDown ==
  /\ dbUp
  /\ Fault
  /\ dbUp' = FALSE
  /\ UNCHANGED <<connected, mu, at, probe>>

DbBack ==
  /\ ~dbUp
  /\ dbUp' = TRUE
  /\ UNCHANGED <<connected, mu, at, probe, faults>>

ConnStep(c) == ConnReuse(c) \/ ConnDial(c) \/ ConnDialed(c) \/ ConnDialFails(c)

ConnNext ==
  \/ \E c \in Callers : ConnStep(c)
  \/ \E p \in Probes : ProbeStart(p) \/ ProbeEnd(p)
  \/ DbDown \/ DbBack

----------------------------------------------------------------------------
\* Every variable has its type, and the mutex is held exactly by the caller
\* that dials or the probe that pings (tsdb.go, conn and status).
ConnTypeOK ==
  /\ dbUp \in BOOLEAN /\ connected \in BOOLEAN
  /\ at \in [Callers -> {"away", "waiting", "dialing", "has", "refused"}]
  /\ probe \in [Probes -> {"none", "busy", "absent", "pinging", "up", "down"}]
  /\ faults \in 0..MaxFaults
  /\ {c \in Callers : at[c] = "dialing"} \cup {p \in Probes : probe[p] = "pinging"}
       = {mu} \ {Free}
=============================================================================
