--------------------------- MODULE ChatRoomsProofs ---------------------------
(***************************************************************************)
(* What holds of the chat-room managers for any lineup, any events, and    *)
(* any number of days, changes of what is on air, and faults.              *)
(***************************************************************************)
EXTENDS ChatRooms, TLAPS

Busy(k) == mgr[k].pc \in {"clearing", "stamping", "upserting"}

\* A run is at most one midnight old, and no date is ahead of the clock.
DatesInOrder ==
  /\ \A k \in Kinds : mgr[k].pc # "resting" => mgr[k].today <= day
  /\ \A r \in Rooms : row[r].stamp <= day

\* Room r was opened last by the manager of kind k, which wants it for one show.
Own(k, r) == row[r].kind = k /\ ~TwoFor(k, r)

\* The stamp of a room that a manager has still to open, and was the last to
\* open, is not ahead of its run.
OwnStampsInOrder ==
  \A k \in Kinds : \A s \in mgr[k].todo :
    Own(k, RoomOf[s]) => row[RoomOf[s]].stamp <= mgr[k].today

\* The delete is only for a show that does not keep its chat, and a room that
\* has not changed hands since is not yet stamped with the run's date.
ClearingIsDue ==
  \A k \in Kinds :
    mgr[k].pc = "clearing" =>
      /\ ~Keeps(mgr[k].show)
      /\ Own(k, RoomAt(k)) => row[RoomAt(k)].stamp < mgr[k].today

\* Between the delete and the stamp only newer messages arrive.
ClearedForRun ==
  \A k \in Kinds :
    mgr[k].pc = "stamping" /\ ~Keeps(mgr[k].show) /\ failedDeletes = 0 =>
      \A d \in chat[RoomAt(k)] : d >= mgr[k].today

MessagesNotAhead == \A r \in Rooms : \A d \in chat[r] : d <= day

\* The inductive invariant.
Inv ==
  /\ TypeOK
  /\ DatesInOrder
  /\ OwnStampsInOrder
  /\ ClearingIsDue
  /\ MessagesNotAhead
  /\ ClearedForRun
  /\ OldChatsNeedFailedDelete

\* The counters stay within their bounds at a fault.
LEMMA FaultBounded ==
  ASSUME TypeOK, Fault
  PROVE  faults' \in 0..MaxFaults /\ faults' = faults + 1
  BY ChatAssumption DEF TypeOK, Fault

\* The room of a show is a room.
LEMMA RoomOfShow ==
  ASSUME NEW s \in Shows
  PROVE  RoomOf[s] \in Rooms
  BY DEF Rooms

\* A show at hand, and its room.
LEMMA ShowAtHand ==
  ASSUME TypeOK, NEW k \in Kinds, Busy(k)
  PROVE  mgr[k].show \in mgr[k].todo /\ mgr[k].show \in Shows /\ RoomAt(k) \in Rooms
  BY RoomOfShow DEF TypeOK, Busy, RoomAt

\* The dates are numbers.
LEMMA DatesAreNumbers ==
  ASSUME TypeOK
  PROVE  /\ day \in Nat
         /\ \A k \in Kinds : mgr[k].today \in Nat
         /\ \A r \in Rooms : row[r].stamp \in Int
         /\ \A r \in Rooms : \A d \in chat[r] : d \in Nat
  BY ChatAssumption DEF TypeOK, Days, Row, NoRow, Never

\* Nothing is open and nobody runs in the first state.
LEMMA InitInv == Init => Inv
<1> SUFFICES ASSUME Init PROVE Inv
    OBVIOUS
<1> USE ChatAssumption DEF Init
<1>1. TypeOK
    BY DEF TypeOK, NoRow, Row, Resting, Run, Steps, Days, Never
<1>2. DatesInOrder /\ MessagesNotAhead
    BY DEF DatesInOrder, MessagesNotAhead, Resting, Run, NoRow, Never
<1>3. OwnStampsInOrder /\ ClearingIsDue /\ ClearedForRun
    BY DEF OwnStampsInOrder, ClearingIsDue, ClearedForRun, Resting, Run
<1>4. OldChatsNeedFailedDelete
    BY DEF OldChatsNeedFailedDelete, FreshDay
<1> QED BY <1>1, <1>2, <1>3, <1>4 DEF Inv

\* What a step of manager k leaves of its run: the other manager's run, its own
\* date and its wishes.
SameRun(k) ==
  /\ mgr' \in [Kinds -> [pc : Steps, today : Days, want : SUBSET Shows,
                         todo : SUBSET Shows, show : Shows \cup {"none"},
                         off : SUBSET Rooms]]
  /\ \A l \in Kinds \ {k} : mgr'[l] = mgr[l]
  /\ mgr'[k].today = mgr[k].today
  /\ mgr'[k].want = mgr[k].want

\* Opening: the run goes on with show s and the given step.
LEMMA OpeningRun ==
  ASSUME TypeOK, NEW k \in Kinds, NEW s \in Shows, NEW pc \in Steps,
         Opening(k, s, pc)
  PROVE  /\ SameRun(k)
         /\ mgr'[k].pc = pc /\ mgr'[k].show = s
         /\ mgr'[k].todo = mgr[k].todo
  BY DEF Opening, TypeOK, GoTo, SameRun

\* A step for the same show.
LEMMA SameShowRun ==
  ASSUME TypeOK, NEW k \in Kinds, NEW pc \in Steps,
         GoTo(k, [mgr[k] EXCEPT !.pc = pc])
  PROVE  /\ SameRun(k)
         /\ mgr'[k].pc = pc /\ mgr'[k].show = mgr[k].show
         /\ mgr'[k].todo = mgr[k].todo
  BY DEF TypeOK, GoTo, SameRun

\* A show is dealt with.
LEMMA ShowDoneRun ==
  ASSUME TypeOK, NEW k \in Kinds, ShowDone(k)
  PROVE  /\ SameRun(k)
         /\ mgr'[k].pc = "opening"
         /\ mgr'[k].todo = mgr[k].todo \ {mgr[k].show}
  BY ZenonT(30) DEF TypeOK, GoTo, ShowDone, SameRun, Steps

\* A run begins.
LEMMA BeginRun ==
  ASSUME TypeOK, NEW k \in Kinds, NEW want \in SUBSET Shows,
         GoTo(k, Run("opening", day, want, want, "none", {}))
  PROVE  /\ mgr' \in [Kinds -> [pc : Steps, today : Days, want : SUBSET Shows,
                                todo : SUBSET Shows, show : Shows \cup {"none"},
                                off : SUBSET Rooms]]
         /\ \A l \in Kinds \ {k} : mgr'[l] = mgr[l]
         /\ mgr'[k].pc = "opening" /\ mgr'[k].today = day
         /\ mgr'[k].want = want /\ mgr'[k].todo = want
  BY DEF TypeOK, GoTo, Run, Steps

\* A run ends.
LEMMA RestRun ==
  ASSUME TypeOK, NEW k \in Kinds, GoTo(k, Resting)
  PROVE  /\ mgr' \in [Kinds -> [pc : Steps, today : Days, want : SUBSET Shows,
                                todo : SUBSET Shows, show : Shows \cup {"none"},
                                off : SUBSET Rooms]]
         /\ \A l \in Kinds \ {k} : mgr'[l] = mgr[l]
         /\ mgr'[k].pc = "resting" /\ mgr'[k].want = {} /\ mgr'[k].todo = {}
  BY ChatAssumption DEF TypeOK, GoTo, Resting, Run, Steps, Days

\* The closing list is set.
LEMMA ClosingRun ==
  ASSUME TypeOK, NEW k \in Kinds, NEW off \in SUBSET Rooms,
         GoTo(k, [mgr[k] EXCEPT !.pc = "closing", !.off = off])
  PROVE  /\ SameRun(k)
         /\ mgr'[k].pc = "closing" /\ mgr'[k].todo = mgr[k].todo
  BY ZenonT(30) DEF TypeOK, GoTo, SameRun, Steps

\* What one step of a manager's run leaves as it was.
Tables == <<row, chat, day, onAir, daily, changes>>

\* What a run wants a room for depends on its wishes only.
LEMMA SameWishes ==
  ASSUME NEW k \in Kinds, mgr'[k].want = mgr[k].want, NEW r
  PROVE  /\ TwoFor(k, r)' <=> TwoFor(k, r)
         /\ row'[r].kind = row[r].kind => (Own(k, r)' <=> Own(k, r))
  BY DEF TwoFor, Own

\* Begin and BeginPartly: nothing is stamped ahead of a run that begins today.
LEMMA BeginKeeps ==
  ASSUME Inv, NEW k \in Kinds, Begin(k) \/ BeginPartly(k)
  PROVE  Inv'
<1>1. PICK want \in SUBSET OnAirOf(k) :
        GoTo(k, Run("opening", day, want, want, "none", {}))
    BY DEF Begin, BeginPartly
<1>2. want \in SUBSET Shows
    BY DEF Inv, TypeOK, PossibleAir, OnAirOf
<1>3. /\ UNCHANGED <<Tables, failedDeletes>>
      /\ faults' \in 0..MaxFaults /\ faults' >= faults
    BY FaultBounded DEF Begin, BeginPartly, Tables, Inv, TypeOK
<1>4. TypeOK'
    BY <1>1, <1>2, <1>3, BeginRun DEF Inv, TypeOK, Tables
<1>5. DatesInOrder'
    BY <1>1, <1>2, <1>3, BeginRun DEF Inv, DatesInOrder, Tables, TypeOK, Days
<1>6. OwnStampsInOrder'
  <2> SUFFICES ASSUME NEW l \in Kinds, NEW s \in mgr'[l].todo,
                      Own(l, RoomOf[s])'
               PROVE  row'[RoomOf[s]].stamp <= mgr'[l].today
      BY DEF OwnStampsInOrder
  <2>1. CASE l = k
    <3>1. s \in Shows
        BY <1>1, <1>2, <2>1, BeginRun DEF Inv
    <3> QED BY <1>1, <1>2, <1>3, <2>1, <3>1, BeginRun, RoomOfShow
              DEF Inv, DatesInOrder, Tables
  <2>2. CASE l # k
    <3>1. mgr'[l] = mgr[l]
        BY <1>1, <1>2, <2>2, BeginRun DEF Inv
    <3> QED BY <1>3, <3>1, SameWishes DEF Inv, OwnStampsInOrder, Tables
  <2> QED BY <2>1, <2>2
<1>7. ClearingIsDue' /\ ClearedForRun'
  <2>1. \A l \in Kinds : mgr'[l].pc \in {"clearing", "stamping"} => mgr'[l] = mgr[l]
      BY <1>1, <1>2, BeginRun DEF Inv
  <2>2. ClearingIsDue'
      BY <1>3, <2>1, SameWishes DEF Inv, ClearingIsDue, Tables, RoomAt
  <2>3. ClearedForRun'
      BY <1>3, <2>1 DEF Inv, ClearedForRun, Tables, RoomAt
  <2> QED BY <2>2, <2>3
<1>8. MessagesNotAhead' /\ OldChatsNeedFailedDelete'
    BY <1>3 DEF Inv, MessagesNotAhead, OldChatsNeedFailedDelete, FreshDay, Tables
<1> QED BY <1>4, <1>5, <1>6, <1>7, <1>8 DEF Inv

\* A step of a manager at work that writes no row: its dates and wishes stay.
LEMMA SameRowsKeep ==
  ASSUME Inv, NEW k \in Kinds, SameRun(k), mgr[k].pc # "resting",
         mgr'[k].todo \subseteq mgr[k].todo, UNCHANGED <<row, day>>
  PROVE  DatesInOrder' /\ OwnStampsInOrder'
<1>1. DatesInOrder'
    BY DEF Inv, DatesInOrder, SameRun
<1>2. \A l \in Kinds : /\ mgr'[l].todo \subseteq mgr[l].todo
                       /\ mgr'[l].today = mgr[l].today
                       /\ mgr'[l].want = mgr[l].want
    BY DEF SameRun
<1>3. OwnStampsInOrder'
    BY <1>2, SameWishes DEF Inv, OwnStampsInOrder
<1> QED BY <1>1, <1>3

\* ... nor does it disturb the delete another run is about to do.
LEMMA OthersClearing ==
  ASSUME Inv, NEW k \in Kinds, SameRun(k), UNCHANGED row,
         NEW l \in Kinds, mgr'[l].pc = "clearing",
         l = k => mgr[k].pc = "clearing" /\ mgr'[k].show = mgr[k].show
  PROVE  /\ ~Keeps(mgr'[l].show)
         /\ Own(l, RoomAt(l))' => row'[RoomAt(l)'].stamp < mgr'[l].today
<1>1. /\ mgr[l].pc = "clearing" /\ mgr'[l].show = mgr[l].show
      /\ mgr'[l].today = mgr[l].today /\ mgr'[l].want = mgr[l].want
    BY DEF SameRun
<1>2. RoomAt(l)' = RoomAt(l)
    BY <1>1 DEF RoomAt
<1>3. Own(l, RoomAt(l))' <=> Own(l, RoomAt(l))
    BY <1>1, <1>2 DEF Own, TwoFor
<1> QED BY <1>1, <1>2, <1>3 DEF Inv, ClearingIsDue

\* ReadStamp: the delete is chosen only for an old stamp.
LEMMA ReadStampKeeps ==
  ASSUME Inv, NEW k \in Kinds, NEW s \in Shows, ReadStamp(k, s)
  PROVE  Inv'
<1>1. PICK pc \in {"upserting", "stamping", "clearing"} :
        /\ Opening(k, s, pc)
        /\ pc = "clearing" => OldStamp(k, s) /\ ~Keeps(s)
        /\ pc = "stamping" => Keeps(s)
    BY DEF ReadStamp
<1>2. pc \in Steps
    BY DEF Steps
<1>3. /\ UNCHANGED <<Tables, failedDeletes, faults>>
      /\ s \in mgr[k].todo /\ mgr[k].pc = "opening"
    BY <1>1 DEF Opening, Tables
<1>4. /\ SameRun(k) /\ mgr'[k].pc = pc /\ mgr'[k].show = s
      /\ mgr'[k].todo = mgr[k].todo
    BY <1>1, <1>2, OpeningRun DEF Inv
<1>5. TypeOK'
    BY <1>1, <1>3, <1>4 DEF Inv, TypeOK, Tables, SameRun
<1>6. DatesInOrder' /\ OwnStampsInOrder'
    BY <1>3, <1>4, SameRowsKeep DEF Tables
<1>7. ClearingIsDue'
  <2> SUFFICES ASSUME NEW l \in Kinds, mgr'[l].pc = "clearing"
               PROVE  /\ ~Keeps(mgr'[l].show)
                      /\ Own(l, RoomAt(l))' => row'[RoomAt(l)'].stamp < mgr'[l].today
      BY DEF ClearingIsDue
  <2>1. CASE l # k
      BY <1>3, <1>4, <2>1, OthersClearing DEF Tables
  <2>2. CASE l = k
    <3>1. pc = "clearing" /\ ~Keeps(s) /\ row[RoomOf[s]].stamp # mgr[k].today
        BY <1>1, <1>4, <2>2 DEF OldStamp
    <3>2. Own(k, RoomOf[s]) => row[RoomOf[s]].stamp <= mgr[k].today
        BY <1>3 DEF Inv, OwnStampsInOrder
    <3>3. row[RoomOf[s]].stamp \in Int /\ mgr[k].today \in Int
        BY DatesAreNumbers, RoomOfShow DEF Inv
    <3>4. Own(k, RoomOf[s])' <=> Own(k, RoomOf[s])
        BY <1>3, <1>4 DEF Own, TwoFor, Tables, SameRun
    <3>5. RoomAt(k)' = RoomOf[s]
        BY <1>4 DEF RoomAt
    <3>6. Own(k, RoomAt(k))' <=> Own(k, RoomOf[s])
        BY <3>4, <3>5 DEF Own, TwoFor
    <3>7. row' = row /\ mgr'[k].today = mgr[k].today
        BY <1>3, <1>4 DEF Tables, SameRun
    <3> QED BY <1>4, <2>2, <3>1, <3>2, <3>3, <3>5, <3>6, <3>7
  <2> QED BY <2>1, <2>2
<1>8. ClearedForRun'
    BY <1>1, <1>3, <1>4 DEF Inv, ClearedForRun, Tables, SameRun, RoomAt
<1>9. MessagesNotAhead' /\ OldChatsNeedFailedDelete'
    BY <1>3 DEF Inv, MessagesNotAhead, OldChatsNeedFailedDelete, FreshDay, Tables
<1> QED BY <1>5, <1>6, <1>7, <1>8, <1>9 DEF Inv

\* Clear: the room at hand is emptied, no other.
LEMMA ClearKeeps ==
  ASSUME Inv, NEW k \in Kinds, Clear(k)
  PROVE  Inv'
<1>1. /\ mgr[k].pc = "clearing" /\ mgr[k].show \in mgr[k].todo
      /\ RoomAt(k) \in Rooms
      /\ GoTo(k, [mgr[k] EXCEPT !.pc = "stamping"])
      /\ UNCHANGED <<row, day, onAir, daily, failedDeletes, faults, changes>>
      /\ chat' = [chat EXCEPT ![RoomAt(k)] = {}]
    BY ShowAtHand DEF Clear, Inv, Busy
<1>2. /\ SameRun(k) /\ mgr'[k].pc = "stamping" /\ mgr'[k].show = mgr[k].show
      /\ mgr'[k].todo = mgr[k].todo
    BY <1>1, SameShowRun DEF Inv, Steps
<1>3. /\ chat' \in [Rooms -> SUBSET Days]
      /\ \A r \in Rooms : chat'[r] \subseteq chat[r]
      /\ chat'[RoomAt(k)] = {}
    BY <1>1 DEF Inv, TypeOK
<1>4. TypeOK'
    BY <1>1, <1>2, <1>3 DEF Inv, TypeOK, SameRun
<1>5. DatesInOrder' /\ OwnStampsInOrder'
    BY <1>1, <1>2, SameRowsKeep
<1>6. ClearingIsDue'
    BY <1>1, <1>2, OthersClearing DEF ClearingIsDue
<1>7. ClearedForRun'
  <2> SUFFICES ASSUME NEW l \in Kinds, mgr'[l].pc = "stamping",
                      ~Keeps(mgr'[l].show), failedDeletes' = 0,
                      NEW d \in chat'[RoomAt(l)']
               PROVE  d >= mgr'[l].today
      BY DEF ClearedForRun
  <2>1. CASE l = k
      BY <1>2, <1>3, <2>1 DEF RoomAt
  <2>2. CASE l # k
    <3>1. mgr'[l] = mgr[l] /\ RoomAt(l)' = RoomAt(l)
        BY <1>2, <2>2 DEF SameRun, RoomAt
    <3>2. RoomAt(l) \in Rooms
        BY <3>1, ShowAtHand DEF Inv, Busy
    <3> QED BY <1>1, <1>3, <3>1, <3>2 DEF Inv, ClearedForRun
  <2> QED BY <2>1, <2>2
<1>8. MessagesNotAhead' /\ OldChatsNeedFailedDelete'
    BY <1>1, <1>3 DEF Inv, TypeOK, MessagesNotAhead, OldChatsNeedFailedDelete, FreshDay
<1> QED BY <1>4, <1>5, <1>6, <1>7, <1>8 DEF Inv

\* ClearFails: from now on a delete has failed.
LEMMA ClearFailsKeeps ==
  ASSUME Inv, NEW k \in Kinds, ClearFails(k)
  PROVE  Inv'
<1>1. /\ mgr[k].pc = "clearing" /\ mgr[k].show \in mgr[k].todo
      /\ GoTo(k, [mgr[k] EXCEPT !.pc = "stamping"])
      /\ UNCHANGED Tables
    BY DEF ClearFails, Inv, TypeOK, Tables
<1>2. /\ SameRun(k) /\ mgr'[k].pc = "stamping" /\ mgr'[k].show = mgr[k].show
      /\ mgr'[k].todo = mgr[k].todo
    BY <1>1, SameShowRun DEF Inv, Steps
<1>3. faults' \in 0..MaxFaults /\ failedDeletes' \in 0..faults' /\ failedDeletes' # 0
    BY FaultBounded DEF ClearFails, Inv, TypeOK
<1>4. TypeOK'
    BY <1>1, <1>2, <1>3 DEF Inv, TypeOK, SameRun, Tables
<1>5. DatesInOrder' /\ OwnStampsInOrder'
    BY <1>1, <1>2, SameRowsKeep DEF Tables
<1>6. ClearingIsDue'
    BY <1>1, <1>2, OthersClearing DEF ClearingIsDue, Tables
<1>7. MessagesNotAhead' /\ ClearedForRun' /\ OldChatsNeedFailedDelete'
    BY <1>1, <1>3 DEF Inv, MessagesNotAhead, ClearedForRun,
                      OldChatsNeedFailedDelete, Tables
<1> QED BY <1>4, <1>5, <1>6, <1>7 DEF Inv

\* Upsert: the stamp is the run's own date, the room changes hands, and a room
\* stamped for today for a show that does not keep holds what came after its
\* delete.
LEMMA UpsertKeeps ==
  ASSUME Inv, NEW k \in Kinds, Upsert(k)
  PROVE  Inv'
<1> DEFINE r == RoomAt(k)
           stamp == IF mgr[k].pc = "stamping" THEN mgr[k].today ELSE row[r].stamp
<1>1. /\ mgr[k].pc \in {"stamping", "upserting"} /\ mgr[k].show \in mgr[k].todo
      /\ mgr[k].show \in Shows /\ r \in Rooms
      /\ row' = [row EXCEPT ![r] = [kind |-> k, active |-> TRUE, stamp |-> stamp]]
      /\ UNCHANGED <<chat, day, onAir, failedDeletes, faults, changes>>
    BY ShowAtHand DEF Upsert, Inv, Busy
<1>2. /\ SameRun(k) /\ mgr'[k].pc = "opening"
      /\ mgr'[k].todo = mgr[k].todo \ {mgr[k].show}
    BY ShowDoneRun DEF Upsert, Inv
<1>3. stamp \in Days \cup {Never} /\ stamp <= day
  <2>1. CASE mgr[k].pc = "stamping"
      BY <1>1, <2>1 DEF Inv, TypeOK, DatesInOrder
  <2>2. CASE mgr[k].pc = "upserting"
      BY <1>1, <2>2 DEF Inv, TypeOK, DatesInOrder, Row, NoRow, Never
  <2> QED BY <1>1, <2>1, <2>2
<1>4. /\ row' \in [Rooms -> Row \cup {NoRow}]
      /\ row'[r].stamp = stamp /\ row'[r].kind = k
      /\ \A q \in Rooms \ {r} : row'[q] = row[q]
    BY <1>1, <1>3 DEF Inv, TypeOK, Row
<1>5. daily' = CASE mgr[k].pc # "stamping" -> daily
                 [] Keeps(mgr[k].show)     -> daily \ {r}
                 [] OTHER                  -> daily \cup {r}
    BY DEF Upsert, Stamped
<1>6. daily' \subseteq Rooms
    BY <1>1, <1>5 DEF Inv, TypeOK
<1> HIDE DEF stamp
<1>7. TypeOK'
    BY <1>1, <1>2, <1>4, <1>6 DEF Inv, TypeOK, SameRun
<1>8. DatesInOrder'
    BY <1>1, <1>2, <1>3, <1>4 DEF Inv, DatesInOrder, SameRun
<1>9. \A l \in Kinds : /\ mgr'[l].today = mgr[l].today
                       /\ mgr'[l].want = mgr[l].want
                       /\ mgr'[l].todo \subseteq mgr[l].todo
    BY <1>2 DEF SameRun
<1>10. OwnStampsInOrder'
  <2> SUFFICES ASSUME NEW l \in Kinds, NEW s \in mgr'[l].todo,
                      Own(l, RoomOf[s])'
               PROVE  row'[RoomOf[s]].stamp <= mgr'[l].today
      BY DEF OwnStampsInOrder
  <2>1. /\ s \in mgr[l].todo /\ s \in mgr[l].want /\ s \in Shows
        /\ RoomOf[s] \in Rooms
      BY <1>9, RoomOfShow DEF Inv, TypeOK
  <2>2. CASE RoomOf[s] # r
    <3>1. Own(l, RoomOf[s])
        BY <1>4, <1>9, <2>1, <2>2, SameWishes
    <3> QED BY <1>4, <1>9, <2>1, <2>2, <3>1 DEF Inv, OwnStampsInOrder
  <2>3. CASE RoomOf[s] = r
    <3>1. l = k
        BY <1>4, <2>3 DEF Own
    <3>2. s # mgr[k].show /\ mgr[k].show \in mgr[k].want /\ RoomOf[mgr[k].show] = r
        BY <1>1, <1>2, <3>1 DEF Inv, TypeOK, RoomAt
    <3>3. TwoFor(l, RoomOf[s])'
        BY <1>9, <2>1, <2>3, <3>1, <3>2 DEF TwoFor
    <3> QED BY <3>3 DEF Own
  <2> QED BY <2>2, <2>3
<1>11. ClearingIsDue'
  <2> SUFFICES ASSUME NEW l \in Kinds, mgr'[l].pc = "clearing"
               PROVE  /\ ~Keeps(mgr'[l].show)
                      /\ Own(l, RoomAt(l))' => row'[RoomAt(l)'].stamp < mgr'[l].today
      BY DEF ClearingIsDue
  <2>1. l # k /\ mgr'[l] = mgr[l] /\ RoomAt(l)' = RoomAt(l)
      BY <1>2 DEF SameRun, RoomAt
  <2>2. RoomAt(l) \in Rooms /\ ~Keeps(mgr[l].show)
      BY <2>1, ShowAtHand DEF Inv, Busy, ClearingIsDue
  <2>3. CASE RoomAt(l) = r
      BY <1>4, <2>1, <2>2, <2>3 DEF Own
  <2>4. CASE RoomAt(l) # r
    <3>1. row'[RoomAt(l)] = row[RoomAt(l)]
        BY <1>4, <2>2, <2>4
    <3>2. Own(l, RoomAt(l))' <=> Own(l, RoomAt(l))
        BY <2>1, <3>1 DEF Own, TwoFor
    <3> QED BY <2>1, <2>2, <3>1, <3>2 DEF Inv, ClearingIsDue
  <2> QED BY <2>3, <2>4
<1>12. ClearedForRun'
    BY <1>1, <1>2 DEF Inv, ClearedForRun, SameRun, RoomAt
<1>13. MessagesNotAhead'
    BY <1>1 DEF Inv, MessagesNotAhead
<1>14. OldChatsNeedFailedDelete'
  <2> SUFFICES ASSUME failedDeletes = 0, NEW q \in daily', row'[q].stamp = day
               PROVE  chat[q] \subseteq {day}
      BY <1>1 DEF OldChatsNeedFailedDelete, FreshDay
  <2>1. CASE q # r
      BY <1>4, <1>5, <1>6, <2>1 DEF Inv, OldChatsNeedFailedDelete, FreshDay
  <2>2. CASE q = r /\ mgr[k].pc = "stamping"
    <3>1. ~Keeps(mgr[k].show) /\ mgr[k].today = day
        BY <1>4, <1>5, <2>2 DEF stamp
    <3>2. \A d \in chat[r] : d >= day /\ d <= day /\ d \in Nat
        BY <1>1, <2>2, <3>1, DatesAreNumbers DEF Inv, ClearedForRun, MessagesNotAhead
    <3> QED BY <2>2, <3>2, DatesAreNumbers DEF Inv
  <2>3. CASE q = r /\ mgr[k].pc = "upserting"
      BY <1>4, <1>5, <2>3 DEF Inv, OldChatsNeedFailedDelete, FreshDay, stamp
  <2> QED BY <1>1, <2>1, <2>2, <2>3
<1> QED BY <1>7, <1>8, <1>10, <1>11, <1>12, <1>13, <1>14 DEF Inv

\* The steps that leave every room as it is and only move the run on.
LEMMA RunOnlyKeeps ==
  ASSUME Inv, NEW k \in Kinds, SkipEvent(k) \/ List(k) \/ Abort(k)
  PROVE  Inv'
<1>1. /\ UNCHANGED <<Tables, failedDeletes>>
      /\ faults' \in 0..MaxFaults /\ faults' >= faults
    BY FaultBounded DEF SkipEvent, List, Abort, Tables, Inv, TypeOK
<1>2. /\ mgr' \in [Kinds -> [pc : Steps, today : Days, want : SUBSET Shows,
                             todo : SUBSET Shows, show : Shows \cup {"none"},
                             off : SUBSET Rooms]]
      /\ \A l \in Kinds \ {k} : mgr'[l] = mgr[l]
      /\ mgr'[k].pc \in {"opening", "closing", "resting"}
      /\ mgr'[k].todo \subseteq mgr'[k].want
      /\ \/ mgr'[k].pc = "resting" /\ mgr'[k].todo = {}
         \/ SameRun(k) /\ mgr'[k].todo \subseteq mgr[k].todo
      /\ mgr[k].pc # "resting"
  <2>1. CASE SkipEvent(k)
      BY <2>1, ShowDoneRun DEF SkipEvent, Inv, TypeOK, SameRun
  <2>2. CASE List(k)
    <3>1. PICK off \in SUBSET Rooms :
            \/ GoTo(k, Resting)
            \/ GoTo(k, [mgr[k] EXCEPT !.pc = "closing", !.off = off])
        BY <2>2 DEF List, OpenOf
    <3>2. CASE GoTo(k, Resting)
        BY <2>2, <3>2, RestRun DEF List, Inv, TypeOK
    <3>3. CASE GoTo(k, [mgr[k] EXCEPT !.pc = "closing", !.off = off])
        BY <2>2, <3>3, ClosingRun DEF List, Inv, TypeOK, SameRun
    <3> QED BY <3>1, <3>2, <3>3
  <2>3. CASE Abort(k)
      BY <2>3, RestRun DEF Abort, Inv, TypeOK
  <2> QED BY <2>1, <2>2, <2>3
<1>3. TypeOK'
    BY <1>1, <1>2 DEF Inv, TypeOK, Tables
<1>4. DatesInOrder'
    BY <1>1, <1>2 DEF Inv, DatesInOrder, Tables, SameRun
<1>5. OwnStampsInOrder'
  <2>1. \A l \in Kinds : mgr'[l].todo # {} =>
          /\ mgr'[l].todo \subseteq mgr[l].todo
          /\ mgr'[l].today = mgr[l].today /\ mgr'[l].want = mgr[l].want
      BY <1>2 DEF SameRun
  <2> QED BY <1>1, <2>1, SameWishes DEF Inv, OwnStampsInOrder, Tables
<1>6. ClearingIsDue' /\ ClearedForRun'
  <2>1. \A l \in Kinds : mgr'[l].pc \in {"clearing", "stamping"} => mgr'[l] = mgr[l]
      BY <1>2
  <2>2. ClearingIsDue'
      BY <1>1, <2>1, SameWishes DEF Inv, ClearingIsDue, Tables, RoomAt
  <2>3. ClearedForRun'
      BY <1>1, <2>1 DEF Inv, ClearedForRun, Tables, RoomAt
  <2> QED BY <2>2, <2>3
<1>7. MessagesNotAhead' /\ OldChatsNeedFailedDelete'
    BY <1>1 DEF Inv, MessagesNotAhead, OldChatsNeedFailedDelete, FreshDay, Tables
<1> QED BY <1>3, <1>4, <1>5, <1>6, <1>7 DEF Inv

\* Close: stamps and kinds stay as they are.
LEMMA CloseKeeps ==
  ASSUME Inv, NEW k \in Kinds, Close(k)
  PROVE  Inv'
<1>1. /\ UNCHANGED <<chat, day, onAir, daily, failedDeletes, faults, changes>>
      /\ GoTo(k, Resting)
    BY DEF Close
<1>2. /\ row' \in [Rooms -> Row \cup {NoRow}]
      /\ \A r \in Rooms : row'[r].stamp = row[r].stamp /\ row'[r].kind = row[r].kind
  <2>1. row \in [Rooms -> Row \cup {NoRow}]
      BY DEF Inv, TypeOK
  <2>2. ASSUME NEW r \in Rooms, row[r].kind = k
        PROVE  /\ [row[r] EXCEPT !.active = FALSE] \in Row
               /\ [row[r] EXCEPT !.active = FALSE].stamp = row[r].stamp
               /\ [row[r] EXCEPT !.active = FALSE].kind = row[r].kind
    <3>1. row[r] \in Row
        BY <2>1, <2>2 DEF NoRow, Kinds
    <3> QED BY <3>1 DEF Row
  <2> QED BY <2>1, <2>2 DEF Close
<1>3. TypeOK'
    BY <1>1, <1>2, RestRun DEF Inv, TypeOK
<1>4. DatesInOrder'
    BY <1>1, <1>2, RestRun DEF Inv, DatesInOrder
<1>5. /\ \A l \in Kinds \ {k} : mgr'[l] = mgr[l]
      /\ mgr'[k].pc = "resting" /\ mgr'[k].todo = {}
    BY <1>1, RestRun DEF Inv
<1>6. OwnStampsInOrder'
  <2> SUFFICES ASSUME NEW l \in Kinds, NEW s \in mgr'[l].todo, Own(l, RoomOf[s])'
               PROVE  row'[RoomOf[s]].stamp <= mgr'[l].today
      BY DEF OwnStampsInOrder
  <2>1. mgr'[l] = mgr[l] /\ RoomOf[s] \in Rooms
      BY <1>5, RoomOfShow DEF Inv, TypeOK
  <2>2. Own(l, RoomOf[s])
      BY <1>2, <2>1, SameWishes
  <2> QED BY <1>2, <2>1, <2>2 DEF Inv, OwnStampsInOrder
<1>7. ClearingIsDue'
  <2> SUFFICES ASSUME NEW l \in Kinds, mgr'[l].pc = "clearing"
               PROVE  /\ ~Keeps(mgr'[l].show)
                      /\ Own(l, RoomAt(l))' => row'[RoomAt(l)'].stamp < mgr'[l].today
      BY DEF ClearingIsDue
  <2>1. mgr'[l] = mgr[l] /\ RoomAt(l)' = RoomAt(l)
      BY <1>5 DEF RoomAt
  <2>2. RoomAt(l) \in Rooms
      BY <2>1, ShowAtHand DEF Inv, Busy
  <2>3. Own(l, RoomAt(l))' <=> Own(l, RoomAt(l))
      BY <1>2, <2>1, <2>2 DEF Own, TwoFor
  <2> QED BY <1>2, <2>1, <2>2, <2>3 DEF Inv, ClearingIsDue
<1>8. ClearedForRun'
    BY <1>1, <1>5 DEF Inv, ClearedForRun, RoomAt
<1>9. MessagesNotAhead' /\ OldChatsNeedFailedDelete'
    BY <1>1, <1>2 DEF Inv, TypeOK, MessagesNotAhead, OldChatsNeedFailedDelete, FreshDay
<1> QED BY <1>3, <1>4, <1>6, <1>7, <1>8, <1>9 DEF Inv

\* Neither a message, nor midnight, nor a change of what is on air touches a run
\* or a row.
LEMMA RunsUntouched ==
  ASSUME Inv, UNCHANGED <<row, mgr>>
  PROVE  OwnStampsInOrder' /\ ClearingIsDue'
<1>1. OwnStampsInOrder'
    BY DEF Inv, OwnStampsInOrder, Own, TwoFor
<1>2. ClearingIsDue'
    BY DEF Inv, ClearingIsDue, Own, TwoFor, RoomAt
<1> QED BY <1>1, <1>2

\* Post: the message carries today's date, no earlier than any run's.
LEMMA PostKeeps ==
  ASSUME Inv, NEW r \in Rooms, Post(r)
  PROVE  Inv'
<1>1. /\ UNCHANGED <<row, day, onAir, mgr, daily, failedDeletes, faults, changes>>
      /\ chat' \in [Rooms -> SUBSET Days]
      /\ \A q \in Rooms : chat'[q] \subseteq chat[q] \cup {day}
    BY DEF Post, Inv, TypeOK
<1>2. TypeOK' /\ DatesInOrder'
    BY <1>1 DEF Inv, TypeOK, DatesInOrder
<1>3. OwnStampsInOrder' /\ ClearingIsDue'
    BY <1>1, RunsUntouched
<1>4. MessagesNotAhead' /\ OldChatsNeedFailedDelete'
    BY <1>1, ChatAssumption DEF Inv, TypeOK, Days, MessagesNotAhead,
                                OldChatsNeedFailedDelete, FreshDay
<1>5. ClearedForRun'
  <2> SUFFICES ASSUME NEW l \in Kinds, mgr[l].pc = "stamping",
                      ~Keeps(mgr[l].show), failedDeletes = 0,
                      NEW d \in chat'[RoomAt(l)]
               PROVE  d >= mgr[l].today
      BY <1>1 DEF ClearedForRun, RoomAt
  <2>1. RoomAt(l) \in Rooms /\ mgr[l].today <= day
      BY ShowAtHand DEF Inv, DatesInOrder, Busy
  <2>2. d \in chat[RoomAt(l)] \/ d = day
      BY <1>1, <2>1
  <2>3. CASE d = day
      BY <2>1, <2>3, DatesAreNumbers DEF Inv
  <2>4. CASE d \in chat[RoomAt(l)]
      BY <2>4 DEF Inv, ClearedForRun
  <2> QED BY <2>2, <2>3, <2>4
<1> QED BY <1>2, <1>3, <1>4, <1>5 DEF Inv

\* Midnight and ChangeAir: after midnight no room is stamped with the new day.
LEMMA ClockKeeps ==
  ASSUME Inv, Midnight \/ ChangeAir
  PROVE  Inv'
<1>1. /\ UNCHANGED <<row, chat, mgr, daily, failedDeletes, faults>>
      /\ onAir' \in PossibleAir /\ changes' \in 0..MaxChanges
      /\ day' \in Days /\ (day' = day \/ day' = day + 1)
    BY ChatAssumption DEF Midnight, ChangeAir, Inv, TypeOK, Days
<1>2. day \in Nat /\ day' >= day
    BY <1>1, DatesAreNumbers DEF Inv
<1>3. TypeOK'
    BY <1>1 DEF Inv, TypeOK
<1>4. OwnStampsInOrder' /\ ClearingIsDue'
    BY <1>1, RunsUntouched
<1>5. ClearedForRun'
    BY <1>1 DEF Inv, ClearedForRun, RoomAt
<1>6. \A r \in Rooms : row[r].stamp \in Int /\ row[r].stamp <= day
    BY DatesAreNumbers DEF Inv, DatesInOrder
<1>7. DatesInOrder'
    BY <1>1, <1>2, <1>6, DatesAreNumbers DEF Inv, DatesInOrder
<1>8. MessagesNotAhead'
    BY <1>1, <1>2, DatesAreNumbers DEF Inv, MessagesNotAhead
<1>9. OldChatsNeedFailedDelete'
    BY <1>1, <1>2, <1>6 DEF Inv, TypeOK, OldChatsNeedFailedDelete, FreshDay
<1> QED BY <1>3, <1>4, <1>5, <1>7, <1>8, <1>9 DEF Inv

\* A stuttering step keeps what was.
LEMMA StutterKeeps ==
  ASSUME Inv, UNCHANGED vars
  PROVE  Inv'
<1>1. OwnStampsInOrder' /\ ClearingIsDue'
    BY RunsUntouched DEF vars
<1> QED BY <1>1 DEF vars, Inv, TypeOK, DatesInOrder, MessagesNotAhead,
                  ClearedForRun, RoomAt, OldChatsNeedFailedDelete, FreshDay

\* Every step keeps the inductive invariant.
LEMMA NextInv == Inv /\ [Next]_vars => Inv'
  BY BeginKeeps, ReadStampKeeps, ClearKeeps, ClearFailsKeeps, UpsertKeeps,
     RunOnlyKeeps, CloseKeeps, PostKeeps, ClockKeeps, StutterKeeps
     DEF Next, Manager

\* Every reachable state satisfies it.
LEMMA Invariance == Spec => []Inv
  BY InitInv, NextInv, PTL DEF Spec

\* Only Clear removes messages.
LEMMA OnlyClearDeletes ==
  ASSUME Inv, [Next]_vars, NEW r \in Rooms, ~(chat[r] \subseteq chat'[r])
  PROVE  \E k \in Kinds : mgr[k].pc = "clearing" /\ RoomAt(k) = r
<1>1. ASSUME NEW k \in Kinds, Clear(k)
      PROVE  mgr[k].pc = "clearing" /\ RoomAt(k) = r
    BY <1>1 DEF Clear, Inv, TypeOK
<1>2. ASSUME NEW q \in Rooms, Post(q) PROVE FALSE
    BY <1>2 DEF Post, Inv, TypeOK
<1> QED BY <1>1, <1>2 DEF Next, Manager, Begin, BeginPartly, ReadStamp, Opening,
           ClearFails, Upsert, SkipEvent, List, Close, Abort, Midnight,
           ChangeAir, vars

\* The tables and the runs keep their types.
THEOREM ChatTypes == Spec => []TypeOK
<1>1. Inv => TypeOK
    BY DEF Inv
<1> QED BY <1>1, Invariance, PTL

\* Old messages survive the daily clear only after a delete failed.
THEOREM FreshUnlessDeleteFailed == Spec => []OldChatsNeedFailedDelete
<1>1. Inv => OldChatsNeedFailedDelete
    BY DEF Inv
<1> QED BY <1>1, Invariance, PTL

\* Messages are lost only to a run that wants their room for a show that does
\* not keep its history.
THEOREM KeptIsKept == Spec => KeptChatsKept
<1>1. Inv /\ [Next]_vars
        => [\A r \in Rooms :
              \/ chat[r] \subseteq chat'[r]
              \/ \E k \in Kinds : \E s \in mgr[k].want :
                   RoomOf[s] = r /\ ~Keeps(s)]_vars
  <2> SUFFICES ASSUME Inv, [Next]_vars, NEW r \in Rooms,
                      ~(chat[r] \subseteq chat'[r])
               PROVE  \E k \in Kinds : \E s \in mgr[k].want :
                        RoomOf[s] = r /\ ~Keeps(s)
      OBVIOUS
  <2>1. PICK k \in Kinds : mgr[k].pc = "clearing" /\ RoomAt(k) = r
      BY OnlyClearDeletes
  <2>2. mgr[k].show \in mgr[k].want /\ ~Keeps(mgr[k].show)
      BY <2>1, ShowAtHand DEF Inv, TypeOK, ClearingIsDue, Busy
  <2> QED BY <2>1, <2>2 DEF RoomAt
<1> QED BY <1>1, Invariance, PTL DEF Spec, KeptChatsKept

\* From a room stamped for today only the other manager deletes, or one with
\* two shows for it.
THEOREM StampedIsKept == Spec => StampedDayKept
<1>1. Inv /\ [Next]_vars
        => [\A r \in Rooms :
              \/ row[r].stamp = day => chat[r] \subseteq chat'[r]
              \/ \E k \in Kinds :
                   /\ mgr[k].pc = "clearing" /\ RoomAt(k) = r
                   /\ row[r].kind # k \/ TwoFor(k, r)]_vars
  <2> SUFFICES ASSUME Inv, [Next]_vars, NEW r \in Rooms, row[r].stamp = day,
                      ~(chat[r] \subseteq chat'[r])
               PROVE  \E k \in Kinds : /\ mgr[k].pc = "clearing" /\ RoomAt(k) = r
                                       /\ row[r].kind # k \/ TwoFor(k, r)
      OBVIOUS
  <2>1. PICK k \in Kinds : mgr[k].pc = "clearing" /\ RoomAt(k) = r
      BY OnlyClearDeletes
  <2>2. Own(k, r) => row[r].stamp < mgr[k].today
      BY <2>1 DEF Inv, ClearingIsDue
  <2>3. mgr[k].today <= day /\ mgr[k].today \in Nat /\ day \in Nat
      BY <2>1, DatesAreNumbers DEF Inv, DatesInOrder
  <2> QED BY <2>1, <2>2, <2>3 DEF Own
<1> QED BY <1>1, Invariance, PTL DEF Spec, StampedDayKept
=============================================================================
