----------------------------- MODULE ChatRooms -----------------------------
(***************************************************************************)
(* The chat-room managers of gofn/chat.go: two goroutines, one for radio   *)
(* and one for TV, that run every minute, open the rooms of what is on air *)
(* (clearing each once a day), and then close every other room of their    *)
(* kind.  Each PostgREST request is a step of its own, so a manager        *)
(* interleaves with the other one, with listeners who write messages, with *)
(* midnight, with changes of what is on air, and with restarts.            *)
(*                                                                         *)
(* A show is a row of a lineup or an event; an event with a title has two, *)
(* one for the room of its id and one for the room of its title.  Rooms    *)
(* are named by slugs (of a program's name, of an event's title, of a TV   *)
(* station, program and start), so shows may share a room.                 *)
(***************************************************************************)
EXTENDS Integers, FiniteSets

CONSTANTS
  RadioPrograms,  \* the radio lineup
  TvPrograms,     \* the lineups of the TV stations
  Events,         \* special events whose chat is enabled
  RoomOf,         \* the room of each show
  StationOf,      \* the station of each TV program
  Platform,       \* the kinds an event's chat is opened under
  KeepShows,      \* programs with delete_chat = false
  MaxDay,         \* bound: midnights
  MaxChanges,     \* bound: changes of what is on air
  MaxFaults       \* bound: failed requests, timeouts and restarts

Kinds == {"radio", "tv"}
Shows == RadioPrograms \cup TvPrograms \cup Events
Rooms == {RoomOf[s] : s \in Shows}
Days == 0..MaxDay
Never == -1

ASSUME ChatAssumption ==
  /\ RadioPrograms \cap TvPrograms = {}
  /\ (RadioPrograms \cup TvPrograms) \cap Events = {}
  /\ DOMAIN RoomOf = Shows
  /\ DOMAIN StationOf = TvPrograms
  /\ Platform \in [Events -> SUBSET Kinds]
  /\ KeepShows \subseteq RadioPrograms \cup TvPrograms
  /\ MaxDay \in Nat /\ MaxChanges \in Nat /\ MaxFaults \in Nat

VARIABLES
  row,      \* chat_rooms: room -> [kind, active, stamp], or NoRow
  chat,     \* chat_messages: the days on which each room's messages were written
  day,      \* the UTC date
  onAir,    \* the programs and events on air now
  mgr,      \* the run each manager is in, or Resting
  daily,    \* history: the rooms last stamped for a show that does not keep
  failedDeletes, faults, changes

vars == <<row, chat, day, onAir, mgr, daily, failedDeletes, faults, changes>>

NoRow == [kind |-> "none", active |-> FALSE, stamp |-> Never]
Row == [kind : Kinds, active : BOOLEAN, stamp : Days \cup {Never}]

\* One run of a manager: its step, the date it formatted at the start, the shows
\* it wants open, those it has not opened yet, the show at hand, and the rooms
\* it will close.
Run(pc, today, want, todo, show, off) ==
  [pc |-> pc, today |-> today, want |-> want, todo |-> todo, show |-> show,
   off |-> off]
Resting == Run("resting", 0, {}, {}, "none", {})

\* Whether a program's history, or an event's, survives the daily clear.
Keeps(s) == s \in KeepShows \cup Events

EventsOf(k) == {e \in Events : k \in Platform[e]}
ProgramsOf(k) == IF k = "radio" THEN RadioPrograms ELSE TvPrograms
ShowsOf(k) == EventsOf(k) \cup ProgramsOf(k)
OnAirOf(k) == onAir \cap ShowsOf(k)

\* One program at a time on the radio and on each TV station.
PossibleAir ==
  {air \in SUBSET Shows :
     /\ Cardinality(air \cap RadioPrograms) <= 1
     /\ \A s, t \in air \cap TvPrograms : StationOf[s] = StationOf[t] => s = t}

Init ==
  /\ row = [r \in Rooms |-> NoRow]
  /\ chat = [r \in Rooms |-> {}]
  /\ day = 0
  /\ onAir \in PossibleAir
  /\ mgr = [k \in Kinds |-> Resting]
  /\ daily = {}
  /\ failedDeletes = 0 /\ faults = 0 /\ changes = 0

Fault == faults < MaxFaults /\ faults' = faults + 1
GoTo(k, run) == mgr' = [mgr EXCEPT ![k] = run]

----------------------------------------------------------------------------
\* A run fixes the time, and reads the lineups and the events.
Begin(k) ==
  /\ mgr[k].pc = "resting"
  /\ GoTo(k, Run("opening", day, OnAirOf(k), OnAirOf(k), "none", {}))
  /\ UNCHANGED <<row, chat, day, onAir, daily, failedDeletes, faults, changes>>

\* A TV station whose programs cannot be read is skipped, and so are all events
\* when that read fails: the run goes on without them.
BeginPartly(k) ==
  /\ mgr[k].pc = "resting"
  /\ Fault
  /\ \E lost \in {EventsOf(k)} \cup (IF k = "tv" THEN {{s} : s \in TvPrograms} ELSE {}) :
       LET want == OnAirOf(k) \ lost
       IN GoTo(k, Run("opening", day, want, want, "none", {}))
  /\ UNCHANGED <<row, chat, day, onAir, daily, failedDeletes, changes>>

\* The radio manager opens its program before the events, the TV manager the
\* events before the programs.
First(k, s) ==
  LET early == IF k = "radio" THEN ProgramsOf(k) ELSE EventsOf(k)
  IN s \in early \/ mgr[k].todo \cap early = {}

\* Opening the room of show s goes on with the given step.
Opening(k, s, pc) ==
  /\ mgr[k].pc = "opening"
  /\ s \in mgr[k].todo
  /\ First(k, s)
  /\ GoTo(k, [mgr[k] EXCEPT !.pc = pc, !.show = s])
  /\ UNCHANGED <<row, chat, day, onAir, daily, failedDeletes, faults, changes>>

OldStamp(k, s) == row[RoomOf[s]].stamp # mgr[k].today

\* Mutants: the date is stamped before the messages are deleted, the wish to
\* keep them is not read, or the stored date is not compared.
ReadStampNoClear(k, s) ==
  Opening(k, s, IF OldStamp(k, s) THEN "stamping" ELSE "upserting")
ReadStampKeepsNone(k, s) ==
  Opening(k, s, IF OldStamp(k, s) THEN "clearing" ELSE "upserting")
ReadStampEveryMinute(k, s) ==
  Opening(k, s, IF Keeps(s) THEN "stamping" ELSE "clearing")

\* activateChatRoom reads the stored clean date first.
ReadStamp(k, s) ==
  Opening(k, s, IF ~OldStamp(k, s) THEN "upserting"
                ELSE IF Keeps(s) THEN "stamping" ELSE "clearing")

\* The room at hand.
RoomAt(k) == RoomOf[mgr[k].show]

\* All messages of the room go, whatever their date and whichever show they
\* were written in.
Clear(k) ==
  /\ mgr[k].pc = "clearing"
  /\ chat' = [chat EXCEPT ![RoomAt(k)] = {}]
  /\ GoTo(k, [mgr[k] EXCEPT !.pc = "stamping"])
  /\ UNCHANGED <<row, day, onAir, daily, failedDeletes, faults, changes>>

\* A failed delete is logged, and the room is stamped all the same.
ClearFails(k) ==
  /\ mgr[k].pc = "clearing"
  /\ Fault
  /\ failedDeletes' = failedDeletes + 1
  /\ GoTo(k, [mgr[k] EXCEPT !.pc = "stamping"])
  /\ UNCHANGED <<row, chat, day, onAir, daily, changes>>

\* On to the next show.
ShowDone(k) ==
  GoTo(k, [mgr[k] EXCEPT !.pc = "opening", !.todo = @ \ {mgr[k].show},
                         !.show = "none"])

\* For the record: whether the show that stamps the room keeps its history.
Stamped(k) ==
  daily' = CASE mgr[k].pc # "stamping" -> daily
             [] Keeps(mgr[k].show)     -> daily \ {RoomAt(k)}
             [] OTHER                  -> daily \cup {RoomAt(k)}

\* Mutant: the room is stamped with the day after.
UpsertTomorrow(k) ==
  /\ mgr[k].pc \in {"stamping", "upserting"}
  /\ row' = [row EXCEPT ![RoomAt(k)] =
               [kind |-> k, active |-> TRUE, stamp |-> mgr[k].today + 1]]
  /\ Stamped(k)
  /\ ShowDone(k)
  /\ UNCHANGED <<chat, day, onAir, failedDeletes, faults, changes>>

\* upsertChatRoom inserts the row, or updates it; only a run that found an old
\* date writes the date.
Upsert(k) ==
  /\ mgr[k].pc \in {"stamping", "upserting"}
  /\ row' = [row EXCEPT ![RoomAt(k)] =
               [kind |-> k, active |-> TRUE,
                stamp |-> IF mgr[k].pc = "stamping" THEN mgr[k].today
                                                    ELSE @.stamp]]
  /\ Stamped(k)
  /\ ShowDone(k)
  /\ UNCHANGED <<chat, day, onAir, failedDeletes, faults, changes>>

\* An error while opening an event's room is dropped and the run goes on.
SkipEvent(k) ==
  /\ mgr[k].pc \in {"clearing", "stamping", "upserting"}
  /\ mgr[k].show \in Events
  /\ Fault
  /\ ShowDone(k)
  /\ UNCHANGED <<row, chat, day, onAir, daily, failedDeletes, changes>>

OpenOf(k) == {r \in Rooms : row[r].kind = k /\ row[r].active}
Wanted(k) == {RoomOf[s] : s \in mgr[k].want}

\* Mutant: once nothing is on air the manager closes nothing.
ListUnlessIdle(k) ==
  /\ mgr[k].pc = "opening"
  /\ mgr[k].todo = {}
  /\ LET off == OpenOf(k) \ Wanted(k)
     IN GoTo(k, IF off = {} \/ mgr[k].want = {}
                  THEN Resting
                  ELSE [mgr[k] EXCEPT !.pc = "closing", !.off = off])
  /\ UNCHANGED <<row, chat, day, onAir, daily, failedDeletes, faults, changes>>

\* The open rooms of this kind, as read now, less those wanted.  (With nothing
\* wanted the TV manager closes all of its kind in one request; only it opens
\* rooms of its kind, so that closes the same ones.)
List(k) ==
  /\ mgr[k].pc = "opening"
  /\ mgr[k].todo = {}
  /\ LET off == OpenOf(k) \ Wanted(k)
     IN GoTo(k, IF off = {} THEN Resting ELSE [mgr[k] EXCEPT !.pc = "closing",
                                                             !.off = off])
  /\ UNCHANGED <<row, chat, day, onAir, daily, failedDeletes, faults, changes>>

\* PATCH kind=eq.k,id=in.(...): a room that changed kind since is left alone.
Close(k) ==
  /\ mgr[k].pc = "closing"
  /\ row' = [r \in Rooms |-> IF r \in mgr[k].off /\ row[r].kind = k
                               THEN [row[r] EXCEPT !.active = FALSE]
                               ELSE row[r]]
  /\ GoTo(k, Resting)
  /\ UNCHANGED <<chat, day, onAir, daily, failedDeletes, faults, changes>>

\* A read or a write that must succeed fails, the minute is over, or the service
\* restarts: what the run has done so far stays.
Abort(k) ==
  /\ mgr[k].pc # "resting"
  /\ Fault
  /\ GoTo(k, Resting)
  /\ UNCHANGED <<row, chat, day, onAir, daily, failedDeletes, changes>>

----------------------------------------------------------------------------
\* A listener writes a message into an open room.
Post(r) ==
  /\ row[r].active
  /\ chat' = [chat EXCEPT ![r] = @ \cup {day}]
  /\ UNCHANGED <<row, day, onAir, mgr, daily, failedDeletes, faults, changes>>

\* A run ends within its minute, so none began before the day that ends.
Midnight ==
  /\ day < MaxDay
  /\ \A k \in Kinds : mgr[k].pc # "resting" => mgr[k].today = day
  /\ day' = day + 1
  /\ UNCHANGED <<row, chat, onAir, mgr, daily, failedDeletes, faults, changes>>

ChangeAir ==
  /\ changes < MaxChanges
  /\ changes' = changes + 1
  /\ onAir' \in PossibleAir \ {onAir}
  /\ UNCHANGED <<row, chat, day, mgr, daily, failedDeletes, faults>>

----------------------------------------------------------------------------
Manager(k) ==
  \/ Begin(k) \/ BeginPartly(k)
  \/ \E s \in Shows : ReadStamp(k, s)
  \/ Clear(k) \/ ClearFails(k) \/ Upsert(k) \/ SkipEvent(k)
  \/ List(k) \/ Close(k) \/ Abort(k)

Next ==
  \/ \E k \in Kinds : Manager(k)
  \/ \E r \in Rooms : Post(r)
  \/ Midnight \/ ChangeAir

Spec == Init /\ [][Next]_vars

\* runEvery calls each manager again, minute after minute.
FairSpec == Spec /\ \A k \in Kinds : WF_vars(Manager(k))

----------------------------------------------------------------------------
(* Properties *)

Steps == {"resting", "opening", "clearing", "stamping", "upserting", "closing"}

\* Every table and every run has its type.
TypeOK ==
  /\ row \in [Rooms -> Row \cup {NoRow}]
  /\ chat \in [Rooms -> SUBSET Days]
  /\ day \in Days
  /\ onAir \in PossibleAir
  /\ mgr \in [Kinds -> [pc : Steps, today : Days, want : SUBSET Shows,
                        todo : SUBSET Shows, show : Shows \cup {"none"},
                        off : SUBSET Rooms]]
  /\ \A k \in Kinds : /\ mgr[k].todo \subseteq mgr[k].want
                      /\ mgr[k].pc \in {"clearing", "stamping", "upserting"}
                           => mgr[k].show \in mgr[k].todo
  /\ daily \subseteq Rooms
  /\ faults \in 0..MaxFaults /\ failedDeletes \in 0..faults
  /\ changes \in 0..MaxChanges

\* The run of manager k wants the room open for two shows.
TwoFor(k, r) == \E s, t \in mgr[k].want : s # t /\ RoomOf[s] = r /\ RoomOf[t] = r

\* Messages are only lost to a run that found a show of their room on air that
\* does not keep its history: a program with delete_chat = false and an event
\* lose nothing on their own account, nor to any other room's new day; what
\* they share with is the one way to lose them.
KeptChatsKept ==
  [][\A r \in Rooms :
       \/ chat[r] \subseteq chat'[r]
       \/ \E k \in Kinds : \E s \in mgr[k].want : RoomOf[s] = r /\ ~Keeps(s)]_vars

\* A room is cleared at most until it is stamped with the day: messages written
\* after that are there for the rest of the day.  What can take them is only the
\* other manager, which read the stamp before this one wrote it (or, over
\* midnight, a manager that has two shows for the room).
StampedDayKept ==
  [][\A r \in Rooms :
       \/ row[r].stamp = day => chat[r] \subseteq chat'[r]
       \/ \E k \in Kinds :
            /\ mgr[k].pc = "clearing" /\ RoomAt(k) = r
            /\ row[r].kind # k \/ TwoFor(k, r)]_vars

\* A room stamped with the day for a show that does not keep its history has
\* only that day's messages.
FreshDay ==
  \A r \in daily : row[r].stamp = day => chat[r] \subseteq {day}

\* ... and old messages survive only in a room whose delete failed.
OldChatsNeedFailedDelete == failedDeletes = 0 => FreshDay

\* When what is on air no longer changes, exactly its rooms are open in the end:
\* a room that both managers open, whose row changes hands between them, is open
\* while one of its shows lasts and closed when the last is over.
RoomsFollowAir ==
  <>[](\A r \in Rooms : row[r].active <=> \E s \in onAir : RoomOf[s] = r)
=============================================================================
