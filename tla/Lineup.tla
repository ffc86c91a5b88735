------------------------------- MODULE Lineup -------------------------------
(***************************************************************************)
(* What is on, and who says so: the EPG payload of a day (gofn/epg.go) and *)
(* the program that the chat managers find on the air (activeProgramAt in  *)
(* gofn/chat.go).  A day has DaySlots slots of time, and an hour some of   *)
(* them; a program is a record of its start and end, slots, and its days.  *)
(***************************************************************************)
EXTENDS Integers, Sequences, SequencesExt, Selections

CONSTANTS DaySlots, HourSlots,
          Week     \* days of a week

ASSUME LineupAssumption == DaySlots \in Nat \ {0} /\ HourSlots \in Nat \ {0} /\ Week \in Nat \ {0, 1}

Slots == 0..(DaySlots - 1)
Weekdays == 0..(Week - 1)
Program == [start : Slots, end : Slots, days : SUBSET Weekdays]

ProgramOnDay(p, day) == day \in p.days
Yesterday(day) == (day - 1) % Week
ParseHour(slot) == slot \div HourSlots

\* Only the hours are compared.
IsCrossoverFromYesterday(p, day) ==
  ProgramOnDay(p, Yesterday(day)) /\ ParseHour(p.end) < ParseHour(p.start)

FilterPrograms(programs, day) ==
  Pick(programs, {i \in DOMAIN programs : \/ ProgramOnDay(programs[i], day)
                                          \/ IsCrossoverFromYesterday(programs[i], day)})

\* An event runs from its first to its last slot, both included, and counts only
\* while its chat is enabled.
FetchActiveEvents(events, now) ==
  Pick(events, {i \in DOMAIN events : /\ events[i].enableChat
                                      /\ events[i].from <= now /\ now <= events[i].to})

Targets(e, st) == e.platform \in {"both", st.type} /\ (e.stations = {} \/ st.id \in e.stations)

\* Events go in front of the programs, one by one, so the last comes first.
StationPrograms(st, programs, events, day, now) ==
  LET active == FetchActiveEvents(events, now)
  IN  Reverse(Pick(active, {i \in DOMAIN active : Targets(active[i], st)}))
        \o FilterPrograms(programs[st.id], day)

\* A TV station is in the payload when it is visible and has something on; radio
\* whenever it is visible.
InPayload(st, programs, events, day, now) ==
  st.visible /\ (st.type = "radio" \/ StationPrograms(st, programs, events, day, now) # <<>>)

\* The start and end of today's, or yesterday's, showing around this time.  The
\* days are asked for today's weekday in both cases.
OnAir(p, day, now) ==
  LET end == IF p.end > p.start THEN p.end ELSE p.end + DaySlots
      back == IF now < p.start THEN DaySlots ELSE 0
  IN  ProgramOnDay(p, day) /\ p.start - back <= now /\ now < end - back

\* The first that is on, 0 when none is.
ActiveProgramAt(programs, day, now) ==
  LET on == {i \in DOMAIN programs : OnAir(programs[i], day, now)}
  IN  IF on = {} THEN 0 ELSE CHOOSE i \in on : \A j \in on : i <= j
=============================================================================
