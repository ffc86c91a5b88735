------------------------------- MODULE Inbound ------------------------------
(***************************************************************************)
(* A listener's SMS on its way into a chat room (handleSMSInbound in       *)
(* sms.go, inbound_router.go).  The gateway pushes a text and pushes it    *)
(* again when it hears of no success; the handler finds the station, then  *)
(* the room on air, writes the message, then the contact, and tells the    *)
(* admins.  The room manager's daily clear (ChatRooms has all of it) runs  *)
(* beside it on the same rooms.                                            *)
(***************************************************************************)
EXTENDS Naturals, FiniteSets

CONSTANTS
  Texts, Sender,     \* the texts, and who sent each
  MaxSends,          \* bound: pushes of one text
  Rooms,             \* of one station
  RoomAdmins,        \* users who are told, at most 50 of them
  MaxMoves,          \* bound: changes of the program on air
  MaxInboundFaults   \* bound

ASSUME InboundAssumption ==
  /\ MaxSends \in Nat \ {0} /\ MaxMoves \in Nat /\ MaxInboundFaults \in Nat
  /\ Sender \in [Texts -> {Sender[t] : t \in Texts}]
  /\ "none" \notin Rooms

VARIABLES
  route,      \* channel_routing's active row for the number: none, or one of a station
              \* whose id is "plain" or, as with a space in it, changed by escaping
  onAir,      \* the room of the program on air, or "none"
  push,       \* the handler of each push of a text, and its answer
  messages,   \* chat_messages: the pushes whose message is there
  written,    \* every push that wrote one
  early,      \* those that wrote before the room had today's stamp
  contacts,   \* senders with a row in channel_contacts
  alerts,     \* admins told, by push
  stamped,    \* rooms cleared today
  clear,      \* the manager's daily clear of one room
  moves, inboundFaults

inboundVars == <<route, onAir, push, messages, written, early, contacts, alerts,
                 stamped, clear, moves, inboundFaults>>

Routes == {"none", "plain", "escaped"}
Pushes == Texts \X (1..MaxSends)
Running == {"route", "resolve", "insert", "contact", "patch", "post", "notify"}
Handler(pc, room, aired, blind) == [pc |-> pc, room |-> room, aired |-> aired, blind |-> blind]
IdleClear == [pc |-> "idle", room |-> "none"]

InboundInit ==
  /\ route \in Routes
  /\ onAir \in Rooms \cup {"none"}
  /\ push = [p \in Pushes |-> Handler("unsent", "none", {}, FALSE)]
  /\ messages = {} /\ written = {} /\ early = {} /\ contacts = {} /\ alerts = {}
  /\ stamped = {} /\ clear = IdleClear
  /\ moves = 0 /\ inboundFaults = 0

InboundFault == inboundFaults < MaxInboundFaults /\ inboundFaults' = inboundFaults + 1
NoInboundFault == UNCHANGED inboundFaults
To(p, pc) == push' = [push EXCEPT ![p].pc = pc]

roomVars == <<route, onAir, stamped, clear, moves>>
tableVars == <<messages, written, early, contacts, alerts>>

----------------------------------------------------------------------------
\* The gateway pushes again after a refusal; that it gave up waiting, or lost
\* the answer, is a fault.
Send(p) ==
  LET t == p[1]
      n == p[2]
      last == push[<<t, n - 1>>].pc
  IN  /\ push[p].pc = "unsent"
      /\ \/ n = 1 /\ NoInboundFault
         \/ n > 1 /\ last \in {"refused", "cut"} /\ NoInboundFault
         \/ n > 1 /\ last \in Running \cup {"done", "dropped"} /\ InboundFault
      /\ push' = [push EXCEPT ![p] = Handler("route", "none", {onAir}, FALSE)]
      /\ UNCHANGED <<roomVars, tableVars>>

ReadRoute(p) ==
  /\ push[p].pc = "route"
  /\ To(p, IF route = "none" THEN "refused" ELSE "resolve")
  /\ NoInboundFault
  /\ UNCHANGED <<roomVars, tableVars>>

ReadRouteFails(p) ==
  /\ push[p].pc = "route"
  /\ InboundFault
  /\ To(p, "refused")
  /\ UNCHANGED <<roomVars, tableVars>>

\* The station's id is escaped before url.Values escapes it: one that this changes
\* matches no program.  With nothing on air the text is dropped and the gateway told so.
Resolve(p) ==
  LET found == IF route = "escaped" THEN "none" ELSE onAir IN
  /\ push[p].pc = "resolve"
  /\ push' = [push EXCEPT ![p].room = found,
                          ![p].pc = IF found = "none" THEN "dropped" ELSE "insert"]
  /\ NoInboundFault
  /\ UNCHANGED <<roomVars, tableVars>>

\* Programs that cannot be read count as nothing on air.
ResolveFails(p) ==
  /\ push[p].pc = "resolve"
  /\ InboundFault
  /\ push' = [push EXCEPT ![p].pc = "dropped", ![p].blind = TRUE]
  /\ UNCHANGED <<roomVars, tableVars>>

\* A random id for each push: the same text pushed twice is written twice.
Store(p) ==
  /\ messages' = messages \cup {p}
  /\ written' = written \cup {p}
  /\ early' = IF push[p].room \in stamped THEN early ELSE early \cup {p}

Insert(p) ==
  /\ push[p].pc = "insert"
  /\ Store(p)
  /\ To(p, "contact")
  /\ NoInboundFault
  /\ UNCHANGED <<roomVars, contacts, alerts>>

\* The error may hide that the row was written; the contact is not.
InsertFails(p) ==
  /\ push[p].pc = "insert"
  /\ InboundFault
  /\ Store(p) \/ UNCHANGED <<messages, written, early>>
  /\ To(p, "refused")
  /\ UNCHANGED <<roomVars, contacts, alerts>>

CheckContact(p) ==
  /\ push[p].pc = "contact"
  /\ To(p, IF Sender[p[1]] \in contacts THEN "patch" ELSE "post")
  /\ NoInboundFault
  /\ UNCHANGED <<roomVars, tableVars>>

\* After a failed check the row is posted all the same.
CheckContactFails(p) ==
  /\ push[p].pc = "contact"
  /\ InboundFault
  /\ To(p, "post")
  /\ UNCHANGED <<roomVars, tableVars>>

\* A post of a row that is there is refused by the primary key, a patch of one
\* that is not changes nothing; both errors are dropped.
WriteContact(p) ==
  /\ push[p].pc \in {"patch", "post"}
  /\ contacts' = IF push[p].pc = "post" THEN contacts \cup {Sender[p[1]]} ELSE contacts
  /\ To(p, "notify")
  /\ NoInboundFault
  /\ UNCHANGED <<roomVars, messages, written, early, alerts>>

WriteContactFails(p) ==
  /\ push[p].pc \in {"patch", "post"}
  /\ InboundFault
  /\ push' = [push EXCEPT ![p].pc = "notify", ![p].blind = TRUE]
  /\ UNCHANGED <<roomVars, tableVars>>

\* Admins, tokens and pushes that fail only shrink who is told.
Notify(p) ==
  /\ push[p].pc = "notify"
  /\ \E told \in SUBSET RoomAdmins :
       /\ alerts' = alerts \cup ({p} \X told)
       /\ IF told = RoomAdmins THEN NoInboundFault ELSE InboundFault
  /\ To(p, "done")
  /\ UNCHANGED <<roomVars, messages, written, early, contacts>>

----------------------------------------------------------------------------
(* Beside it *)

AirMoves ==
  /\ moves < MaxMoves
  /\ moves' = moves + 1
  /\ onAir' \in (Rooms \cup {"none"}) \ {onAir}
  /\ push' = [p \in Pushes |-> IF push[p].pc \in Running
                               THEN [push[p] EXCEPT !.aired = @ \cup {onAir'}] ELSE push[p]]
  /\ UNCHANGED <<route, tableVars, stamped, clear, inboundFaults>>

\* Mutant: every run of the manager clears the room on air.
ReadRoomStampNot ==
  /\ clear.pc = "idle"
  /\ onAir \in Rooms
  /\ clear' = [pc |-> "delete", room |-> onAir]
  /\ UNCHANGED <<route, onAir, push, tableVars, stamped, moves, inboundFaults>>

\* activateChatRoom: the stamp is read, the messages are deleted, whichever they
\* are, and the stamp is written.
ReadRoomStamp ==
  /\ clear.pc = "idle"
  /\ onAir \in Rooms \ stamped
  /\ clear' = [pc |-> "delete", room |-> onAir]
  /\ UNCHANGED <<route, onAir, push, tableVars, stamped, moves, inboundFaults>>

DeleteChat ==
  /\ clear.pc = "delete"
  /\ messages' = {p \in messages : push[p].room # clear.room}
  /\ clear' = [clear EXCEPT !.pc = "stamp"]
  /\ UNCHANGED <<route, onAir, push, written, early, contacts, alerts, stamped, moves,
                 inboundFaults>>

DeleteChatFails ==
  /\ clear.pc = "delete"
  /\ InboundFault
  /\ clear' = [clear EXCEPT !.pc = "stamp"]
  /\ UNCHANGED <<route, onAir, push, tableVars, stamped, moves>>

StampRoom ==
  /\ clear.pc = "stamp"
  /\ stamped' = stamped \cup {clear.room}
  /\ clear' = IdleClear
  /\ UNCHANGED <<route, onAir, push, tableVars, moves, inboundFaults>>

\* A restart cuts the requests that run, and the manager's run.
InboundRestart ==
  /\ InboundFault
  /\ push' = [p \in Pushes |-> IF push[p].pc \in Running
                               THEN [push[p] EXCEPT !.pc = "cut"] ELSE push[p]]
  /\ clear' = IdleClear
  /\ UNCHANGED <<route, onAir, tableVars, stamped, moves>>

InboundNext ==
  \/ \E p \in Pushes :
       \/ Send(p) \/ ReadRoute(p) \/ ReadRouteFails(p) \/ Resolve(p) \/ ResolveFails(p)
       \/ Insert(p) \/ InsertFails(p) \/ CheckContact(p) \/ CheckContactFails(p)
       \/ WriteContact(p) \/ WriteContactFails(p) \/ Notify(p)
  \/ AirMoves \/ ReadRoomStamp \/ DeleteChat \/ DeleteChatFails \/ StampRoom
  \/ InboundRestart

InboundSpec == InboundInit /\ [][InboundNext]_inboundVars

----------------------------------------------------------------------------
(* Properties *)

\* Every variable has its type.
InboundTypeOK ==
  /\ route \in Routes
  /\ onAir \in Rooms \cup {"none"}
  /\ push \in [Pushes -> [pc : Running \cup {"unsent", "refused", "cut", "dropped", "done"},
                          room : Rooms \cup {"none"}, aired : SUBSET (Rooms \cup {"none"}),
                          blind : BOOLEAN]]
  /\ messages \subseteq written /\ written \subseteq Pushes /\ early \subseteq written
  /\ contacts \subseteq {Sender[t] : t \in Texts}
  /\ alerts \subseteq Pushes \X RoomAdmins
  /\ stamped \subseteq Rooms
  /\ clear \in [pc : {"idle", "delete", "stamp"}, room : Rooms \cup {"none"}]
  /\ moves \in 0..MaxMoves /\ inboundFaults \in 0..MaxInboundFaults

\* A text answered with success is in its room's chat for the rest of the day,
\* unless it came before the manager had cleared the room: routing goes by the
\* lineup, and the manager opens the room up to a minute later and clears it
\* (resolveActiveRoom, activateChatRoom).
SuccessMeansKept ==
  \A p \in Pushes : push[p].pc = "done" => p \in messages \/ p \in early

\* A message goes to a room that was on air while its push was handled, though
\* the program may have ended when it is written; and a text is dropped only if
\* nothing was on air, or the lineup could not be read, or the station's id does not
\* survive being escaped twice: none of its texts is ever written, though the room
\* manager, which escapes once, opens its rooms (resolveActiveRoom, chat.go:300).
RoutedByTheAir ==
  \A p \in Pushes :
    /\ p \in written => push[p].room \in push[p].aired \ {"none"}
    /\ push[p].pc = "dropped" => "none" \in push[p].aired \/ push[p].blind \/ route = "escaped"
    /\ route = "escaped" => push[p].pc # "done" /\ p \notin written

\* A text is in the chat once more than it should only for each time that a
\* request failed or an answer was lost, late or cut (insertInboundMessage).
CopiesNeedResends ==
  \A t \in Texts : Cardinality({p \in written : p[1] = t}) <= 1 + inboundFaults

\* The sender of a text answered with success can be found for a reply, unless
\* writing the contact failed; overlapping texts of a new sender both post the
\* row, and one of them is refused (upsertChannelContact).
SenderKnown ==
  \A p \in Pushes : push[p].pc = "done" => Sender[p[1]] \in contacts \/ push[p].blind

InboundTrue == SuccessMeansKept /\ RoutedByTheAir /\ CopiesNeedResends /\ SenderKnown
=============================================================================
