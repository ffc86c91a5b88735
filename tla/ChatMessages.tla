---------------------------- MODULE ChatMessages ----------------------------
(***************************************************************************)
(* handleProcessChatMessage in chat.go, called by the app for each message *)
(* it has written: the sender becomes a participant of the room, and the   *)
(* participants, the mentioned users and the admins are notified.  Calls   *)
(* overlap; the participant is looked up and then inserted.                *)
(***************************************************************************)
EXTENDS Naturals, Sequences, FiniteSets

CONSTANTS
  Calls,           \* requests of the app
  Users,           \* of which some are admins by one of two columns:
  Flagged, Roled,  \* is_admin, and the role
  Posts,           \* messages: by whom, whom it mentions, whether it is quiet
  MaxChatFaults    \* bound: requests to the database that fail

ASSUME ChatAssumption ==
  /\ Flagged \subseteq Users /\ Roled \subseteq Users /\ MaxChatFaults \in Nat
  /\ IsFiniteSet(Calls)
  /\ Posts \subseteq [by : Users \cup {"nobody"}, mentions : SUBSET Users, quiet : BOOLEAN]

VARIABLES
  participants,  \* rows of chat_participants, by user
  call,          \* the step of each call, and what its reads returned
  pushed,        \* notifications sent, by call and user
  tangled,       \* users with a blind or an overlapping insert
  chatFaults

chatVars == <<participants, call, pushed, tangled, chatFaults>>

Unread == [f \in {"readers", "mentioned", "admins"} |-> {}]
NoPost == [by |-> "nobody", mentions |-> {}, quiet |-> TRUE]

ChatInit ==
  /\ participants \in [Users -> {0, 1}]
  /\ call = [c \in Calls |-> [pc |-> "new", post |-> NoPost, read |-> Unread, missed |-> FALSE]]
  /\ pushed = [c \in Calls |-> [u \in Users |-> <<>>]]
  /\ tangled = {}
  /\ chatFaults = 0

ChatFault == chatFaults < MaxChatFaults /\ chatFaults' = chatFaults + 1
NoChatFault == UNCHANGED chatFaults
By(c) == call[c].post.by

\* Stickers and expressions notify nobody.
AfterJoin(c) == IF call[c].post.quiet THEN "done" ELSE "readers"

----------------------------------------------------------------------------
\* A message without a user joins nobody.
Process(c, post) ==
  /\ call[c].pc = "new"
  /\ call' = [call EXCEPT ![c].post = post,
                          ![c].pc = IF post.by # "nobody" THEN "check"
                                    ELSE IF post.quiet THEN "done" ELSE "readers"]
  /\ NoChatFault
  /\ UNCHANGED <<participants, pushed, tangled>>

Overlapped(c) == \E d \in Calls \ {c} : call[d].pc = "join" /\ By(d) = By(c)

CheckJoin(c) ==
  /\ call[c].pc = "check"
  /\ call' = [call EXCEPT ![c].pc = IF participants[By(c)] > 0 THEN AfterJoin(c) ELSE "join"]
  /\ tangled' = IF Overlapped(c) THEN tangled \cup {By(c)} ELSE tangled
  /\ NoChatFault
  /\ UNCHANGED <<participants, pushed>>

\* A check that fails counts as "not there".
CheckJoinFails(c) ==
  /\ call[c].pc = "check"
  /\ ChatFault
  /\ call' = [call EXCEPT ![c].pc = "join"]
  /\ tangled' = tangled \cup {By(c)}
  /\ UNCHANGED <<participants, pushed>>

\* The schema of the table is not in the repository: no key is relied upon.
Join(c) ==
  /\ call[c].pc = "join"
  /\ participants' = [participants EXCEPT ![By(c)] = @ + 1]
  /\ call' = [call EXCEPT ![c].pc = AfterJoin(c)]
  /\ NoChatFault
  /\ UNCHANGED <<pushed, tangled>>

JoinFails(c) ==
  /\ call[c].pc = "join"
  /\ ChatFault
  /\ call' = [call EXCEPT ![c].pc = AfterJoin(c)]
  /\ UNCHANGED <<participants, pushed, tangled>>

\* The reads, in their order; what fails is left out.
Fetch(c, step, field, rows, next) ==
  /\ call[c].pc = step
  /\ \/ /\ call' = [call EXCEPT ![c].pc = next, ![c].read[field] = @ \cup (rows \ {By(c)})]
        /\ NoChatFault
     \/ /\ call' = [call EXCEPT ![c].pc = next, ![c].missed = TRUE]
        /\ ChatFault
  /\ UNCHANGED <<participants, pushed, tangled>>

ReadParticipants(c) ==
  Fetch(c, "readers", "readers", {u \in Users : participants[u] > 0}, "mentions")
\* One lookup for each mention; here all of them fail or none.
ReadMentions(c) == Fetch(c, "mentions", "mentioned", call[c].post.mentions, "flagged")
ReadFlagged(c) == Fetch(c, "flagged", "admins", Flagged, "roled")
ReadRoled(c) == Fetch(c, "roled", "admins", Roled, "push")

Recipients(c) == call[c].read.readers \cup call[c].read.mentioned \cup call[c].read.admins

\* A mention wins over the alert of an admin, which wins over a plain message.
TypeFor(c, u) ==
  CASE u \in call[c].read.mentioned -> "mention"
    [] u \in call[c].read.admins -> "admin_alert"
    [] OTHER -> "chat_message"

\* One entry of userNotification, in any order.  A user whose tokens cannot be
\* read is passed over.
NotifyUser(c, u) ==
  /\ call[c].pc = "push"
  /\ u \in Recipients(c)
  /\ \/ pushed' = [pushed EXCEPT ![c][u] = Append(@, TypeFor(c, u))] /\ NoChatFault
     \/ UNCHANGED pushed /\ ChatFault
  /\ call' = [call EXCEPT ![c].read = [f \in DOMAIN @ |-> @[f] \ {u}],
                          ![c].missed = @ \/ UNCHANGED pushed]
  /\ UNCHANGED <<participants, tangled>>

AnswerApp(c) ==
  /\ call[c].pc = "push"
  /\ Recipients(c) = {}
  /\ call' = [call EXCEPT ![c].pc = "done"]
  /\ NoChatFault
  /\ UNCHANGED <<participants, pushed, tangled>>

ChatNext ==
  \E c \in Calls :
    \/ \E post \in Posts : Process(c, post)
    \/ CheckJoin(c) \/ CheckJoinFails(c) \/ Join(c) \/ JoinFails(c)
    \/ ReadParticipants(c) \/ ReadMentions(c) \/ ReadFlagged(c) \/ ReadRoled(c)
    \/ \E u \in Users : NotifyUser(c, u)
    \/ AnswerApp(c)

ChatSpec == ChatInit /\ [][ChatNext]_chatVars

----------------------------------------------------------------------------
(* Properties *)

Types == {"mention", "admin_alert", "chat_message"}

\* Every variable has its type.
ChatTypeOK ==
  /\ participants \in [Users -> 0..(1 + Cardinality(Calls))]
  /\ \A c \in Calls :
       /\ call[c].pc \in {"new", "check", "join", "readers", "mentions", "flagged", "roled",
                          "push", "done"}
       /\ call[c].post \in Posts \cup {NoPost}
       /\ call[c].read \in [{"readers", "mentioned", "admins"} -> SUBSET Users]
       /\ call[c].missed \in BOOLEAN
       /\ \A u \in Users : \A i \in DOMAIN pushed[c][u] : pushed[c][u][i] \in Types
  /\ tangled \subseteq Users
  /\ chatFaults \in 0..MaxChatFaults

\* A user is in a room twice only if two calls looked before either inserted, or
\* a look failed (upsertChatParticipant).
JoinedOnce == \A u \in Users : participants[u] > 1 => u \in tangled

\* What call c owes user u when all its reads succeed.
Due(c, u) ==
  CASE u \in call[c].post.mentions -> "mention"
    [] u \in Flagged \cup Roled -> "admin_alert"
    [] OTHER -> "chat_message"

\* A call tells nobody twice and never its sender; whom it tells, it tells the
\* strongest reason that holds for them, and it passes over no mentioned user and
\* no admin, unless one of its reads failed (sendChatNotifications).
ToldOnce ==
  \A c \in Calls : \A u \in Users :
    /\ Len(pushed[c][u]) <= 1
    /\ pushed[c][u] # <<>> => u # By(c) /\ (call[c].missed \/ pushed[c][u] = <<Due(c, u)>>)
    /\ (/\ call[c].pc = "done" /\ ~call[c].post.quiet /\ ~call[c].missed /\ u # By(c)
        /\ Due(c, u) # "chat_message")
         => pushed[c][u] # <<>>
=============================================================================
